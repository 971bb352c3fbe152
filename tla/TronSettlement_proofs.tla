----------------------- MODULE TronSettlement_proofs -----------------------
(***************************************************************************)
(* What the TRON rail promises, for any number of sweeps, transfers,       *)
(* invoices and orders.                                                    *)
(***************************************************************************)
EXTENDS TronSettlement, FiniteSetTheorems, WellFoundedInduction, TLAPS

tag(a) == tronTagOfAmountUsdt6(a)

SettledStatuses == {"UNDERPAID", "PAID"}
BoundStatuses == SettledStatuses \cup {"CONFIRMING"}
Steps == Labels \ {"idle", "load", "next"}
OrderSteps == Steps \ {"topup", "reread"}
Short == {"prior", "complete", "under"}
Owing == Short \cup {"paid", "reread"}

-----------------------------------------------------------------------------
(* The invariant.                                                          *)

\* A sweep, whatever its "eff" and "flagged" may be.
IsSweep(w) == w \in [pc : Labels, todo : SUBSET Transfers, tx : Transfers \cup {NoTransfer},
                     row : RowIds \cup {NoTransfer}, ask : Nat, eff : {w.eff},
                     known : [RowIds -> Rows], flagged : {w.flagged},
                     cands : SUBSET [row : RowIds, amount : Nat, tx : Transfers \cup {NoTransfer},
                                     status : RowStatuses],
                     closed : SUBSET Orders, aged : SUBSET RowIds]

Types ==
  /\ sent \in [Transfers -> Nat]
  /\ status \in [Orders -> {"PENDING", "PAID", "EXPIRED"}]
  /\ payer \in [Orders -> Transfers \cup {NoTransfer, FromBalance}]
  /\ rows \in [RowIds -> Rows]
  /\ booked \subseteq Entries
  /\ balance \in Nat
  /\ lapsed \subseteq Orders
  /\ aged \subseteq RowIds

\* The order of an invoice is not open: it never will be again.
Shut(i) == OrderOf[i] \in Orders /\ status[OrderOf[i]] # "PENDING"
\* What is asked on an invoice, as long as it matters.
Asks(a, i) == a = Ask[i] \/ Shut(i)
\* A transfer has paid the order of an invoice, or is recorded as a short payment towards it.
PartPaid(i) == OrderOf[i] \in Orders /\ (rows[i].status = "UNDERPAID" \/ payer[OrderOf[i]] \in Transfers)

RowIsRight(r) ==
  LET w == rows[r]  t == w.tx  i == w.inv IN
  /\ w.status = "absent" => t = NoTransfer /\ r \notin Invoices
  /\ w.status # "absent" => tag(w.amount) = tag(Ask[i]) /\ (t # NoTransfer <=> w.status \in BoundStatuses)
  /\ t # NoTransfer => sent[t] # 0 /\ tag(sent[t]) = tag(Ask[i])
  /\ w.status = "UNDERPAID" => OrderOf[i] \in Orders /\ Asks(w.amount, i)
  /\ r \in Invoices => i = r /\ (w.status \notin SettledStatuses => w.amount = Ask[r])
  /\ r \in Transfers /\ w.status # "absent" => t = r /\ PartPaid(i)

RowsInv ==
  /\ \A r \in RowIds : RowIsRight(r)
  /\ \A q, r \in RowIds : rows[q].tx = rows[r].tx => rows[q].tx = NoTransfer \/ q = r

PaidBy(o, r) == rows[r].tx = payer[o] /\ rows[r].status = "PAID" /\ orderOf(r) = o
OrdersInv ==
  /\ \A o \in Orders : payer[o] # NoTransfer <=> status[o] = "PAID"
  /\ \A o \in Orders : payer[o] \in Transfers => \E r \in RowIds : PaidBy(o, r)
  /\ \A i \in aged \cap Invoices : OrderOf[i] \in Orders => OrderOf[i] \in lapsed

Gross == {"late", "underpaid", "topup"}
Spent(t) == \E o \in Orders : payer[o] = t
EntryIsRight(e) ==
  LET t == rows[e.row].tx IN
  /\ rows[e.row].status \in SettledStatuses
  /\ e.key = "reclaim" => orderOf(e.row) \in Orders /\ payer[orderOf(e.row)] = t
  /\ e.key \in Gross => ~Spent(t) /\ e.cents = Cents(sent[t]) /\ e.cents > 0
  /\ e.key = "overpaid" => Spent(t) /\ \E i \in Invoices : e.cents = Cents(sent[t] - Ask[i])

Credited(r) == \E e \in booked : e.row = r /\ e.key # "reclaim"
BooksInv ==
  /\ \A e \in booked : EntryIsRight(e)
  /\ \A e, f \in booked : e.row = f.row /\ (e.key = "reclaim" <=> f.key = "reclaim") => e = f
  /\ \A r \in RowIds : rows[r].status \in SettledStatuses =>
       Spent(rows[r].tx) \/ Cents(sent[rows[r].tx]) = 0 \/ Credited(r)

\* What a transfer brings and the balance adds is at least what is asked.
Covers(o, a) ==
  \/ sent[payer[o]] >= a
  \/ \E e \in booked : /\ e.key = "reclaim" /\ orderOf(e.row) = o
                       /\ sent[payer[o]] + e.cents * CentsToUsdt6 >= a
CoveredInv == \A i \in Invoices :
  OrderOf[i] \in Orders /\ payer[OrderOf[i]] \in Transfers => Covers(OrderOf[i], Ask[i])

Core == Types /\ RowsInv /\ OrdersInv /\ BooksInv /\ CoveredInv

\* What a sweep has read, as far as it is still so.
KnownIsRight(r, k) == k.tx # NoTransfer =>
  /\ rows[r].tx = k.tx /\ rows[r].inv = k.inv /\ rows[r].status # "absent"
  /\ tag(k.amount) = tag(Ask[k.inv])
  /\ r \in Invoices /\ k.status = "CONFIRMING" => k.amount = Ask[r]
CandIsRight(c) ==
  LET i == rows[c.row].inv IN
  /\ rows[c.row].status # "absent"
  /\ tag(c.amount) = tag(Ask[i])
  /\ c.row \in Invoices \/ canTakeTransfer(c) => Asks(c.amount, i)
  /\ c.status = "UNDERPAID" => PartPaid(i)
\* An open invoice is among the candidates: expectedFor() finds its ask there.
Offered(w, i) == \E c \in w.cands : c.row = i
Reads(w) ==
  /\ \A t \in w.todo : sent[t] # 0
  /\ \A r \in RowIds : KnownIsRight(r, w.known[r])
  /\ \A c \in w.cands : CandIsRight(c)
  /\ w.pc = "load" => \A i \in w.aged \cap Invoices : OrderOf[i] \in Orders => OrderOf[i] \in w.closed
  /\ w.pc \notin {"idle", "load"} /\ w.todo # {} =>
       \A i \in Invoices : OrderOf[i] \in Orders \ w.closed /\ rows[i].status # "PAID" => Offered(w, i)
\* What it is settling.
Settles(w) == w.pc \in Steps =>
  LET i == rows[w.row].inv IN
  /\ w.tx \in Transfers /\ w.row \in RowIds /\ rows[w.row].tx = w.tx /\ tag(w.ask) = tag(Ask[i])
  /\ w.pc \in OrderSteps => OrderOf[i] \in Orders
  /\ w.pc = "topup" => OrderOf[i] = NoOrder
  /\ w.pc \in Owing /\ OrderOf[i] \in Orders => Asks(w.ask, i)
  /\ w.pc = "paid" => sent[w.tx] >= w.ask
  /\ w.pc \in Short => sent[w.tx] < w.ask
Sound(w) == IsSweep(w) /\ Reads(w) /\ Settles(w)

IInv == Core /\ sweep \in [Sweeps -> {sweep[s] : s \in Sweeps}] /\ \A s \in Sweeps : Sound(sweep[s])

\* What no step takes back.
Keeps ==
  /\ \A t \in Transfers : sent[t] # 0 => sent'[t] = sent[t]
  /\ \A o \in Orders : status[o] # "PENDING" => status'[o] = status[o] /\ payer'[o] = payer[o]
  /\ \A o \in Orders : payer[o] \in Transfers => payer'[o] = payer[o]
  /\ \A r \in RowIds :
       /\ rows[r].tx # NoTransfer => rows'[r].tx = rows[r].tx
       /\ rows[r].status # "absent" => rows'[r].inv = rows[r].inv /\ rows'[r].status # "absent"
       /\ rows[r].status = "PAID" => rows'[r].status = "PAID"
       /\ rows[r].status = "UNDERPAID" =>
            \/ rows'[r].status = "UNDERPAID"
            \/ rows'[r].status = "PAID" /\ payer'[orderOf(r)] \in Transfers

-----------------------------------------------------------------------------
(* Cents, tags and matching.                                               *)

LEMMA CentsIsNat == ASSUME NEW a \in Nat PROVE Cents(a) \in Nat
  BY UnitsAssumption DEF Cents, usdt6ToUsdCents

LEMMA Division ==
  ASSUME NEW n \in Nat, NEW d \in Nat, d > 0, NEW q, q = n \div d, NEW r, r = n % d
  PROVE  q \in Nat /\ r \in 0 .. d - 1 /\ n = d * q + r
<1>1. q \in Nat /\ r \in 0 .. d - 1
  BY SMTT(30)
<1>2. n = d * q + r
  BY SMTT(30)
<1> QED
  BY <1>1, <1>2

\* The remainder of a purchase in cents is worth at least the remainder.
LEMMA RemainderCovers ==
  ASSUME NEW a \in Nat, a > 0
  PROVE  wholeCentsUp(a) \in Nat \ {0} /\ wholeCentsUp(a) * CentsToUsdt6 >= a
<1> DEFINE d == CentsToUsdt6
           n == a + d - 1
           q == n \div d
           r == n % d
<1>1. d \in Nat /\ d > 0 /\ n \in Nat
  BY UnitsAssumption
<1> HIDE DEF d, n
<1>2. q \in Nat /\ r \in 0 .. d - 1 /\ n = d * q + r
  BY <1>1, Division
<1> HIDE DEF q, r
<1>3. n = a + d - 1
  BY DEF n
<1> DEFINE p == d * q
<1>4. p \in Int /\ p = q * d
  BY <1>1, <1>2, SMTT(30)
<1>5. q = 0 => p = 0
  BY <1>1
<1>6. n = p + r
  BY <1>2
<1> HIDE DEF p
<1>7. p >= a
  BY <1>1, <1>2, <1>3, <1>4, <1>6
<1>8. q # 0
  BY <1>5, <1>7
<1> QED
  BY <1>2, <1>4, <1>7, <1>8 DEF wholeCentsUp, n, q, d

\* A transfer is taken for an invoice only by its tag.
LEMMA MatchIsRight ==
  ASSUME NEW C, NEW a, NEW c \in matchTransfer(C, a)
  PROVE  c \in C /\ canTakeTransfer(c) /\ tag(c.amount) = tag(a)
  BY DEF matchTransfer, pickBest, tag

\* No transfer is a number the code uses for something else.
LEMMA TransferIsNumber ==
  ASSUME NEW t \in Transfers PROVE t # NoTransfer /\ t # FromBalance
  BY TransfersAssumption DEF NoTransfer, FromBalance

LEMMA SoldIsPaid ==
  ASSUME Core, NEW o \in Orders, payer[o] \in Transfers PROVE status[o] = "PAID"
  BY TransferIsNumber DEF Core, OrdersInv

-----------------------------------------------------------------------------
(* What a sweep knows stays so.                                            *)

LEMMA Stays ==
  ASSUME Types, RowsInv, Keeps, NEW i \in Invoices
  PROVE  /\ Shut(i) => Shut(i)'
         /\ PartPaid(i) => PartPaid(i)'
         /\ \A a : Asks(a, i) => Asks(a, i)'
<1>1. Shut(i) => Shut(i)'
  BY DEF Shut, Keeps
<1>2. rows[i].inv = i /\ i \in RowIds
  BY DEF RowsInv, RowIsRight, RowIds
<1>3. PartPaid(i) => PartPaid(i)'
  BY <1>2 DEF PartPaid, Keeps, orderOf
<1> QED
  BY <1>1, <1>3 DEF Asks

LEMMA Frame == ASSUME Types, RowsInv, Keeps, NEW w, Sound(w) PROVE Sound(w)'
<1>1. IsSweep(w)'
  BY DEF Sound, IsSweep
<1>2. \A r \in RowIds : rows[r].inv \in Invoices
  BY DEF Types, Rows
<1>3. ASSUME NEW r \in RowIds PROVE KnownIsRight(r, w.known[r])'
  <2>1. KnownIsRight(r, w.known[r])
    BY DEF Sound, Reads
  <2> QED
    BY <2>1 DEF KnownIsRight, Keeps
<1>4. ASSUME NEW c \in w.cands PROVE CandIsRight(c)'
  <2>1. CandIsRight(c) /\ c.row \in RowIds
    BY DEF Sound, Reads, IsSweep
  <2>2. rows'[c.row].status # "absent" /\ rows'[c.row].inv = rows[c.row].inv
    BY <2>1 DEF CandIsRight, Keeps
  <2> QED
    BY <1>2, <2>1, <2>2, Stays DEF CandIsRight
<1>5. Reads(w)'
  <2>1. ASSUME NEW t \in w.todo PROVE sent'[t] # 0
    BY DEF Sound, Reads, IsSweep, Keeps
  <2>2. ASSUME NEW i \in Invoices, rows'[i].status # "PAID" PROVE rows[i].status # "PAID"
    BY <2>2 DEF Keeps, RowIds
  <2> QED
    BY <1>3, <1>4, <2>1, <2>2 DEF Reads, Sound, Offered
<1>6. Settles(w)'
  <2> SUFFICES ASSUME w.pc \in Steps PROVE Settles(w)'
    BY DEF Settles
  <2>1. Settles(w) /\ w.tx \in Transfers /\ w.row \in RowIds /\ rows[w.row].tx = w.tx
    BY DEF Sound, Settles
  <2>2. w.tx # NoTransfer
    BY <2>1, TransfersAssumption DEF NoTransfer
  <2>3. rows[w.row].status # "absent" /\ sent[w.tx] # 0
    BY <2>1, <2>2 DEF RowsInv, RowIsRight
  <2>4. rows'[w.row].tx = w.tx /\ rows'[w.row].inv = rows[w.row].inv /\ sent'[w.tx] = sent[w.tx]
    BY <2>1, <2>2, <2>3 DEF Keeps
  <2> QED
    BY <1>2, <2>1, <2>4, Stays DEF Settles
<1> QED
  BY <1>1, <1>5, <1>6 DEF Sound

\* The turn of a sweep: it goes to w, the others see their rows kept.
LEMMA Turn ==
  ASSUME IInv, Keeps, Core', NEW s \in Sweeps, NEW w,
         sweep' = [sweep EXCEPT ![s] = w], Sound(w)'
  PROVE  IInv' /\ Keeps
<1>1. ASSUME NEW z \in Sweeps PROVE Sound(sweep[z])'
  <2>1. CASE z = s
    <3>1. sweep'[z] = w
      BY <2>1 DEF IInv
    <3> QED
      BY <3>1
  <2>2. CASE z # s
    <3>1. sweep'[z] = sweep[z]
      BY <2>2 DEF IInv
    <3>2. Sound(sweep[z]) /\ Types /\ RowsInv
      BY DEF IInv, Core
    <3> QED
      BY <3>1, <3>2, Frame
  <2> QED
    BY <2>1, <2>2
<1>2. (sweep \in [Sweeps -> {sweep[z] : z \in Sweeps}])'
  BY DEF IInv
<1> QED
  BY <1>1, <1>2 DEF IInv

\* Nobody's turn.
LEMMA Outside == ASSUME IInv, Keeps, Core', sweep' = sweep PROVE IInv' /\ Keeps
<1>1. ASSUME NEW z \in Sweeps PROVE Sound(sweep[z])'
  <2>1. Sound(sweep[z]) /\ Types /\ RowsInv /\ sweep'[z] = sweep[z]
    BY DEF IInv, Core
  <2> QED
    BY <2>1, Frame
<1> QED
  BY <1>1 DEF IInv

-----------------------------------------------------------------------------
(* What a sweep goes to.                                                   *)

LEMMA NoRowIsRow == NoRow \in Rows /\ NoRow.tx = NoTransfer
  BY RowIdsAssumption DEF NoRow, Rows, RowStatuses

LEMMA IdleIsSound == Sound(IdleSweep)
<1>1. IsSweep(IdleSweep)
  BY NoRowIsRow DEF IdleSweep, IsSweep, Labels
<1>2. Reads(IdleSweep) /\ Settles(IdleSweep)
  BY NoRowIsRow DEF IdleSweep, Reads, Settles, KnownIsRight, Steps
<1> QED
  BY <1>1, <1>2 DEF Sound

LEMMA Resting ==
  ASSUME NEW w, Sound(w), w.pc \notin {"idle", "load"}
  PROVE  Sound(Rest(w))
<1>1. CASE w.todo # {}
  BY <1>1 DEF Rest
<1>2. CASE w.todo = {}
  <2> DEFINE v == [w EXCEPT !.known = IdleSweep.known, !.flagged = {}, !.cands = {}, !.closed = {}]
  <2>1. IdleSweep.known = [r \in RowIds |-> NoRow]
    BY DEF IdleSweep
  <2>2. v.pc = w.pc /\ v.todo = {} /\ v.cands = {} /\ v.tx = w.tx /\ v.row = w.row
        /\ v.ask = w.ask /\ v.eff = w.eff /\ v.known = [r \in RowIds |-> NoRow]
    BY <1>2, <2>1 DEF Sound, IsSweep
  <2>3. [r \in RowIds |-> NoRow] \in [RowIds -> Rows]
    BY NoRowIsRow
  <2>4. IsSweep(v)
    BY <2>1, <2>3 DEF Sound, IsSweep
  <2> HIDE DEF v
  <2>5. Reads(v)
    BY <1>2, <2>2, NoRowIsRow DEF Reads, KnownIsRight
  <2>6. Settles(v)
    BY <2>2 DEF Sound, Settles
  <2>7. Rest(w) = v
    BY <1>2 DEF Rest, v
  <2> QED
    BY <2>4, <2>5, <2>6, <2>7 DEF Sound
<1> QED
  BY <1>1, <1>2

\* A sweep that goes on to the transfers that are left.
Onward(w, T) == [w EXCEPT !.pc = "next", !.todo = T, !.tx = NoTransfer,
                          !.row = NoTransfer, !.ask = 0, !.eff = 0]

LEMMA GoingOn ==
  ASSUME NEW w, Sound(w), w.pc \notin {"idle", "load"}, NEW T \in SUBSET w.todo
  PROVE  Sound(Rest(Onward(w, T)))
<1> DEFINE v == Onward(w, T)
<1>1. IsSweep(v) /\ v.pc = "next" /\ v.todo = T /\ v.known = w.known /\ v.cands = w.cands
      /\ v.closed = w.closed
  BY DEF Sound, IsSweep, Onward, Labels
<1> HIDE DEF v
<1>2. Reads(v)
  BY <1>1 DEF Sound, Reads, Offered
<1>3. Settles(v)
  BY <1>1 DEF Settles, Steps
<1>4. Sound(v)
  BY <1>1, <1>2, <1>3 DEF Sound
<1> QED
  BY <1>1, <1>4, Resting DEF v

\* A step of a sweep that changes nothing that lasts.
Core0 == <<sent, status, payer, lapsed, aged, rows, booked, balance>>

LEMMA CoreStays == ASSUME Core, UNCHANGED Core0 PROVE Core'
<1>1. Types' /\ RowsInv' /\ OrdersInv'
  BY DEF Core, Core0, Types, RowsInv, RowIsRight, PartPaid, Asks, Shut, OrdersInv, PaidBy, orderOf
<1>2. BooksInv' /\ CoveredInv'
  BY DEF Core, Core0, BooksInv, EntryIsRight, Spent, Credited, orderOf, CoveredInv, Covers
<1> QED
  BY <1>1, <1>2 DEF Core

LEMMA KeepsAll == ASSUME UNCHANGED <<sent, status, payer, rows>> PROVE Keeps
  BY DEF Keeps

LEMMA Looks ==
  ASSUME IInv, UNCHANGED Core0, NEW s \in Sweeps, NEW w, sweep' = [sweep EXCEPT ![s] = w], Sound(w)
  PROVE  IInv' /\ Keeps
<1>1. Core' /\ Keeps /\ Types /\ RowsInv
  BY CoreStays, KeepsAll DEF IInv, Core, Core0
<1>2. Sound(w)'
  BY <1>1, Frame
<1> QED
  BY <1>1, <1>2, Turn

LEMMA Moves ==
  ASSUME IInv, UNCHANGED Core0, NEW s \in Sweeps, sweep[s].pc \notin {"idle", "load"},
         NEW T \in SUBSET sweep[s].todo, Continue(s, T)
  PROVE  IInv' /\ Keeps
<1> DEFINE v == Rest(Onward(sweep[s], T))
<1>1. sweep' = [sweep EXCEPT ![s] = v]
  BY DEF Continue, Onward, IInv
<1>2. Sound(v)
  BY GoingOn DEF IInv
<1> HIDE DEF v
<1> QED
  BY <1>1, <1>2, Looks

-----------------------------------------------------------------------------
(* The steps of a sweep that read.                                         *)

LEMMA Sweeping == ASSUME IInv, NEW s \in Sweeps PROVE Sound(sweep[s]) /\ IsSweep(sweep[s])
  BY DEF IInv, Sound

LEMMA Loading == ASSUME IInv, NEW s \in Sweeps, LoadCandidates(s) PROVE IInv' /\ Keeps
<1> DEFINE u == sweep[s]
           Listed == {r \in RowIds \ u.aged :
                        rows[r].status \in {"PENDING", "CONFIRMING", "UNDERPAID", "EXPIRED"}}
           C == {toCandidate(s, r) : r \in Listed}
           w == [u EXCEPT !.pc = "next", !.aged = {}, !.cands = C]
<1>1. sweep' = [sweep EXCEPT ![s] = w] /\ UNCHANGED Core0 /\ u.pc = "load"
  BY DEF LoadCandidates, IInv, shop, Core0, At
<1>2. IsSweep(u) /\ Reads(u)
  BY Sweeping DEF Sound
<1>3. Types /\ RowsInv /\ OrdersInv
  BY DEF IInv, Core
<1>4. ASSUME NEW r \in Listed
      PROVE  /\ toCandidate(s, r) \in [row : RowIds, amount : Nat, tx : Transfers \cup {NoTransfer},
                                       status : RowStatuses]
             /\ CandIsRight(toCandidate(s, r)) /\ toCandidate(s, r).row = r
  <2> DEFINE c == toCandidate(s, r)
             i == rows[r].inv
  <2>1. rows[r] \in Rows /\ RowIsRight(r) /\ i \in Invoices /\ r \in RowIds
    BY <1>3 DEF Types, RowsInv, Rows
  <2>2. /\ c.row = r /\ c.amount = rows[r].amount /\ c.tx = rows[r].tx
        /\ c.status \in {rows[r].status, "EXPIRED"}
    BY DEF toCandidate
  <2>3. c \in [row : RowIds, amount : Nat, tx : Transfers \cup {NoTransfer}, status : RowStatuses]
    BY <2>1 DEF toCandidate, Rows, RowStatuses
  <2> HIDE DEF c
  <2>4. rows[r].status = "UNDERPAID" => PartPaid(i)
    BY <2>1 DEF RowIsRight, PartPaid, RowIds
  <2>5. r \in Invoices \/ canTakeTransfer(c) => Asks(c.amount, i)
    <3>1. CASE rows[r].status = "UNDERPAID"
      BY <2>1, <2>2, <3>1 DEF RowIsRight
    <3>2. CASE r \in Invoices /\ rows[r].status # "UNDERPAID"
      BY <2>1, <2>2, <3>2 DEF RowIsRight, Asks, SettledStatuses
    <3>3. CASE r \in Transfers /\ rows[r].status # "UNDERPAID"
      <4>1. rows[r].tx = r /\ r # NoTransfer
        BY <2>1, <3>3, TransfersAssumption DEF RowIsRight, NoTransfer
      <4> QED
        BY <2>1, <2>2, <3>3, <4>1, RowIdsAssumption DEF canTakeTransfer
    <3> QED
      BY <2>1, <3>1, <3>2, <3>3 DEF RowIds
  <2>6. CandIsRight(c)
    BY <2>1, <2>2, <2>4, <2>5 DEF CandIsRight, RowIsRight
  <2> QED
    BY <2>2, <2>3, <2>6 DEF c
<1>5. C \in SUBSET [row : RowIds, amount : Nat, tx : Transfers \cup {NoTransfer}, status : RowStatuses]
  BY <1>4
<1> HIDE DEF C
<1>6. IsSweep(w) /\ w.pc = "next" /\ w.todo = u.todo /\ w.known = u.known /\ w.cands = C
      /\ w.closed = u.closed
  BY <1>2, <1>5 DEF IsSweep, Labels
<1> HIDE DEF w
<1>7. ASSUME NEW i \in Invoices, OrderOf[i] \in Orders \ u.closed, rows[i].status # "PAID"
      PROVE  Offered(w, i)
  <2>1. i \notin u.aged
    BY <1>1, <1>2, <1>7 DEF Reads
  <2>2. i \in Listed
    BY <1>3, <1>7, <2>1 DEF RowsInv, RowIsRight, RowIds, Types, Rows, RowStatuses
  <2>3. toCandidate(s, i) \in C /\ toCandidate(s, i).row = i
    BY <1>4, <2>2 DEF C
  <2> QED
    BY <1>6, <2>3 DEF Offered
<1>8. Reads(w)
  BY <1>2, <1>4, <1>6, <1>7 DEF Reads, C
<1>9. Settles(w)
  BY <1>6 DEF Settles, Steps
<1> QED
  BY <1>1, <1>6, <1>8, <1>9, Looks DEF Sound

LEMMA Skipping ==
  ASSUME IInv, NEW s \in Sweeps,
         \/ \E t \in Transfers : Skip(s, t) \/ flagUnmatched(s, t)
         \/ flagDoublePaid(s) \/ enqueueDelivery(s) \/ TransferFails(s)
  PROVE  IInv' /\ Keeps
<1>1. \E T \in SUBSET sweep[s].todo : Continue(s, T)
  <2>1. sweep[s].todo \in SUBSET sweep[s].todo
        /\ \A t \in Transfers : sweep[s].todo \ {t} \in SUBSET sweep[s].todo
    OBVIOUS
  <2> QED
    BY <2>1 DEF Skip, flagUnmatched, flagDoublePaid, enqueueDelivery, TransferFails, NextTransfer
<1>2. UNCHANGED Core0
  BY DEF Skip, flagUnmatched, flagDoublePaid, enqueueDelivery, TransferFails, shop, Core0
<1>3. sweep[s].pc \notin {"idle", "load"}
  BY DEF Skip, Current, flagUnmatched, Fresh, flagDoublePaid, enqueueDelivery, TransferFails, At
<1> QED
  BY <1>1, <1>2, <1>3, Moves

LEMMA Ending ==
  ASSUME IInv, NEW s \in Sweeps, SweepDies(s) \/ \E old \in SUBSET PaidOrders : Finish(s, old)
  PROVE  IInv' /\ Keeps
<1>1. sweep' = [sweep EXCEPT ![s] = IdleSweep] /\ UNCHANGED Core0
  BY DEF SweepDies, Finish, shop, Core0
<1> QED
  BY <1>1, IdleIsSound, Looks

\* Where settle() sends a row.
LEMMA Routes ==
  ASSUME NEW r, r.inv \in Invoices, NEW closed \in BOOLEAN, NEW ask \in Nat, NEW a \in Nat
  PROVE  LET p == Route(r, closed, ask, a) IN
         /\ p \in {"topup", "late", "paid", "prior"}
         /\ p = "topup" <=> OrderOf[r.inv] = NoOrder
         /\ p # "topup" => OrderOf[r.inv] \in Orders
         /\ p = "paid" => a >= ask
         /\ p = "prior" => a < ask
         /\ p \in {"paid", "prior"} => ~closed
<1>1. OrderOf[r.inv] \in Orders \cup {NoOrder} /\ NoOrder \notin Orders
  BY OrderOfAssumption, NoOrderAssumption
<1>2. CASE OrderOf[r.inv] = NoOrder
  BY <1>1, <1>2 DEF Route
<1>3. CASE OrderOf[r.inv] # NoOrder /\ closed
  BY <1>1, <1>3 DEF Route
<1>4. CASE OrderOf[r.inv] # NoOrder /\ ~closed
  BY <1>1, <1>4 DEF Route
<1> QED
  BY <1>2, <1>3, <1>4

\* The row is read back: its sweep is sent to the settlement it is for.
LEMMA Rereading == ASSUME IInv, NEW s \in Sweeps, Reread(s) PROVE IInv' /\ Keeps
<1> DEFINE u == sweep[s]
           r == rows[u.row]
           p == Route(r, OrderIsClosed(s, OrderOf[r.inv]), u.ask, sent[u.tx])
           w == [u EXCEPT !.pc = p]
<1>1. UNCHANGED Core0 /\ u.pc = "reread"
  BY DEF Reread, At, shop, Core0
<1>2. CASE r.status # "CONFIRMING"
  <2>1. Continue(s, u.todo) /\ u.todo \in SUBSET u.todo
    BY <1>2 DEF Reread, NextTransfer
  <2> QED
    BY <1>1, <2>1, Moves
<1>3. CASE r.status = "CONFIRMING"
  <2>1. sweep' = [sweep EXCEPT ![s] = Rest(w)]
    BY <1>3 DEF Reread, IInv
  <2>2. Sound(u) /\ IsSweep(u) /\ Settles(u) /\ Types
    BY Sweeping DEF Sound, IInv, Core
  <2>3. u.row \in RowIds /\ u.tx \in Transfers /\ r.inv \in Invoices /\ sent[u.tx] \in Nat /\ u.ask \in Nat
    BY <1>1, <2>2 DEF Settles, Steps, Labels, Types, Rows, IsSweep
  <2>4. OrderIsClosed(s, OrderOf[r.inv]) \in BOOLEAN
    BY DEF OrderIsClosed
  <2>5. /\ p \in {"topup", "late", "paid", "prior"}
        /\ p = "topup" => OrderOf[r.inv] = NoOrder
        /\ p # "topup" => OrderOf[r.inv] \in Orders
        /\ p = "paid" => sent[u.tx] >= u.ask
        /\ p = "prior" => sent[u.tx] < u.ask
    BY <2>3, <2>4, Routes
  <2> HIDE DEF p
  <2>6. IsSweep(w) /\ w.pc = p /\ w.todo = u.todo /\ w.known = u.known /\ w.cands = u.cands
        /\ w.closed = u.closed /\ w.tx = u.tx /\ w.row = u.row /\ w.ask = u.ask
    BY <2>2, <2>5 DEF IsSweep, Labels
  <2> HIDE DEF w
  <2>7. Reads(w)
    BY <1>1, <2>2, <2>5, <2>6 DEF Sound, Reads, Offered
  <2>8. Settles(w)
    BY <1>1, <2>2, <2>5, <2>6 DEF Settles, Steps, Labels, OrderSteps, Owing, Short
  <2>9. Sound(Rest(w))
    BY <2>5, <2>6, <2>7, <2>8, Resting DEF Sound
  <2> QED
    BY <1>1, <2>1, <2>9, Looks
<1> QED
  BY <1>2, <1>3

\* A sweep with a label that asks for no more than the one before.
Follows(w, u) ==
  /\ IsSweep(w) /\ w.todo = u.todo /\ w.known = u.known /\ w.cands = u.cands
  /\ w.closed = u.closed /\ w.tx = u.tx /\ w.row = u.row /\ w.ask = u.ask
  /\ \/ w.pc \in {"complete", "under"} /\ u.pc \in {"prior", "complete"}
     \/ w.pc = "late" /\ u.pc \in {"paid", "complete"}

LEMMA Relabel ==
  ASSUME IInv, UNCHANGED Core0, NEW s \in Sweeps, NEW w, Follows(w, sweep[s]),
         sweep' = [sweep EXCEPT ![s] = w]
  PROVE  IInv' /\ Keeps
<1> DEFINE u == sweep[s]
<1>1. Sound(u) /\ IsSweep(u) /\ Reads(u) /\ Settles(u)
  BY Sweeping DEF Sound
<1>2. Reads(w)
  BY <1>1 DEF Follows, Reads, Offered
<1>3. Settles(w)
  BY <1>1 DEF Follows, Settles, Steps, Labels, OrderSteps, Owing, Short
<1> QED
  BY <1>2, <1>3, Looks DEF Sound, Follows

LEMMA Pricing == ASSUME IInv, NEW s \in Sweeps, priorRead(s) PROVE IInv' /\ Keeps
<1> DEFINE x == received(s) + priorUnderpaidCents(theOrder(s)) * CentsToUsdt6
           p == IF x >= sweep[s].ask THEN "complete" ELSE "under"
           w == [sweep[s] EXCEPT !.eff = x, !.pc = p]
<1>1. sweep' = [sweep EXCEPT ![s] = w] /\ sweep[s].pc = "prior" /\ UNCHANGED Core0
  BY DEF priorRead, IInv, At, shop, Core0
<1> HIDE DEF x
<1>2. p \in {"complete", "under"}
  OBVIOUS
<1> HIDE DEF p
<1>3. Follows(w, sweep[s])
  BY <1>1, <1>2, Sweeping DEF IsSweep, Labels, Follows
<1> HIDE DEF w
<1> QED
  BY <1>1, <1>3, Relabel

\* A row bound by a sweep that died: what was asked for it is recovered.
LEMMA Recovers ==
  ASSUME IInv, NEW s \in Sweeps, sweep[s].pc = "next", sweep[s].todo # {},
         NEW r \in RowIds, sweep[s].known[r].tx # NoTransfer, Unsettled(sweep[s].known[r]),
         NEW ask \in expectedFor(s, sweep[s].known[r])
  PROVE  LET i == rows[r].inv IN
         /\ ask \in Nat /\ tag(ask) = tag(Ask[i])
         /\ OrderOf[i] \in Orders \ sweep[s].closed => Asks(ask, i)
<1> DEFINE u == sweep[s]
           k == u.known[r]
           i == rows[r].inv
           same == {c \in u.cands : rows[c.row].inv = k.inv}
           first == {c \in same : c.row \in Invoices}
<1>1. Types /\ RowsInv /\ Sound(u) /\ IsSweep(u) /\ Reads(u)
  BY Sweeping DEF IInv, Core, Sound
<1>2. k \in Rows /\ k.inv = i /\ i \in Invoices /\ tag(k.amount) = tag(Ask[i])
      /\ rows[r].tx = k.tx /\ rows[r].status # "absent" /\ (r \in Invoices => k.amount = Ask[r])
  BY <1>1 DEF IsSweep, Reads, KnownIsRight, Types, Rows, Unsettled
<1>3. CASE ask = k.amount /\ (OrderOf[i] = NoOrder \/ same = {})
  <2>1. ask \in Nat /\ tag(ask) = tag(Ask[i])
    BY <1>2, <1>3 DEF Rows
  <2>2. ASSUME OrderOf[i] \in Orders \ u.closed PROVE Asks(ask, i)
    <3>1. same = {}
      BY <1>3, <2>2, NoOrderAssumption
    <3>2. ~Offered(u, i)
      <4>1. i \in RowIds /\ rows[i].inv = i
        BY <1>1, <1>2 DEF RowsInv, RowIsRight, RowIds
      <4> QED
        BY <1>2, <3>1, <4>1 DEF Offered
    <3>3. rows[i].status = "PAID"
      BY <1>1, <1>2, <2>2, <3>2 DEF Reads
    <3>4. CASE r \in Invoices
      BY <1>1, <1>2, <1>3, <3>4 DEF RowsInv, RowIsRight, Asks
    <3>5. CASE r \in Transfers
      <4>1. PartPaid(i)
        BY <1>1, <1>2, <3>5 DEF RowsInv, RowIsRight
      <4> QED
        BY <3>3, <4>1, SoldIsPaid DEF PartPaid, Asks, Shut, IInv
    <3> QED
      BY <3>4, <3>5 DEF RowIds
  <2> QED
    BY <2>1, <2>2
<1>4. ASSUME NEW c \in same, ask = c.amount, first # {} => c \in first
      PROVE  ask \in Nat /\ tag(ask) = tag(Ask[i]) /\ (OrderOf[i] \in Orders \ u.closed => Asks(ask, i))
  <2>1. CandIsRight(c) /\ c.row \in RowIds /\ c.amount \in Nat /\ rows[c.row].inv = i
    BY <1>1, <1>2, <1>4 DEF Reads, IsSweep
  <2>2. ASSUME OrderOf[i] \in Orders \ u.closed PROVE Asks(ask, i)
    <3>1. CASE c.row \in Invoices
      BY <1>4, <2>1, <3>1 DEF CandIsRight
    <3>2. CASE c.row \in Transfers /\ c.row \notin Invoices
      <4>1. ~Offered(u, i)
        <5>1. i \in RowIds /\ rows[i].inv = i
          BY <1>1, <1>2 DEF RowsInv, RowIsRight, RowIds
        <5> QED
          BY <1>2, <1>4, <3>2, <5>1 DEF Offered
      <4>2. rows[i].status = "PAID"
        BY <1>1, <1>2, <2>2, <4>1 DEF Reads
      <4>3. PartPaid(i)
        BY <1>1, <2>1, <3>2 DEF RowsInv, RowIsRight, CandIsRight
      <4> QED
        BY <4>2, <4>3, SoldIsPaid DEF PartPaid, Asks, Shut, IInv
    <3> QED
      BY <2>1, <3>1, <3>2 DEF RowIds
  <2> QED
    BY <1>4, <2>1, <2>2 DEF CandIsRight
<1>5. CASE OrderOf[k.inv] = NoOrder \/ same = {}
  <2>1. ask = k.amount
    BY <1>5 DEF expectedFor
  <2> QED
    BY <1>2, <1>3, <1>5, <2>1
<1>6. CASE OrderOf[k.inv] # NoOrder /\ same # {}
  <2>1. \E c \in same : ask = c.amount /\ (first # {} => c \in first)
    BY <1>6 DEF expectedFor
  <2> QED
    BY <1>4, <2>1
<1> QED
  BY <1>5, <1>6

LEMMA Resuming == ASSUME IInv, NEW s \in Sweeps, NEW t \in Transfers, Resume(s, t) PROVE IInv' /\ Keeps
<1> DEFINE u == sweep[s]
<1>1. UNCHANGED Core0 /\ u.pc = "next" /\ t \in u.todo /\ u.todo # {}
  BY DEF Resume, Current, At, shop, Core0
<1>2. PICK r \in Known(s, t) :
        /\ Unsettled(u.known[r])
        /\ \E ask \in expectedFor(s, u.known[r]) :
             sweep' = [sweep EXCEPT ![s] = Rest([u EXCEPT !.todo = u.todo \ {t}, !.tx = t, !.row = r,
                         !.ask = ask, !.pc = Route(u.known[r], OrderOf[u.known[r].inv] \in u.closed,
                                                   ask, sent[t])])]
  BY DEF Resume
<1> DEFINE k == u.known[r]
           i == rows[r].inv
           closed == OrderOf[k.inv] \in u.closed
<1>3. PICK ask \in expectedFor(s, k) :
        sweep' = [sweep EXCEPT ![s] = Rest([u EXCEPT !.todo = u.todo \ {t}, !.tx = t, !.row = r,
                    !.ask = ask, !.pc = Route(k, closed, ask, sent[t])])]
  BY <1>2
<1> DEFINE p == Route(k, closed, ask, sent[t])
           T == u.todo \ {t}
           w == [u EXCEPT !.todo = T, !.tx = t, !.row = r, !.ask = ask, !.pc = p]
<1>4. sweep' = [sweep EXCEPT ![s] = Rest(w)]
  BY <1>3
<1>5. Sound(u) /\ IsSweep(u) /\ Reads(u) /\ Types /\ RowsInv
  BY Sweeping DEF Sound, IInv, Core
<1>6. r \in RowIds /\ k.tx = t /\ t # NoTransfer
  BY <1>2, TransfersAssumption DEF Known, NoTransfer
<1>7. k.inv = i /\ rows[r].tx = t /\ i \in Invoices /\ sent[t] \in Nat
  BY <1>5, <1>6 DEF Reads, KnownIsRight, Types, Rows
<1>8. /\ ask \in Nat /\ tag(ask) = tag(Ask[i])
      /\ OrderOf[i] \in Orders \ u.closed => Asks(ask, i)
  BY <1>1, <1>2, <1>3, <1>6, Recovers
<1>9. /\ p \in {"topup", "late", "paid", "prior"}
      /\ p = "topup" => OrderOf[i] = NoOrder
      /\ p # "topup" => OrderOf[i] \in Orders
      /\ p = "paid" => sent[t] >= ask
      /\ p = "prior" => sent[t] < ask
      /\ p \in {"paid", "prior"} => ~closed
  <2>1. closed \in BOOLEAN /\ k.inv \in Invoices /\ ask \in Nat /\ sent[t] \in Nat
    BY <1>7, <1>8
  <2> HIDE DEF closed
  <2> QED
    BY <1>7, <2>1, Routes
<1> HIDE DEF p
<1>10. p \in {"paid", "prior"} => Asks(ask, i)
  BY <1>7, <1>8, <1>9
<1>11. IsSweep(w) /\ w.pc = p /\ w.todo = T /\ w.known = u.known /\ w.cands = u.cands
       /\ w.closed = u.closed /\ w.tx = t /\ w.row = r /\ w.ask = ask
  BY <1>5, <1>6, <1>8, <1>9 DEF IsSweep, Labels
<1> HIDE DEF w
<1>12. Reads(w)
  BY <1>1, <1>5, <1>9, <1>11 DEF Reads, Offered
<1>13. Settles(w)
  BY <1>6, <1>7, <1>8, <1>9, <1>10, <1>11 DEF Settles, Steps, Labels, OrderSteps, Owing, Short
<1>14. Sound(Rest(w))
  BY <1>9, <1>11, <1>12, <1>13, Resting DEF Sound
<1> QED
  BY <1>1, <1>4, <1>14, Looks

-----------------------------------------------------------------------------
(* The customer, the clock and the other rails.                            *)

\* A row that does not change stays right.
LEMMA RowStays ==
  ASSUME Types, RowsInv, Keeps, NEW r \in RowIds, rows'[r] = rows[r]
  PROVE  RowIsRight(r)'
<1>1. RowIsRight(r) /\ rows[r].inv \in Invoices /\ rows[r].tx \in Transfers \cup {NoTransfer}
  BY DEF Types, RowsInv, Rows
<1>2. rows[r].tx # NoTransfer => sent'[rows[r].tx] = sent[rows[r].tx]
  BY <1>1 DEF RowIsRight, Keeps
<1>3. /\ PartPaid(rows[r].inv) => PartPaid(rows[r].inv)'
      /\ \A a : Asks(a, rows[r].inv) => Asks(a, rows[r].inv)'
  BY <1>1, Stays
<1> QED
  BY <1>1, <1>2, <1>3 DEF RowIsRight

\* A settled row holds a transfer that is in the wallet.
LEMMA SettledHasTransfer ==
  ASSUME Types, RowsInv, NEW r \in RowIds, rows[r].status \in BoundStatuses
  PROVE  /\ rows[r].tx \in Transfers /\ rows[r].tx # NoTransfer /\ sent[rows[r].tx] # 0
         /\ sent[rows[r].tx] \in Nat /\ rows[r].inv \in Invoices /\ rows[r].status # "absent"
  BY DEF Types, RowsInv, RowIsRight, Rows, BoundStatuses, SettledStatuses

\* Books and rows stand when no transfer buys anything.
LEMMA Elsewhere ==
  ASSUME Core, Keeps, Types', UNCHANGED <<rows, booked>>,
         \A o \in Orders : payer'[o] = payer[o] \/ (payer[o] \notin Transfers /\ payer'[o] \notin Transfers),
         \A o \in Orders : payer'[o] # NoTransfer <=> status'[o] = "PAID",
         \A i \in aged' \cap Invoices : OrderOf[i] \in Orders => OrderOf[i] \in lapsed'
  PROVE  Core'
<1> USE DEF Core
<1>1. RowsInv'
  BY RowStays DEF RowsInv
<1>2. OrdersInv'
  BY DEF OrdersInv, PaidBy, orderOf
<1>3. ASSUME NEW e \in booked
      PROVE  /\ e.row \in RowIds /\ rows[e.row].status \in SettledStatuses /\ rows[e.row].tx \in Transfers
             /\ sent'[rows[e.row].tx] = sent[rows[e.row].tx]
  <2>1. e.row \in RowIds /\ rows[e.row].status \in SettledStatuses
    BY <1>3 DEF BooksInv, EntryIsRight, Types, Entries
  <2> QED
    BY <2>1, SettledHasTransfer DEF Keeps, BoundStatuses
<1>4. \A t \in Transfers : Spent(t)' <=> Spent(t)
  BY DEF Spent
<1>5. ASSUME NEW e \in booked PROVE EntryIsRight(e)'
  <2>1. EntryIsRight(e)
    BY DEF BooksInv
  <2>2. e.key = "reclaim" => payer'[orderOf(e.row)] = payer[orderOf(e.row)]
    BY <1>3, <2>1 DEF EntryIsRight
  <2> QED
    BY <1>3, <1>4, <2>1, <2>2 DEF EntryIsRight, orderOf
<1>6. BooksInv'
  <2>1. ASSUME NEW r \in RowIds, rows[r].status \in SettledStatuses
        PROVE  rows[r].tx \in Transfers /\ sent'[rows[r].tx] = sent[rows[r].tx]
    BY <2>1, SettledHasTransfer DEF Keeps, BoundStatuses
  <2> QED
    BY <1>4, <1>5, <2>1 DEF BooksInv, Credited
<1>7. CoveredInv'
  <2>1. ASSUME NEW o \in Orders, payer'[o] \in Transfers
        PROVE  payer[o] = payer'[o] /\ sent'[payer[o]] = sent[payer[o]]
    <3>1. payer[o] = payer'[o]
      BY <2>1
    <3>2. PICK r \in RowIds : PaidBy(o, r)
      BY <2>1, <3>1 DEF OrdersInv
    <3> QED
      BY <3>1, <3>2, SettledHasTransfer DEF PaidBy, Keeps, BoundStatuses, SettledStatuses
  <2> QED
    BY <2>1 DEF CoveredInv, Covers, orderOf
<1> QED
  BY <1>1, <1>2, <1>6, <1>7

LEMMA Sending == ASSUME IInv, NEW t \in Transfers, Send(t) PROVE IInv' /\ Keeps
<1>1. PICK a \in Amounts : sent' = [sent EXCEPT ![t] = a]
  BY DEF Send
<1>2. UNCHANGED <<status, payer, lapsed, aged, rows, booked, balance, sweep>> /\ sent[t] = 0
  BY DEF Send, shop
<1>3. Keeps
  BY <1>1, <1>2 DEF Keeps, IInv, Core, Types
<1>4. Types'
  BY <1>1, <1>2, AmountsAssumption DEF IInv, Core, Types
<1>5. Core'
  <2>1. Core /\ OrdersInv
    BY DEF IInv, Core
  <2> QED
    BY <1>2, <1>3, <1>4, <2>1, Elsewhere DEF OrdersInv
<1> QED
  BY <1>2, <1>3, <1>5, Outside

LEMMA Paying == ASSUME IInv, NEW o \in Orders, PayFromBalance(o) PROVE IInv' /\ Keeps
<1>1. PICK i \in Invoices : balance >= Cents(Ask[i]) /\ balance' = balance - Cents(Ask[i])
  BY DEF PayFromBalance
<1>2. /\ status[o] = "PENDING" /\ status' = [status EXCEPT ![o] = "PAID"]
      /\ payer' = [payer EXCEPT ![o] = FromBalance]
      /\ UNCHANGED <<sent, lapsed, aged, rows, booked, sweep>>
  BY DEF PayFromBalance
<1>3. Types /\ OrdersInv /\ Core
  BY DEF IInv, Core
<1>4. Cents(Ask[i]) \in Nat
  BY AskAssumption, CentsIsNat
<1>5. Types'
  BY <1>1, <1>2, <1>3, <1>4 DEF Types
<1>6. Keeps
  BY <1>2, <1>3, SoldIsPaid DEF Keeps, Types, Rows
<1>7. payer[o] = NoTransfer
  BY <1>2, <1>3 DEF OrdersInv
<1>8. NoTransfer \notin Transfers /\ FromBalance \notin Transfers /\ FromBalance # NoTransfer
  BY TransferIsNumber DEF FromBalance, NoTransfer
<1>9. \A p \in Orders \ {o} : payer'[p] = payer[p] /\ status'[p] = status[p]
  BY <1>2, <1>3 DEF Types
<1>10. payer'[o] = FromBalance /\ status'[o] = "PAID"
  BY <1>2, <1>3 DEF Types
<1>11. Core'
  <2>1. \A p \in Orders : payer'[p] = payer[p] \/ (payer[p] \notin Transfers /\ payer'[p] \notin Transfers)
    BY <1>7, <1>8, <1>9, <1>10
  <2>2. \A p \in Orders : payer'[p] # NoTransfer <=> status'[p] = "PAID"
    BY <1>3, <1>8, <1>9, <1>10 DEF OrdersInv
  <2>3. \A j \in aged' \cap Invoices : OrderOf[j] \in Orders => OrderOf[j] \in lapsed'
    BY <1>2, <1>3 DEF OrdersInv
  <2> QED
    BY <1>2, <1>3, <1>5, <1>6, <2>1, <2>2, <2>3, Elsewhere
<1> QED
  BY <1>2, <1>6, <1>11, Outside

LEMMA Spending == ASSUME IInv, SpendElsewhere PROVE IInv' /\ Keeps
<1>1. /\ balance > 0 /\ balance' = balance - 1
      /\ UNCHANGED <<sent, status, payer, lapsed, aged, rows, booked, sweep>>
  BY DEF SpendElsewhere
<1>2. Core /\ OrdersInv /\ Types
  BY DEF IInv, Core
<1>3. Keeps /\ Types'
  BY <1>1, <1>2 DEF Keeps, Types
<1>4. Core'
  BY <1>1, <1>2, <1>3, Elsewhere DEF OrdersInv
<1> QED
  BY <1>1, <1>3, <1>4, Outside

LEMMA Passing ==
  ASSUME IInv, (\E o \in Orders : Lapse(o) \/ Expire(o)) \/ (\E r \in RowIds : Age(r))
  PROVE  IInv' /\ Keeps
<1>1. Core /\ OrdersInv /\ Types /\ RowsInv
  BY DEF IInv, Core
<1>2. UNCHANGED <<sent, payer, rows, booked, balance, sweep>>
  BY DEF Lapse, Expire, Age
<1>3. /\ status' \in [Orders -> {"PENDING", "PAID", "EXPIRED"}]
      /\ \A o \in Orders : status[o] # "PENDING" => status'[o] = status[o]
      /\ \A o \in Orders : status'[o] = "PAID" <=> status[o] = "PAID"
  BY <1>1 DEF Lapse, Expire, Age, Types
<1>4. /\ lapsed' \subseteq Orders /\ aged' \subseteq RowIds
      /\ \A i \in aged' \cap Invoices : OrderOf[i] \in Orders => OrderOf[i] \in lapsed'
  <2>1. CASE \E o \in Orders : Lapse(o) \/ Expire(o)
    BY <1>1, <2>1 DEF Lapse, Expire, Types, OrdersInv
  <2>2. ASSUME NEW r \in RowIds, Age(r)
        PROVE  aged' = aged \cup {r} /\ lapsed' = lapsed
               /\ (r \in Invoices => rows[r].inv = r /\ (OrderOf[r] \in Orders => OrderOf[r] \in lapsed))
    BY <1>1, <2>2 DEF Age, orderOf, RowsInv, RowIsRight
  <2>3. CASE \E r \in RowIds : Age(r)
    BY <1>1, <2>2, <2>3 DEF Types, OrdersInv
  <2> QED
    BY <2>1, <2>3
<1>5. Keeps /\ Types'
  BY <1>1, <1>2, <1>3, <1>4 DEF Keeps, Types
<1>6. Core'
  BY <1>1, <1>2, <1>3, <1>4, <1>5, Elsewhere DEF OrdersInv
<1> QED
  BY <1>2, <1>5, <1>6, Outside

-----------------------------------------------------------------------------
(* The steps of a sweep that write rows but move no money.                 *)

\* Orders and books stand while settled rows do.
LEMMA MoneyStays ==
  ASSUME Core, Types', RowsInv', UNCHANGED <<sent, status, payer, lapsed, aged, booked, balance>>,
         \A r \in RowIds : rows[r].status \in SettledStatuses => rows'[r] = rows[r],
         \A r \in RowIds : rows'[r].status \in SettledStatuses => rows[r].status \in SettledStatuses
  PROVE  Core'
<1> USE DEF Core
<1>1. OrdersInv'
  <2>1. ASSUME NEW o \in Orders, payer'[o] \in Transfers PROVE \E r \in RowIds : PaidBy(o, r)'
    <3>1. PICK r \in RowIds : PaidBy(o, r)
      BY <2>1 DEF OrdersInv
    <3>2. rows'[r] = rows[r]
      BY <3>1 DEF PaidBy, SettledStatuses
    <3> QED
      BY <3>1, <3>2 DEF PaidBy, orderOf
  <2> QED
    BY <2>1 DEF OrdersInv
<1>2. ASSUME NEW e \in booked PROVE e.row \in RowIds /\ rows'[e.row] = rows[e.row] /\ EntryIsRight(e)'
  <2>1. EntryIsRight(e) /\ e.row \in RowIds
    BY DEF BooksInv, Types, Entries
  <2>2. rows'[e.row] = rows[e.row]
    BY <2>1 DEF EntryIsRight
  <2> QED
    BY <2>1, <2>2 DEF EntryIsRight, Spent, orderOf
<1>3. BooksInv'
  BY <1>2 DEF BooksInv, Spent, Credited
<1>4. CoveredInv'
  BY <1>2 DEF CoveredInv, Covers, orderOf
<1> QED
  BY <1>1, <1>3, <1>4

LEMMA Beginning == ASSUME IInv, NEW s \in Sweeps, Begin(s) PROVE IInv' /\ Keeps
<1> DEFINE stale(r) == r \in aged /\ rows[r].status = "PENDING" /\ rows[r].tx = NoTransfer
           now == [r \in RowIds |-> IF stale(r) THEN [rows[r] EXCEPT !.status = "EXPIRED"] ELSE rows[r]]
           seen == [r \in RowIds |-> IF now[r].tx # NoTransfer THEN now[r] ELSE NoRow]
           todo == {t \in Transfers : sent[t] # 0}
           closed == lapsed \cup {o \in Orders : status[o] # "PENDING"}
<1>1. Core /\ Types /\ RowsInv /\ OrdersInv
  BY DEF IInv, Core
<1>2. ASSUME NEW r \in RowIds
      PROVE  /\ now[r] \in Rows /\ now[r].tx = rows[r].tx /\ now[r].inv = rows[r].inv
             /\ now[r].amount = rows[r].amount
             /\ now[r] = rows[r] \/ (rows[r].status = "PENDING" /\ now[r].status = "EXPIRED")
  BY <1>1 DEF Types, Rows, RowStatuses
<1>3. rows' = now /\ UNCHANGED <<sent, status, payer, lapsed, aged, booked, balance>>
  BY DEF Begin
<1> HIDE DEF now
<1>4. Keeps
  BY <1>2, <1>3 DEF Keeps, orderOf
<1>5. Types'
  <2>1. now \in [RowIds -> Rows]
    BY <1>2 DEF now
  <2> QED
    BY <1>1, <1>3, <2>1 DEF Types
<1>6. RowsInv'
  <2>1. ASSUME NEW r \in RowIds PROVE RowIsRight(r)'
    <3>1. CASE now[r] = rows[r]
      BY <1>1, <1>3, <1>4, <3>1, RowStays
    <3>2. CASE rows[r].status = "PENDING" /\ now[r].status = "EXPIRED"
      <4>1. RowIsRight(r)
        BY <1>1 DEF RowsInv
      <4>2. rows[r].inv \in Invoices /\ (PartPaid(rows[r].inv) => PartPaid(rows[r].inv)')
        <5>1. rows[r].inv \in Invoices
          BY <1>1 DEF Types, Rows
        <5>2. rows'[r].inv = rows[r].inv
          BY <1>2, <1>3
        <5> QED
          BY <1>1, <1>4, <5>1, <5>2, Stays
      <4> QED
        BY <1>2, <1>3, <3>2, <4>1, <4>2 DEF RowIsRight, BoundStatuses, SettledStatuses
    <3> QED
      BY <1>2, <3>1, <3>2
  <2> QED
    BY <1>1, <1>2, <1>3, <2>1 DEF RowsInv
<1>7. Core'
  <2>1. \A r \in RowIds : rows[r].status \in SettledStatuses \/ rows'[r].status \in SettledStatuses
                            => rows'[r] = rows[r]
    BY <1>2, <1>3 DEF SettledStatuses
  <2> QED
    BY <1>1, <1>3, <1>5, <1>6, <2>1, MoneyStays
<1>8. PICK w : /\ w = [IdleSweep EXCEPT !.pc = "load", !.todo = todo, !.known = seen,
                                   !.flagged = {f.tx : f \in flags}, !.closed = closed, !.aged = aged]
               /\ sweep' = [sweep EXCEPT ![s] = w]
  BY DEF Begin, now
<1>9. Sound(w)'
  <2>1. seen \in [RowIds -> Rows] /\ closed \in SUBSET Orders /\ todo \in SUBSET Transfers
    BY <1>1, <1>2, NoRowIsRow DEF Types
  <2>2. IsSweep(w) /\ w.pc = "load" /\ w.todo = todo /\ w.known = seen /\ w.cands = {}
        /\ w.closed = closed /\ w.aged = aged
    BY <1>1, <1>8, <2>1, IdleIsSound DEF IdleSweep, Sound, IsSweep, Labels, Types
  <2>3. ASSUME NEW r \in RowIds PROVE KnownIsRight(r, w.known[r])'
    <3>1. CASE rows[r].tx = NoTransfer
      BY <1>2, <2>2, <3>1, NoRowIsRow DEF KnownIsRight
    <3>2. CASE rows[r].tx # NoTransfer
      <4>1. w.known[r] = rows'[r] /\ RowIsRight(r)'
        BY <1>2, <1>3, <1>6, <2>2, <3>2 DEF RowsInv
      <4> QED
        BY <3>2, <1>2, <1>3, <4>1 DEF KnownIsRight, RowIsRight, SettledStatuses
    <3> QED
      BY <3>1, <3>2
  <2>4. Reads(w)'
    BY <1>1, <1>3, <2>2, <2>3 DEF Reads, OrdersInv
  <2>5. Settles(w)'
    BY <2>2 DEF Settles, Steps
  <2>6. IsSweep(w)'
    BY <2>2 DEF IsSweep
  <2> QED
    BY <2>4, <2>5, <2>6 DEF Sound
<1> QED
  BY <1>4, <1>7, <1>8, <1>9, Turn

\* A transfer taken for a candidate: its row is read back next.
LEMMA Taking ==
  ASSUME IInv, Keeps, Core', NEW s \in Sweeps, sweep[s].pc = "next",
         NEW t \in sweep[s].todo, NEW c \in sweep[s].cands, canTakeTransfer(c),
         NEW r \in RowIds, Take(s, t, c, r, "reread"),
         rows'[r].tx = t, rows'[r].inv = rows[c.row].inv
  PROVE  IInv' /\ Keeps
<1> PICK u : u = sweep[s]
  OBVIOUS
<1> DEFINE i == rows[c.row].inv
           d == [c EXCEPT !.tx = t]
           C == (u.cands \ {c}) \cup {d}
<1>1. Sound(u) /\ IsSweep(u) /\ Reads(u) /\ Types /\ RowsInv /\ u.pc = "next" /\ t \in u.todo /\ c \in u.cands
  BY Sweeping DEF Sound, IInv, Core
<1>2. PICK w : w = [u EXCEPT !.todo = @ \ {t}, !.tx = t, !.row = r, !.ask = c.amount,
                             !.pc = "reread", !.cands = (@ \ {c}) \cup {[c EXCEPT !.tx = t]}]
  OBVIOUS
<1>3. sweep' = [sweep EXCEPT ![s] = w]
  BY <1>1, <1>2 DEF Take, IInv, IsSweep
<1>4. t \in Transfers /\ CandIsRight(c) /\ i \in Invoices /\ c.row \in RowIds /\ c.amount \in Nat
      /\ c \in [row : RowIds, amount : Nat, tx : Transfers \cup {NoTransfer}, status : RowStatuses]
  BY <1>1 DEF IsSweep, Reads, Types, Rows
<1>5. d \in [row : RowIds, amount : Nat, tx : Transfers \cup {NoTransfer}, status : RowStatuses]
      /\ d.row = c.row /\ d.amount = c.amount /\ d.status = c.status /\ d.tx = t
  BY <1>4
<1>6. C \in SUBSET [row : RowIds, amount : Nat, tx : Transfers \cup {NoTransfer}, status : RowStatuses]
  <2> HIDE DEF d
  <2> QED
    BY <1>1, <1>5 DEF IsSweep
<1>7. /\ w.todo = u.todo \ {t} /\ w.tx = t /\ w.row = r /\ w.ask = c.amount /\ w.pc = "reread"
      /\ w.cands = C /\ w.known = u.known /\ w.closed = u.closed
  BY <1>1, <1>2 DEF IsSweep
<1>8. IsSweep(w)
  <2> HIDE DEF C
  <2>1. w = [u EXCEPT !.todo = u.todo \ {t}, !.tx = t, !.row = r, !.ask = c.amount,
                      !.pc = "reread", !.cands = C]
    BY <1>2 DEF C
  <2> QED
    BY <1>1, <1>4, <1>6, <2>1 DEF IsSweep, Labels
<1>9. Sound(u)' /\ Reads(u)'
  BY <1>1, Frame DEF Sound
<1>10. /\ rows'[c.row].inv = i /\ rows'[c.row].status # "absent" /\ CandIsRight(c)'
       /\ t # NoTransfer
  BY <1>1, <1>4, <1>9, TransferIsNumber DEF CandIsRight, Keeps, Reads
<1>11. CandIsRight(d)'
  <2> HIDE DEF d
  <2> QED
    BY <1>5, <1>10 DEF CandIsRight, canTakeTransfer
<1>12. Reads(w)'
  <2>1. ASSUME NEW j \in Invoices, Offered(u, j) PROVE Offered(w, j)
    <3> HIDE DEF d
    <3> QED
      BY <1>5, <1>7, <2>1 DEF Offered
  <2>2. \A e \in w.cands : CandIsRight(e)'
    BY <1>7, <1>9, <1>11 DEF Reads
  <2> QED
    BY <1>1, <1>7, <1>9, <2>1, <2>2 DEF Reads, Offered
<1>13. Settles(w)'
  BY <1>4, <1>7, <1>9, <1>10 DEF Settles, Steps, Labels, OrderSteps, Owing, Short, CandIsRight
<1>14. Sound(w)'
  BY <1>8, <1>12, <1>13 DEF Sound, IsSweep
<1> QED
  BY <1>3, <1>14, Turn

LEMMA FreshMatch ==
  ASSUME IInv, NEW s \in Sweeps, NEW t \in Transfers, Fresh(s, t),
         NEW c \in matchTransfer(sweep[s].cands, sent[t])
  PROVE  /\ sweep[s].pc = "next" /\ t \in sweep[s].todo /\ sent[t] # 0 /\ sent[t] \in Nat
         /\ c \in sweep[s].cands /\ canTakeTransfer(c) /\ tag(c.amount) = tag(sent[t])
         /\ CandIsRight(c) /\ c.row \in RowIds /\ rows[c.row].inv \in Invoices
         /\ tag(sent[t]) = tag(Ask[rows[c.row].inv])
<1>1. IsSweep(sweep[s]) /\ Reads(sweep[s]) /\ Types
  BY Sweeping DEF Sound, IInv, Core
<1>2. sweep[s].pc = "next" /\ t \in sweep[s].todo
  BY DEF Fresh, Current, At
<1>3. c \in sweep[s].cands /\ canTakeTransfer(c) /\ tag(c.amount) = tag(sent[t])
  BY MatchIsRight
<1> QED
  BY <1>1, <1>2, <1>3 DEF IsSweep, Reads, Types, Rows, CandIsRight

LEMMA Binding == ASSUME IInv, NEW s \in Sweeps, NEW t \in Transfers, Bind(s, t) PROVE IInv' /\ Keeps
<1>1. PICK c \in matchTransfer(sweep[s].cands, sent[t]) :
        /\ c.tx = NoTransfer
        /\ IF Free(c, t)
           THEN /\ rows' = [rows EXCEPT ![c.row].tx = t, ![c.row].status = "CONFIRMING"]
                /\ Take(s, t, c, c.row, "reread")
           ELSE /\ Continue(s, sweep[s].todo \ {t})
                /\ UNCHANGED rows
  BY DEF Bind
<1>2. Fresh(s, t) /\ UNCHANGED <<sent, status, payer, lapsed, aged, booked, balance>>
  BY DEF Bind
<1>3. /\ sweep[s].pc = "next" /\ t \in sweep[s].todo /\ sent[t] # 0 /\ sent[t] \in Nat
      /\ c \in sweep[s].cands /\ canTakeTransfer(c) /\ tag(c.amount) = tag(sent[t])
      /\ CandIsRight(c) /\ c.row \in RowIds /\ tag(sent[t]) = tag(Ask[rows[c.row].inv])
  BY <1>1, <1>2, FreshMatch
<1>4. CASE ~Free(c, t)
  <2>1. sweep[s].todo \ {t} \in SUBSET sweep[s].todo
    OBVIOUS
  <2> QED
    BY <1>1, <1>2, <1>3, <1>4, <2>1, Moves DEF Core0
<1>5. CASE Free(c, t)
  <2> DEFINE R == c.row
  <2>1. Core /\ Types /\ RowsInv /\ RowIsRight(R) /\ rows[R] \in Rows
    BY <1>3 DEF IInv, Core, RowsInv, Types
  <2>2. /\ rows[R].tx = NoTransfer /\ \A r \in RowIds : rows[r].tx # t
        /\ rows' = [rows EXCEPT ![R].tx = t, ![R].status = "CONFIRMING"]
        /\ Take(s, t, c, R, "reread")
    BY <1>1, <1>5 DEF Free
  <2>3. /\ rows[R].status \in {"PENDING", "EXPIRED"} /\ R \in Invoices /\ rows[R].inv = R
        /\ rows[R].amount = Ask[R]
    BY <1>3, <2>1, <2>2, TransferIsNumber
    DEF RowIsRight, CandIsRight, Rows, RowStatuses, BoundStatuses, SettledStatuses, RowIds
  <2>4. /\ \A r \in RowIds \ {R} : rows'[r] = rows[r]
        /\ rows'[R] = [rows[R] EXCEPT !.tx = t, !.status = "CONFIRMING"]
    BY <1>3, <2>1, <2>2 DEF Types
  <2>5. /\ rows'[R] \in Rows /\ rows'[R].tx = t /\ rows'[R].status = "CONFIRMING" /\ rows'[R].inv = R
        /\ rows'[R].amount = Ask[R]
    BY <2>1, <2>3, <2>4 DEF Rows, RowStatuses
  <2>6. Keeps
    BY <1>2, <2>2, <2>3, <2>4, <2>5 DEF Keeps
  <2>7. Types'
    <3>1. rows' \in [RowIds -> Rows]
      BY <2>1, <2>2, <2>4, <2>5 DEF Types
    <3> QED
      BY <1>2, <2>1, <3>1 DEF Types
  <2>8. RowsInv'
    <3>1. RowIsRight(R)'
      BY <1>2, <1>3, <2>3, <2>5, TransferIsNumber, RowIdsAssumption
      DEF RowIsRight, BoundStatuses, SettledStatuses
    <3>2. ASSUME NEW r \in RowIds \ {R} PROVE RowIsRight(r)'
      BY <2>1, <2>4, <2>6, RowStays
    <3>3. ASSUME NEW q \in RowIds, NEW r \in RowIds, rows'[q].tx = rows'[r].tx, q # r
          PROVE  rows'[q].tx = NoTransfer
      <4>1. CASE q # R /\ r # R
        BY <2>1, <2>4, <3>3, <4>1 DEF RowsInv
      <4>2. CASE q = R \/ r = R
        BY <2>2, <2>4, <2>5, <3>3, <4>2
      <4> QED
        BY <4>1, <4>2
    <3> QED
      BY <3>1, <3>2, <3>3 DEF RowsInv
  <2>9. Core'
    <3>1. \A r \in RowIds : rows[r].status \in SettledStatuses \/ rows'[r].status \in SettledStatuses
                              => rows'[r] = rows[r]
      BY <2>3, <2>4, <2>5 DEF SettledStatuses
    <3> QED
      BY <1>2, <2>1, <2>7, <2>8, <3>1, MoneyStays
  <2> QED
    BY <1>3, <2>2, <2>3, <2>5, <2>6, <2>9, Taking
<1> QED
  BY <1>4, <1>5

LEMMA BindingAnother ==
  ASSUME IInv, NEW s \in Sweeps, NEW t \in Transfers, BindAnother(s, t) PROVE IInv' /\ Keeps
<1> DEFINE bound == {r \in RowIds : rows[r].tx = t}
<1>1. PICK c \in matchTransfer(sweep[s].cands, sent[t]) :
        /\ c.tx # NoTransfer
        /\ IF bound = {}
           THEN /\ rows' = [rows EXCEPT ![t] = [status |-> "CONFIRMING", tx |-> t,
                              amount |-> sent[t], inv |-> rows[c.row].inv]]
                /\ Take(s, t, c, t, "reread")
           ELSE \E r \in bound : Take(s, t, c, r, "reread") /\ UNCHANGED rows
  BY DEF BindAnother
<1>2. Fresh(s, t) /\ UNCHANGED <<sent, status, payer, lapsed, aged, booked, balance>>
  BY DEF BindAnother
<1> PICK i : i = rows[c.row].inv
  OBVIOUS
<1>3. /\ sweep[s].pc = "next" /\ t \in sweep[s].todo /\ sent[t] # 0 /\ sent[t] \in Nat
      /\ c \in sweep[s].cands /\ canTakeTransfer(c) /\ tag(c.amount) = tag(sent[t])
      /\ CandIsRight(c) /\ c.row \in RowIds /\ i \in Invoices /\ tag(sent[t]) = tag(Ask[i])
  BY <1>1, <1>2, FreshMatch
<1>4. Core /\ Types /\ RowsInv
  BY DEF IInv, Core
<1>5. CASE bound # {}
  <2>1. PICK r \in bound : Take(s, t, c, r, "reread") /\ UNCHANGED rows
    BY <1>1, <1>5
  <2>2. UNCHANGED Core0
    BY <1>2, <2>1 DEF Core0
  <2>3. Core' /\ Keeps
    BY <1>4, <2>2, CoreStays, KeepsAll DEF Core0
  <2>4. rows[r].tx = t /\ t # NoTransfer /\ RowIsRight(r) /\ rows[r].inv \in Invoices
    BY <1>4, TransferIsNumber DEF RowsInv, Types, Rows
  <2>5. rows[r].inv = i
    <3>1. tag(Ask[rows[r].inv]) = tag(Ask[i])
      BY <1>3, <2>4 DEF RowIsRight
    <3> QED
      BY <1>3, <2>4, <3>1, AskAssumption DEF tag
  <2> QED
    BY <1>3, <2>1, <2>3, <2>4, <2>5, Taking
<1>6. CASE bound = {}
  <2>1. /\ rows' = [rows EXCEPT ![t] = [status |-> "CONFIRMING", tx |-> t, amount |-> sent[t], inv |-> i]]
        /\ Take(s, t, c, t, "reread") /\ \A r \in RowIds : rows[r].tx # t
    BY <1>1, <1>6
  <2>2. t \in RowIds /\ t \notin Invoices /\ RowIsRight(t)
    BY <1>4, RowIdsAssumption DEF RowIds, RowsInv
  <2>3. rows[t].status = "absent" /\ rows[t].tx = NoTransfer
    BY <2>1, <2>2 DEF RowIsRight
  <2>4. /\ \A r \in RowIds \ {t} : rows'[r] = rows[r]
        /\ rows'[t].status = "CONFIRMING" /\ rows'[t].tx = t /\ rows'[t].amount = sent[t]
        /\ rows'[t].inv = i /\ rows'[t] \in Rows
    BY <1>3, <1>4, <2>1, <2>2 DEF Types, Rows, RowStatuses
  <2>5. Keeps
    BY <1>2, <2>3, <2>4 DEF Keeps
  <2>6. Types'
    <3>1. rows' \in [RowIds -> Rows]
      BY <1>4, <2>1, <2>4 DEF Types
    <3> QED
      BY <1>2, <1>4, <3>1 DEF Types
  <2>7. RowsInv'
    <3>1. c.status = "UNDERPAID"
      BY <1>1, <1>3 DEF canTakeTransfer
    <3>2. PartPaid(i)'
      <4>1. PartPaid(i) /\ i \in RowIds /\ i # t
        BY <1>3, <2>2, <3>1 DEF CandIsRight, RowIds
      <4>2. rows'[i] = rows[i]
        BY <2>4, <4>1
      <4> QED
        BY <1>2, <2>4, <4>1, <4>2 DEF PartPaid
    <3>3. RowIsRight(t)'
      BY <1>2, <1>3, <2>2, <2>4, <3>2, TransferIsNumber
      DEF RowIsRight, BoundStatuses, SettledStatuses
    <3>4. ASSUME NEW r \in RowIds \ {t} PROVE RowIsRight(r)'
      BY <1>4, <2>4, <2>5, RowStays
    <3> QED
      BY <1>4, <2>1, <2>2, <2>4, <3>3, <3>4 DEF RowsInv
  <2>8. Core'
    <3>1. \A r \in RowIds : rows[r].status \in SettledStatuses \/ rows'[r].status \in SettledStatuses
                              => rows'[r] = rows[r]
      BY <2>3, <2>4 DEF SettledStatuses
    <3> QED
      BY <1>2, <1>4, <2>6, <2>7, <3>1, MoneyStays
  <2> QED
    BY <1>3, <2>1, <2>2, <2>4, <2>5, <2>8, Taking
<1> QED
  BY <1>5, <1>6

-----------------------------------------------------------------------------
(* Settlement.                                                             *)

\* No money has moved for a row that is only bound.
LEMMA Unmoved ==
  ASSUME Core, NEW R \in RowIds, rows[R].status = "CONFIRMING"
  PROVE  (\A e \in booked : e.row # R) /\ ~Spent(rows[R].tx)
<1>1. \A e \in booked : e.row # R
  BY DEF Core, BooksInv, EntryIsRight, SettledStatuses
<1>2. ASSUME NEW o \in Orders, payer[o] = rows[R].tx PROVE FALSE
  <2>1. rows[R].tx \in Transfers /\ rows[R].tx # NoTransfer
    BY SettledHasTransfer DEF Core, BoundStatuses
  <2>2. PICK r \in RowIds : PaidBy(o, r)
    BY <1>2, <2>1 DEF Core, OrdersInv
  <2>3. r = R
    BY <1>2, <2>1, <2>2 DEF Core, RowsInv, PaidBy
  <2> QED
    BY <2>2, <2>3 DEF PaidBy
<1> QED
  BY <1>1, <1>2 DEF Spent

\* The order o is sold for the transfer t.
Sells(o, t) ==
  /\ status[o] = "PENDING" /\ status' = [status EXCEPT ![o] = "PAID"]
  /\ payer' = [payer EXCEPT ![o] = t]

\* What one settlement does: it settles the row R of a transfer t, books at most one
\* entry, and buys the order o of the invoice i or nothing.
LEMMA Settling ==
  ASSUME Core, Keeps, Types', RowsInv', UNCHANGED <<sent, lapsed, aged>>,
         NEW R \in RowIds, rows[R].status = "CONFIRMING",
         NEW t, t = rows[R].tx, NEW i, i = rows[R].inv, NEW o, o = OrderOf[i],
         \A r \in RowIds : rows'[r].tx = rows[r].tx /\ rows'[r].inv = rows[r].inv,
         \A r \in RowIds \ {R} : rows'[r].status \in SettledStatuses <=> rows[r].status \in SettledStatuses,
         rows'[R].status \in SettledStatuses,
         booked \subseteq booked',
         \A e \in booked' \ booked : e.row = R /\ EntryIsRight(e)',
         \A e, f \in booked' \ booked : e = f,
         Spent(t)' \/ Cents(sent[t]) = 0 \/ Credited(R)',
         \/ UNCHANGED <<status, payer>>
         \/ o \in Orders /\ Sells(o, t) /\ rows'[R].status = "PAID" /\ Covers(o, Ask[i])'
  PROVE  Core'
<1> USE DEF Core
<1>1. t \in Transfers /\ t # NoTransfer /\ sent[t] # 0 /\ i \in Invoices
  BY SettledHasTransfer DEF BoundStatuses
<1>2. (\A e \in booked : e.row # R) /\ ~Spent(t)
  BY Unmoved
<1>3. ASSUME NEW p \in Orders
      PROVE  \/ payer'[p] = payer[p] /\ status'[p] = status[p]
             \/ /\ p = o /\ payer'[p] = t /\ payer[p] = NoTransfer /\ status'[p] = "PAID"
                /\ rows'[R].status = "PAID" /\ Covers(o, Ask[i])'
  BY DEF Sells, Types, OrdersInv
<1>4. OrdersInv'
  <2>1. ASSUME NEW p \in Orders, payer'[p] \in Transfers PROVE \E r \in RowIds : PaidBy(p, r)'
    <3>1. CASE payer'[p] = payer[p]
      <4>1. PICK r \in RowIds : PaidBy(p, r)
        BY <2>1, <3>1 DEF OrdersInv
      <4> QED
        BY <3>1, <4>1 DEF PaidBy, orderOf, Keeps
    <3>2. CASE p = o /\ payer'[p] = t /\ rows'[R].status = "PAID"
      <4>1. PaidBy(p, R)'
        BY <3>2 DEF PaidBy, orderOf
      <4> QED
        BY <4>1
    <3> QED
      BY <1>3, <3>1, <3>2
  <2>2. \A p \in Orders : payer'[p] # NoTransfer <=> status'[p] = "PAID"
    BY <1>1, <1>3 DEF OrdersInv
  <2> QED
    BY <2>1, <2>2 DEF OrdersInv
<1>5. \A x : x # t /\ x # NoTransfer => (Spent(x)' <=> Spent(x))
  BY <1>3 DEF Spent
<1>6. ASSUME NEW e \in booked
      PROVE  /\ EntryIsRight(e) /\ e.row \in RowIds /\ e.row # R /\ rows[e.row].tx \in Transfers
             /\ rows[e.row].tx # NoTransfer /\ rows[e.row].tx # t
  <2>1. EntryIsRight(e) /\ e.row \in RowIds /\ e.row # R
    BY <1>2 DEF BooksInv, Types, Entries
  <2>2. rows[e.row].tx \in Transfers /\ rows[e.row].tx # NoTransfer
    BY <2>1, SettledHasTransfer DEF EntryIsRight, BoundStatuses
  <2> QED
    BY <2>1, <2>2 DEF RowsInv
<1>7. ASSUME NEW e \in booked PROVE EntryIsRight(e)'
  <2>1. e.key = "reclaim" => payer'[orderOf(e.row)] = payer[orderOf(e.row)]
    <3> SUFFICES ASSUME e.key = "reclaim" PROVE payer'[orderOf(e.row)] = payer[orderOf(e.row)]
      OBVIOUS
    <3>1. orderOf(e.row) \in Orders /\ payer[orderOf(e.row)] # NoTransfer
      BY <1>6 DEF EntryIsRight
    <3> QED
      BY <1>3, <3>1
  <2>2. rows'[e.row].status \in SettledStatuses
    BY <1>6 DEF EntryIsRight
  <2> QED
    BY <1>5, <1>6, <2>1, <2>2 DEF EntryIsRight, orderOf
<1>8. BooksInv'
  <2>1. \A e \in booked' : EntryIsRight(e)'
    BY <1>7
  <2>2. ASSUME NEW e \in booked', NEW f \in booked', e.row = f.row,
               e.key = "reclaim" <=> f.key = "reclaim"
        PROVE  e = f
    <3>1. CASE e \in booked /\ f \in booked
      BY <2>2, <3>1 DEF BooksInv
    <3>2. CASE e \notin booked \/ f \notin booked
      BY <1>2, <2>2, <3>2
    <3> QED
      BY <3>1, <3>2
  <2>3. ASSUME NEW r \in RowIds, rows'[r].status \in SettledStatuses
        PROVE  (Spent(rows[r].tx) \/ Cents(sent[rows[r].tx]) = 0 \/ Credited(r))'
    <3>1. CASE r = R
      <4>1. rows'[r].tx = t
        BY <3>1
      <4> QED
        BY <3>1, <4>1
    <3>2. CASE r # R
      <4>1. /\ rows[r].status \in SettledStatuses /\ rows'[r].tx = rows[r].tx
            /\ rows[r].tx # NoTransfer
        BY <2>3, <3>2, SettledHasTransfer DEF BoundStatuses
      <4>2. rows[r].tx # t
        BY <3>2, <4>1 DEF RowsInv
      <4>3. Spent(rows[r].tx) \/ Cents(sent[rows[r].tx]) = 0 \/ Credited(r)
        BY <4>1 DEF BooksInv
      <4>4. Credited(r) => Credited(r)'
        BY DEF Credited
      <4> QED
        BY <1>5, <4>1, <4>2, <4>3, <4>4
    <3> QED
      BY <3>1, <3>2
  <2> QED
    BY <2>1, <2>2, <2>3 DEF BooksInv
<1>9. CoveredInv'
  <2>1. ASSUME NEW j \in Invoices, OrderOf[j] \in Orders, payer'[OrderOf[j]] \in Transfers
        PROVE  Covers(OrderOf[j], Ask[j])'
    <3> DEFINE p == OrderOf[j]
    <3>1. CASE payer'[p] = payer[p]
      <4>1. Covers(p, Ask[j])
        BY <2>1, <3>1 DEF CoveredInv
      <4> QED
        BY <1>6, <3>1, <4>1 DEF Covers, orderOf
    <3>2. CASE p = o /\ Covers(o, Ask[i])'
      <4>1. j = i
        BY <1>1, <2>1, <3>2, AskAssumption, NoOrderAssumption
      <4> QED
        BY <3>2, <4>1
    <3> QED
      BY <1>3, <2>1, <3>1, <3>2
  <2> QED
    BY <2>1 DEF CoveredInv
<1> QED
  BY <1>4, <1>8, <1>9

\* A sweep that may claim its row: what it settles.
LEMMA Claimed ==
  ASSUME IInv, NEW s \in Sweeps, sweep[s].pc \in Steps, Claimable(s)
  PROVE  LET R == row(s)  t == rows[R].tx  i == rows[R].inv IN
         /\ R \in RowIds /\ R = sweep[s].row /\ rows[R].status = "CONFIRMING"
         /\ t = tx(s) /\ t \in Transfers /\ i \in Invoices /\ received(s) = sent[t]
         /\ sent[t] \in Nat /\ sent[t] # 0 /\ tag(sent[t]) = tag(Ask[i])
         /\ sweep[s].ask \in Nat /\ tag(sweep[s].ask) = tag(Ask[i])
         /\ theOrder(s) = OrderOf[i]
<1>1. IsSweep(sweep[s]) /\ Settles(sweep[s]) /\ Types /\ RowsInv
  BY Sweeping DEF Sound, IInv, Core
<1>2. row(s) \in RowIds /\ rows[row(s)].tx = tx(s) /\ tag(sweep[s].ask) = tag(Ask[rows[row(s)].inv])
      /\ sweep[s].ask \in Nat /\ rows[row(s)].status = "CONFIRMING"
  BY <1>1 DEF Settles, IsSweep, row, tx, Claimable
<1>3. RowIsRight(row(s))
  BY <1>1, <1>2 DEF RowsInv
<1> QED
  BY <1>1, <1>2, <1>3, SettledHasTransfer
  DEF BoundStatuses, RowIsRight, received, tx, row, theOrder, orderOf

\* claimPayment() leaves every row right.
Writes(R, st, a) == rows' = [rows EXCEPT ![R].status = st, ![R].amount = a]

LEMMA Claiming ==
  ASSUME Core, NEW R \in RowIds, rows[R].status = "CONFIRMING",
         NEW st \in SettledStatuses, NEW a \in Nat, tag(a) = tag(Ask[rows[R].inv]),
         st = "UNDERPAID" => OrderOf[rows[R].inv] \in Orders /\ Asks(a, rows[R].inv),
         Writes(R, st, a), UNCHANGED sent,
         \A o \in Orders : status[o] # "PENDING" => status'[o] = status[o] /\ payer'[o] = payer[o]
  PROVE  /\ Keeps /\ RowsInv' /\ rows' \in [RowIds -> Rows] /\ rows'[R].status = st
         /\ \A r \in RowIds : rows'[r].tx = rows[r].tx /\ rows'[r].inv = rows[r].inv
         /\ \A r \in RowIds \ {R} : rows'[r] = rows[r]
<1> USE DEF Core
<1>1. rows[R] \in Rows /\ rows[R].inv \in Invoices /\ RowIsRight(R)
  BY DEF Types, Rows, RowsInv
<1>2. /\ \A r \in RowIds \ {R} : rows'[r] = rows[r]
      /\ rows'[R] \in Rows /\ rows'[R].status = st /\ rows'[R].amount = a
      /\ rows'[R].tx = rows[R].tx /\ rows'[R].inv = rows[R].inv
  BY <1>1 DEF Writes, Types, Rows, RowStatuses, SettledStatuses
<1>3. \A r \in RowIds : rows'[r].tx = rows[r].tx /\ rows'[r].inv = rows[r].inv
  BY <1>2
<1>4. rows' \in [RowIds -> Rows]
  BY <1>2 DEF Writes, Types
<1>5. Keeps
  BY <1>2, <1>3, SoldIsPaid DEF Keeps, SettledStatuses
<1>6. /\ PartPaid(rows[R].inv) => PartPaid(rows[R].inv)'
      /\ Asks(a, rows[R].inv) => Asks(a, rows[R].inv)'
  BY <1>1, <1>2, <1>5, Stays
<1>7. RowIsRight(R)'
  BY <1>1, <1>2, <1>6 DEF RowIsRight, BoundStatuses, SettledStatuses
<1>8. \A r \in RowIds \ {R} : RowIsRight(r)'
  BY <1>2, <1>5, RowStays
<1> QED
  BY <1>2, <1>3, <1>4, <1>5, <1>7, <1>8 DEF RowsInv

\* credit() of a row that has none.
LEMMA Crediting ==
  ASSUME Core, NEW s \in Sweeps, row(s) \in RowIds, rows[row(s)].status = "CONFIRMING",
         NEW key \in Keys, NEW cents \in Nat, credit(s, key, cents)
  PROVE  LET e == [key |-> key, row |-> row(s), cents |-> cents] IN
         /\ e \in Entries /\ e \notin booked /\ balance' \in Nat
         /\ booked' = IF cents = 0 THEN booked ELSE booked \cup {e}
<1>1. ~Booked(key, row(s))
  BY Unmoved DEF Booked
<1> QED
  BY <1>1, Unmoved DEF credit, Entries, Core, Types

\* A transfer that buys nothing is credited in full.
LEMMA Refunding ==
  ASSUME IInv, NEW s \in Sweeps, sweep[s].pc \in Steps, Claimable(s),
         NEW st \in SettledStatuses, NEW a \in Nat, NEW key \in Gross,
         LET i == rows[row(s)].inv IN
           /\ tag(a) = tag(Ask[i])
           /\ st = "UNDERPAID" => OrderOf[i] \in Orders /\ Asks(a, i),
         rows' = claimPayment(s, st, a), credit(s, key, Cents(received(s))),
         UNCHANGED <<sent, status, payer, lapsed, aged>>
  PROVE  Core' /\ Keeps
<1> PICK R, t, i, o : R = row(s) /\ t = rows[R].tx /\ i = rows[R].inv /\ o = OrderOf[i]
  OBVIOUS
<1>1. Core /\ Types
  BY DEF IInv, Core
<1>2. /\ R \in RowIds /\ rows[R].status = "CONFIRMING" /\ t \in Transfers /\ i \in Invoices
      /\ received(s) = sent[t] /\ sent[t] \in Nat
  BY Claimed
<1>3. Cents(sent[t]) \in Nat
  BY <1>2, CentsIsNat
<1>4. Writes(R, st, a)
  BY DEF claimPayment, Writes
<1>5. /\ Keeps /\ RowsInv' /\ rows' \in [RowIds -> Rows] /\ rows'[R].status = st
      /\ \A r \in RowIds : rows'[r].tx = rows[r].tx /\ rows'[r].inv = rows[r].inv
      /\ \A r \in RowIds \ {R} : rows'[r] = rows[r]
  <2>1. tag(a) = tag(Ask[rows[R].inv])
    OBVIOUS
  <2>2. st = "UNDERPAID" => OrderOf[rows[R].inv] \in Orders /\ Asks(a, rows[R].inv)
    OBVIOUS
  <2>3. UNCHANGED sent
        /\ \A p \in Orders : status[p] # "PENDING" => status'[p] = status[p] /\ payer'[p] = payer[p]
    OBVIOUS
  <2>4. R \in RowIds /\ rows[R].status = "CONFIRMING" /\ Core
    BY <1>1, <1>2
  <2> QED
    BY <1>4, <2>1, <2>2, <2>3, <2>4, Claiming
<1> PICK e : e = [key |-> key, row |-> R, cents |-> Cents(sent[t])]
  OBVIOUS
<1>6. /\ e \in Entries /\ balance' \in Nat
      /\ booked' = IF Cents(sent[t]) = 0 THEN booked ELSE booked \cup {e}
  BY <1>1, <1>2, <1>3, Crediting DEF Gross, Keys
<1>7. Types'
  BY <1>1, <1>5, <1>6 DEF Types
<1>8. ~Spent(t)'
  BY <1>1, <1>2, Unmoved DEF Spent
<1>9. Cents(sent[t]) > 0 => EntryIsRight(e)'
  BY <1>2, <1>5, <1>8 DEF EntryIsRight, Gross
<1>10. \A f \in booked' \ booked : f = e /\ f.row = R /\ EntryIsRight(f)'
  BY <1>3, <1>6, <1>9
<1>11. Cents(sent[t]) = 0 \/ Credited(R)'
  BY <1>6 DEF Credited, Gross
<1> QED
  BY <1>1, <1>2, <1>5, <1>6, <1>7, <1>10, <1>11, Settling

\* What follows the settlement of an order.
LEMMA Afterwards ==
  ASSUME IInv, Keeps, Core', NEW s \in Sweeps,
         NEW p \in {"enqueue", "doublePaid"}, sweep[s].pc \in {"paid", "complete", "late"}, Goto(s, p)
  PROVE  IInv' /\ Keeps
<1> PICK u, w : u = sweep[s] /\ w = [u EXCEPT !.pc = p]
  OBVIOUS
<1>1. Sound(u) /\ IsSweep(u) /\ Settles(u) /\ Reads(u) /\ Types /\ RowsInv
  BY Sweeping DEF Sound, IInv, Core
<1>2. IsSweep(w) /\ w.pc = p /\ w.todo = u.todo /\ w.known = u.known /\ w.cands = u.cands
      /\ w.closed = u.closed /\ w.tx = u.tx /\ w.row = u.row /\ w.ask = u.ask
  BY <1>1 DEF IsSweep, Labels
<1>3. Reads(w) /\ Settles(w)
  BY <1>1, <1>2 DEF Reads, Offered, Settles, Steps, Labels, OrderSteps, Owing, Short
<1>4. Sound(w)'
  BY <1>1, <1>2, <1>3, Frame DEF Sound
<1>5. sweep' = [sweep EXCEPT ![s] = w]
  BY DEF Goto, IInv
<1> QED
  BY <1>4, <1>5, Turn

LEMMA Leaving ==
  ASSUME IInv, Keeps, Core', NEW s \in Sweeps, sweep[s].pc \in Steps, NextTransfer(s) PROVE IInv' /\ Keeps
<1> PICK v : v = Rest(Onward(sweep[s], sweep[s].todo))
  OBVIOUS
<1>1. sweep' = [sweep EXCEPT ![s] = v]
  BY DEF NextTransfer, Continue, Onward, IInv
<1>2. sweep[s].todo \in SUBSET sweep[s].todo /\ sweep[s].pc \notin {"idle", "load"}
  BY DEF Steps
<1>3. Sound(v) /\ Types /\ RowsInv
  BY <1>2, GoingOn DEF IInv, Core
<1> QED
  BY <1>1, <1>3, Frame, Turn

LEMMA StandingStill == ASSUME IInv, NEW s \in Sweeps, sweep[s].pc \in Steps, Stale(s) PROVE IInv' /\ Keeps
<1>1. UNCHANGED Core0 /\ Continue(s, sweep[s].todo) /\ sweep[s].todo \in SUBSET sweep[s].todo
      /\ sweep[s].pc \notin {"idle", "load"}
  BY DEF Stale, NextTransfer, shop, Core0, Steps
<1> QED
  BY <1>1, Moves

LEMMA Refused ==
  ASSUME IInv, NEW s \in Sweeps, sweep[s].pc \in {"paid", "complete"}, Closed(s) PROVE IInv' /\ Keeps
<1> DEFINE w == [sweep[s] EXCEPT !.pc = "late"]
<1>1. UNCHANGED Core0 /\ sweep' = [sweep EXCEPT ![s] = w]
  BY DEF Closed, Goto, shop, Core0, IInv
<1>2. Follows(w, sweep[s])
  BY Sweeping DEF IsSweep, Labels, Follows
<1> HIDE DEF w
<1> QED
  BY <1>1, <1>2, Relabel

LEMMA SettlingLate == ASSUME IInv, NEW s \in Sweeps, settleLate(s) PROVE IInv' /\ Keeps
<1>1. sweep[s].pc = "late" /\ sweep[s].pc \in Steps
  BY DEF settleLate, At, Steps, Labels
<1>2. CASE Stale(s)
  BY <1>1, <1>2, StandingStill
<1>3. CASE Claimable(s) /\ rows' = claimPayment(s, "PAID", received(s))
           /\ credit(s, "late", Cents(received(s))) /\ Goto(s, "doublePaid")
           /\ UNCHANGED <<sent, status, payer, lapsed, aged>>
  <2>1. received(s) \in Nat /\ tag(received(s)) = tag(Ask[rows[row(s)].inv])
    BY <1>1, <1>3, Claimed
  <2>2. Core' /\ Keeps
    BY <1>1, <1>3, <2>1, Refunding DEF SettledStatuses, Gross
  <2> QED
    BY <1>1, <1>3, <2>2, Afterwards
<1> QED
  BY <1>2, <1>3 DEF settleLate

LEMMA SettlingTopup == ASSUME IInv, NEW s \in Sweeps, settleTopup(s) PROVE IInv' /\ Keeps
<1>1. sweep[s].pc = "topup" /\ sweep[s].pc \in Steps
  BY DEF settleTopup, At, Steps, Labels
<1>2. CASE Stale(s)
  BY <1>1, <1>2, StandingStill
<1>3. CASE Claimable(s) /\ rows' = claimPayment(s, "PAID", received(s))
           /\ credit(s, "topup", Cents(received(s))) /\ NextTransfer(s)
           /\ UNCHANGED <<sent, status, payer, lapsed, aged>>
  <2>1. received(s) \in Nat /\ tag(received(s)) = tag(Ask[rows[row(s)].inv])
    BY <1>1, <1>3, Claimed
  <2>2. Core' /\ Keeps
    BY <1>1, <1>3, <2>1, Refunding DEF SettledStatuses, Gross
  <2> QED
    BY <1>1, <1>3, <2>2, Leaving
<1> QED
  BY <1>2, <1>3 DEF settleTopup

LEMMA SettlingShort == ASSUME IInv, NEW s \in Sweeps, settleUnderpaid(s) PROVE IInv' /\ Keeps
<1>1. sweep[s].pc = "under" /\ sweep[s].pc \in Steps
  BY DEF settleUnderpaid, At, Steps, Labels
<1>2. CASE Stale(s)
  BY <1>1, <1>2, StandingStill
<1>3. CASE Claimable(s) /\ rows' = claimPayment(s, "UNDERPAID", sweep[s].ask)
           /\ credit(s, "underpaid", Cents(received(s))) /\ NextTransfer(s)
           /\ UNCHANGED <<sent, status, payer, lapsed, aged>>
  <2>1. sweep[s].ask \in Nat /\ tag(sweep[s].ask) = tag(Ask[rows[row(s)].inv])
        /\ row(s) = sweep[s].row
    BY <1>1, <1>3, Claimed
  <2>2. OrderOf[rows[row(s)].inv] \in Orders /\ Asks(sweep[s].ask, rows[row(s)].inv)
    BY <1>1, <2>1, Sweeping DEF Sound, Settles, OrderSteps, Owing, Short, Steps, Labels
  <2>3. Core' /\ Keeps
    BY <1>1, <1>3, <2>1, <2>2, Refunding DEF SettledStatuses, Gross
  <2> QED
    BY <1>1, <1>3, <2>3, Leaving
<1> QED
  BY <1>2, <1>3 DEF settleUnderpaid

\* At a settlement of an open order, the ask is that of the invoice.
LEMMA AskIsKnown ==
  ASSUME IInv, NEW s \in Sweeps, sweep[s].pc \in {"paid", "complete"}, Claimable(s),
         status[theOrder(s)] = "PENDING"
  PROVE  /\ theOrder(s) \in Orders /\ sweep[s].ask = Ask[rows[row(s)].inv]
         /\ sweep[s].pc = "paid" => received(s) >= sweep[s].ask
         /\ sweep[s].pc = "complete" => received(s) < sweep[s].ask
<1>1. sweep[s].pc \in Steps /\ Settles(sweep[s])
  BY Sweeping DEF Sound, Steps, Labels
<1>2. row(s) = sweep[s].row /\ theOrder(s) = OrderOf[rows[row(s)].inv]
  BY DEF row, theOrder, orderOf
<1> QED
  BY <1>1, <1>2 DEF Settles, OrderSteps, Owing, Short, Steps, Labels, Asks, Shut, received, tx

LEMMA SettlingPaid == ASSUME IInv, NEW s \in Sweeps, settleOrderPaid(s) PROVE IInv' /\ Keeps
<1>1. sweep[s].pc = "paid" /\ sweep[s].pc \in Steps
  BY DEF settleOrderPaid, At, Steps, Labels
<1>2. CASE Stale(s) \/ Closed(s)
  BY <1>1, <1>2, StandingStill, Refused
<1>3. CASE /\ status[theOrder(s)] = "PENDING" /\ Claimable(s)
           /\ rows' = claimPayment(s, "PAID", received(s))
           /\ credit(s, "overpaid", Cents(received(s) - sweep[s].ask)) /\ settlePaid(s)
  <2> PICK R, t, i, o : R = row(s) /\ t = rows[R].tx /\ i = rows[R].inv /\ o = OrderOf[i]
    OBVIOUS
  <2>1. /\ R \in RowIds /\ rows[R].status = "CONFIRMING" /\ t = tx(s) /\ t \in Transfers
        /\ i \in Invoices /\ received(s) = sent[t] /\ sent[t] \in Nat /\ o = theOrder(s)
        /\ sweep[s].ask \in Nat /\ tag(sent[t]) = tag(Ask[i])
    BY <1>1, <1>3, Claimed
  <2>2. o \in Orders /\ sweep[s].ask = Ask[i] /\ sent[t] >= Ask[i]
    BY <1>1, <1>3, <2>1, AskIsKnown
  <2>3. /\ status' = [status EXCEPT ![o] = "PAID"] /\ payer' = [payer EXCEPT ![o] = t]
        /\ Goto(s, "enqueue") /\ UNCHANGED <<sent, lapsed, aged>> /\ status[o] = "PENDING"
    BY <1>3, <2>1 DEF settlePaid
  <2>4. Core /\ Types
    BY DEF IInv, Core
  <2>5. Writes(R, "PAID", sent[t])
    BY <1>3, <2>1 DEF claimPayment, Writes
  <2>6. \A p \in Orders : status[p] # "PENDING" => status'[p] = status[p] /\ payer'[p] = payer[p]
    BY <2>3, <2>4 DEF Types
  <2>7. /\ Keeps /\ RowsInv' /\ rows' \in [RowIds -> Rows] /\ rows'[R].status = "PAID"
        /\ \A r \in RowIds : rows'[r].tx = rows[r].tx /\ rows'[r].inv = rows[r].inv
        /\ \A r \in RowIds \ {R} : rows'[r] = rows[r]
    <3>1. "PAID" \in SettledStatuses /\ tag(sent[t]) = tag(Ask[rows[R].inv]) /\ UNCHANGED sent
      BY <2>1, <2>3 DEF SettledStatuses
    <3> QED
      BY <2>1, <2>4, <2>5, <2>6, <3>1, Claiming
  <2> PICK e : e = [key |-> "overpaid", row |-> R, cents |-> Cents(sent[t] - Ask[i])]
    OBVIOUS
  <2>8. Cents(sent[t] - Ask[i]) \in Nat
    BY <2>1, <2>2, CentsIsNat
  <2>9. e \in Entries /\ balance' \in Nat /\ booked \subseteq booked' /\ booked' \subseteq booked \cup {e}
    BY <1>3, <2>1, <2>2, <2>4, <2>8, Crediting DEF Keys
  <2>10. payer'[o] = t /\ status'[o] = "PAID"
    BY <2>2, <2>3, <2>4 DEF Types
  <2>11. Types'
    BY <2>1, <2>3, <2>4, <2>7, <2>9 DEF Types
  <2>12. EntryIsRight(e)'
    BY <2>1, <2>2, <2>3, <2>7, <2>10 DEF EntryIsRight, Spent, Gross, SettledStatuses
  <2>13. Spent(t)' /\ Covers(o, Ask[i])'
    BY <2>2, <2>3, <2>10 DEF Spent, Covers
  <2>14. Core'
    <3>1. \A x \in booked' \ booked : x = e /\ x.row = R /\ EntryIsRight(x)'
      BY <2>9, <2>12
    <3>2. \A x, y \in booked' \ booked : x = y
      BY <3>1
    <3>3. \A r \in RowIds \ {R} : rows'[r].status \in SettledStatuses <=> rows[r].status \in SettledStatuses
      BY <2>7
    <3>4. rows'[R].status \in SettledStatuses
      BY <2>7 DEF SettledStatuses
    <3>5. o \in Orders /\ Sells(o, t) /\ rows'[R].status = "PAID" /\ Covers(o, Ask[i])'
      BY <2>2, <2>3, <2>7, <2>13 DEF Sells
    <3>6. UNCHANGED <<sent, lapsed, aged>> /\ Core /\ Keeps /\ Types' /\ RowsInv' /\ booked \subseteq booked'
      BY <2>3, <2>4, <2>7, <2>9, <2>11
    <3>7. R \in RowIds /\ rows[R].status = "CONFIRMING" /\ t = rows[R].tx /\ i = rows[R].inv /\ o = OrderOf[i]
      BY <2>1
    <3>8. \A r \in RowIds : rows'[r].tx = rows[r].tx /\ rows'[r].inv = rows[r].inv
      BY <2>7
    <3>9. Spent(t)'
      BY <2>13
    <3> QED
      BY <3>1, <3>2, <3>3, <3>4, <3>5, <3>6, <3>7, <3>8, <3>9, Settling
  <2> QED
    BY <1>1, <2>3, <2>7, <2>14, Afterwards
<1> QED
  BY <1>2, <1>3 DEF settleOrderPaid

\* The rows of an order whose short payments are completed.
Completes(R, o, a) ==
  rows' = [r \in RowIds |->
             IF r \in shortRows(o) THEN [rows[r] EXCEPT !.status = "PAID"]
             ELSE [rows EXCEPT ![R].status = "PAID", ![R].amount = a][r]]

LEMMA Completing ==
  ASSUME Core, NEW R \in RowIds, rows[R].status = "CONFIRMING", NEW o \in Orders, orderOf(R) = o,
         NEW a \in Nat, tag(a) = tag(Ask[rows[R].inv]), Sells(o, rows[R].tx), UNCHANGED sent,
         Completes(R, o, a)
  PROVE  /\ Keeps /\ RowsInv' /\ rows' \in [RowIds -> Rows] /\ rows'[R].status = "PAID"
         /\ \A r \in RowIds : rows'[r].tx = rows[r].tx /\ rows'[r].inv = rows[r].inv
         /\ \A r \in RowIds \ {R} :
              rows'[r].status \in SettledStatuses <=> rows[r].status \in SettledStatuses
<1> USE DEF Core
<1>1. ASSUME NEW r \in RowIds
      PROVE  rows[r] \in Rows /\ rows[r].inv \in Invoices /\ RowIsRight(r)
  BY DEF Types, Rows, RowsInv
<1>2. R \notin shortRows(o)
  BY DEF shortRows
<1>3. rows'[R] = [rows[R] EXCEPT !.status = "PAID", !.amount = a]
  BY <1>2 DEF Completes, Types
<1>4. rows'[R] \in Rows /\ rows'[R].status = "PAID" /\ rows'[R].amount = a
      /\ rows'[R].tx = rows[R].tx /\ rows'[R].inv = rows[R].inv
  <2>1. rows[R] \in Rows
    BY <1>1
  <2>2. rows'[R] \in Rows
    BY <1>3, <2>1 DEF Rows, RowStatuses
  <2> QED
    BY <1>3, <2>1, <2>2 DEF Rows
<1>5. ASSUME NEW r \in shortRows(o)
      PROVE  /\ r \in RowIds /\ rows[r].status = "UNDERPAID" /\ orderOf(r) = o
             /\ rows'[r] \in Rows /\ rows'[r].status = "PAID" /\ rows'[r].tx = rows[r].tx
             /\ rows'[r].inv = rows[r].inv /\ rows'[r].amount = rows[r].amount
  <2>1. r \in RowIds /\ rows[r].status = "UNDERPAID" /\ orderOf(r) = o
    BY DEF shortRows
  <2>2. rows'[r] = [rows[r] EXCEPT !.status = "PAID"]
    BY <2>1 DEF Completes
  <2> QED
    BY <1>1, <2>1, <2>2 DEF Rows, RowStatuses
<1>6. ASSUME NEW r \in RowIds, r \notin shortRows(o), r # R PROVE rows'[r] = rows[r]
  BY <1>6 DEF Completes, Types
<1>7. \A r \in RowIds : rows'[r].tx = rows[r].tx /\ rows'[r].inv = rows[r].inv
  BY <1>4, <1>5, <1>6
<1>8. rows' \in [RowIds -> Rows]
  <2>1. \A r \in RowIds : rows'[r] \in Rows
    BY <1>1, <1>4, <1>5, <1>6
  <2>2. rows' = [r \in RowIds |-> rows'[r]]
    BY DEF Completes
  <2> QED
    BY <2>1, <2>2
<1>9. status'[o] = "PAID" /\ status[o] = "PENDING" /\ payer'[o] \in Transfers
      /\ \A p \in Orders \ {o} : status'[p] = status[p] /\ payer'[p] = payer[p]
  BY SettledHasTransfer DEF Sells, Types, BoundStatuses
<1>10. Keeps
  <2>1. ASSUME NEW r \in RowIds
        PROVE  /\ rows[r].status # "absent" => rows'[r].status # "absent"
               /\ rows[r].status = "PAID" => rows'[r].status = "PAID"
               /\ rows[r].status = "UNDERPAID" =>
                    \/ rows'[r].status = "UNDERPAID"
                    \/ rows'[r].status = "PAID" /\ payer'[orderOf(r)] \in Transfers
    <3>1. CASE r = R
      BY <1>4, <3>1
    <3>2. CASE r \in shortRows(o)
      BY <1>5, <1>9, <3>2
    <3>3. CASE r # R /\ r \notin shortRows(o)
      BY <1>6, <3>3
    <3> QED
      BY <3>1, <3>2, <3>3
  <2> QED
    BY <1>7, <1>9, <2>1, SoldIsPaid DEF Keeps
<1>11. ASSUME NEW r \in RowIds PROVE RowIsRight(r)'
  <2>1. CASE r # R /\ r \notin shortRows(o)
    BY <1>6, <1>10, <2>1, RowStays
  <2>2. CASE r = R \/ r \in shortRows(o)
    <3>1. PartPaid(rows[r].inv) => PartPaid(rows[r].inv)'
      BY <1>1, <1>7, <1>10, Stays
    <3>2. /\ rows'[r].status = "PAID" /\ rows[r].status \in {"CONFIRMING", "UNDERPAID"}
          /\ tag(rows'[r].amount) = tag(Ask[rows[r].inv])
      <4>1. RowIsRight(r)
        BY <1>1
      <4>2. CASE r = R
        BY <1>4, <4>2
      <4>3. CASE r \in shortRows(o)
        BY <1>5, <4>1, <4>3 DEF RowIsRight
      <4> QED
        BY <2>2, <4>2, <4>3
    <3>3. RowIsRight(r) /\ rows'[r].inv = rows[r].inv /\ rows'[r].tx = rows[r].tx
      BY <1>1, <1>7
    <3> QED
      BY <3>1, <3>2, <3>3 DEF RowIsRight, BoundStatuses, SettledStatuses
  <2> QED
    BY <2>1, <2>2
<1>12. RowsInv'
  <2>1. \A q, r \in RowIds : rows'[q].tx = rows'[r].tx => rows'[q].tx = NoTransfer \/ q = r
    BY <1>7 DEF RowsInv
  <2> QED
    BY <1>11, <2>1 DEF RowsInv
<1>13. \A r \in RowIds \ {R} : rows'[r].status \in SettledStatuses <=> rows[r].status \in SettledStatuses
  BY <1>5, <1>6 DEF SettledStatuses
<1> QED
  BY <1>4, <1>7, <1>8, <1>10, <1>12, <1>13

LEMMA SettlingCompleted == ASSUME IInv, NEW s \in Sweeps, settleOrderCompleted(s) PROVE IInv' /\ Keeps
<1>1. sweep[s].pc = "complete" /\ sweep[s].pc \in Steps
  BY DEF settleOrderCompleted, At, Steps, Labels
<1>2. CASE Stale(s) \/ Closed(s)
  BY <1>1, <1>2, StandingStill, Refused
<1>3. CASE sweep' = [sweep EXCEPT ![s].pc = "under", ![s].eff = received(s)]
           /\ UNCHANGED <<sent, answers, shop, spends, faults>>
  <2> DEFINE w == [sweep[s] EXCEPT !.pc = "under", !.eff = received(s)]
  <2>1. sweep' = [sweep EXCEPT ![s] = w] /\ UNCHANGED Core0
    BY <1>3 DEF IInv, shop, Core0
  <2>2. Follows(w, sweep[s])
    BY <1>1, Sweeping DEF IsSweep, Labels, Follows
  <2> HIDE DEF w
  <2> QED
    BY <2>1, <2>2, Relabel
<1>4. CASE /\ status[theOrder(s)] = "PENDING" /\ Claimable(s) /\ Affords(s)
           /\ booked' = booked \cup {[key |-> "reclaim", row |-> row(s), cents |-> needed(s)]}
           /\ balance' = balance - needed(s)
           /\ rows' = [r \in RowIds |->
                IF r \in shortRows(theOrder(s)) THEN [rows[r] EXCEPT !.status = "PAID"]
                                                 ELSE claimPayment(s, "PAID", received(s))[r]]
           /\ settlePaid(s)
  <2> PICK R, t, i, o, n : R = row(s) /\ t = rows[R].tx /\ i = rows[R].inv /\ o = OrderOf[i] /\ n = needed(s)
    OBVIOUS
  <2>1. /\ R \in RowIds /\ rows[R].status = "CONFIRMING" /\ t = tx(s) /\ t \in Transfers
        /\ i \in Invoices /\ received(s) = sent[t] /\ sent[t] \in Nat /\ o = theOrder(s)
        /\ sweep[s].ask \in Nat /\ tag(sent[t]) = tag(Ask[i])
    BY <1>1, <1>4, Claimed
  <2>2. o \in Orders /\ sweep[s].ask = Ask[i] /\ sent[t] < Ask[i] /\ Ask[i] \in Nat
    BY <1>1, <1>4, <2>1, AskIsKnown
  <2>3. /\ status' = [status EXCEPT ![o] = "PAID"] /\ payer' = [payer EXCEPT ![o] = t]
        /\ Goto(s, "enqueue") /\ UNCHANGED <<sent, lapsed, aged>> /\ status[o] = "PENDING"
    BY <1>4, <2>1 DEF settlePaid
  <2>4. Core /\ Types
    BY DEF IInv, Core
  <2>5. n \in Nat \ {0} /\ n * CentsToUsdt6 >= Ask[i] - sent[t]
    <3>1. Ask[i] - sent[t] \in Nat /\ Ask[i] - sent[t] > 0
      BY <2>1, <2>2
    <3> QED
      BY <2>1, <2>2, <3>1, RemainderCovers DEF needed
  <2>6. balance' \in Nat
    BY <1>4, <2>4, <2>5 DEF Affords, Types
  <2>7. Sells(o, t)
    BY <2>3 DEF Sells
  <2>8. /\ Keeps /\ RowsInv' /\ rows' \in [RowIds -> Rows] /\ rows'[R].status = "PAID"
        /\ \A r \in RowIds : rows'[r].tx = rows[r].tx /\ rows'[r].inv = rows[r].inv
        /\ \A r \in RowIds \ {R} :
             rows'[r].status \in SettledStatuses <=> rows[r].status \in SettledStatuses
    <3>1. orderOf(R) = o /\ tag(sent[t]) = tag(Ask[rows[R].inv]) /\ Sells(o, rows[R].tx) /\ UNCHANGED sent
      BY <2>1, <2>3, <2>7 DEF orderOf
    <3>2. Completes(R, o, sent[t])
      BY <1>4, <2>1 DEF claimPayment, Completes
    <3> QED
      BY <2>1, <2>2, <2>4, <3>1, <3>2, Completing
  <2> PICK e : e = [key |-> "reclaim", row |-> R, cents |-> n]
    OBVIOUS
  <2>9. e \in Entries /\ booked' = booked \cup {e} /\ e.row = R /\ e.key = "reclaim" /\ e.cents = n
    BY <1>4, <2>1, <2>5 DEF Entries, Keys
  <2>10. payer'[o] = t /\ status'[o] = "PAID"
    BY <2>2, <2>3, <2>4 DEF Types
  <2>11. Types'
    BY <2>1, <2>3, <2>4, <2>6, <2>8, <2>9 DEF Types
  <2>12. EntryIsRight(e)'
    BY <2>1, <2>2, <2>8, <2>9, <2>10 DEF EntryIsRight, Gross, SettledStatuses, orderOf
  <2>13. Spent(t)'
    BY <2>2, <2>10 DEF Spent
  <2>14. Covers(o, Ask[i])'
    <3> PICK x : x = n * CentsToUsdt6
      OBVIOUS
    <3>1. x \in Int /\ sent[t] + x >= Ask[i]
      BY <2>1, <2>2, <2>5, UnitsAssumption
    <3>2. e \in booked' /\ e.key = "reclaim" /\ orderOf(e.row)' = o
      BY <2>1, <2>8, <2>9 DEF orderOf
    <3> QED
      BY <2>3, <2>9, <2>10, <3>1, <3>2 DEF Covers
  <2>15. Core'
    <3>1. \A y \in booked' \ booked : y = e /\ y.row = R /\ EntryIsRight(y)'
      BY <2>9, <2>12
    <3>2. \A y, z \in booked' \ booked : y = z
      BY <3>1
    <3>3. rows'[R].status \in SettledStatuses
      BY <2>8 DEF SettledStatuses
    <3>4. o \in Orders /\ Sells(o, t) /\ rows'[R].status = "PAID" /\ Covers(o, Ask[i])'
      BY <2>2, <2>7, <2>8, <2>14
    <3>5. UNCHANGED <<sent, lapsed, aged>> /\ Core /\ Keeps /\ Types' /\ RowsInv' /\ booked \subseteq booked'
      BY <2>3, <2>4, <2>8, <2>9, <2>11
    <3>6. R \in RowIds /\ rows[R].status = "CONFIRMING" /\ t = rows[R].tx /\ i = rows[R].inv /\ o = OrderOf[i]
      BY <2>1
    <3>7. \A r \in RowIds : rows'[r].tx = rows[r].tx /\ rows'[r].inv = rows[r].inv
      BY <2>8
    <3>8. \A r \in RowIds \ {R} : rows'[r].status \in SettledStatuses <=> rows[r].status \in SettledStatuses
      BY <2>8
    <3> QED
      BY <2>13, <3>1, <3>2, <3>3, <3>4, <3>5, <3>6, <3>7, <3>8, Settling
  <2> QED
    BY <1>1, <2>3, <2>8, <2>15, Afterwards
<1> QED
  BY <1>2, <1>3, <1>4 DEF settleOrderCompleted

-----------------------------------------------------------------------------
(* The invariant holds.                                                    *)

LEMMA Initially == Init => IInv
<1> SUFFICES ASSUME Init PROVE IInv
  OBVIOUS
<1> USE DEF Init
<1>1. ASSUME NEW r \in RowIds
      PROVE  /\ rows[r] \in Rows /\ rows[r].tx = NoTransfer
             /\ r \in Invoices => rows[r].status = "PENDING" /\ rows[r].amount = Ask[r] /\ rows[r].inv = r
             /\ r \notin Invoices => rows[r].status = "absent"
  <2>1. CASE r \in Invoices
    <3>1. Ask[r] \in Nat
      BY <2>1, AskAssumption
    <3> QED
      BY <2>1, <3>1 DEF Rows, RowStatuses
  <2>2. CASE r \notin Invoices
    BY <2>2, NoRowIsRow DEF NoRow
  <2> QED
    BY <2>1, <2>2
<1>2. rows \in [RowIds -> Rows]
  BY <1>1
<1>3. Types
  BY <1>2, BoundsAssumption DEF Types
<1>4. ASSUME NEW r \in RowIds PROVE RowIsRight(r)
  BY <1>1, RowIdsAssumption DEF RowIsRight, RowIds, BoundStatuses, SettledStatuses
<1>5. RowsInv
  BY <1>1, <1>4 DEF RowsInv
<1>6. OrdersInv /\ BooksInv /\ CoveredInv
  BY <1>1, TransferIsNumber DEF OrdersInv, BooksInv, CoveredInv, SettledStatuses, NoTransfer
<1>7. \A s \in Sweeps : sweep[s] = IdleSweep
  OBVIOUS
<1>8. \A s \in Sweeps : Sound(sweep[s])
  BY <1>7, IdleIsSound
<1>9. sweep \in [Sweeps -> {sweep[s] : s \in Sweeps}]
  OBVIOUS
<1> QED
  BY <1>3, <1>5, <1>6, <1>8, <1>9 DEF IInv, Core

LEMMA Working == ASSUME IInv, NEW s \in Sweeps, Work(s) PROVE IInv' /\ Keeps
<1>1. CASE Begin(s) \/ LoadCandidates(s)
  BY <1>1, Beginning, Loading
<1>2. ASSUME NEW t \in Transfers, Skip(s, t) \/ Resume(s, t) \/ flagUnmatched(s, t)
                                  \/ Bind(s, t) \/ BindAnother(s, t)
      PROVE  IInv' /\ Keeps
  BY <1>2, Skipping, Resuming, Binding, BindingAnother
<1>3. CASE Reread(s) \/ priorRead(s) \/ flagDoublePaid(s) \/ enqueueDelivery(s)
           \/ \E old \in SUBSET PaidOrders : Finish(s, old)
  BY <1>3, Rereading, Pricing, Skipping, Ending
<1>4. CASE settleOrderPaid(s) \/ settleOrderCompleted(s) \/ settleUnderpaid(s) \/ settleLate(s)
           \/ settleTopup(s)
  BY <1>4, SettlingPaid, SettlingCompleted, SettlingShort, SettlingLate, SettlingTopup
<1> QED
  BY <1>1, <1>2, <1>3, <1>4 DEF Work

LEMMA Inductive == IInv /\ [Next]_vars => IInv' /\ Keeps
<1> SUFFICES ASSUME IInv, [Next]_vars PROVE IInv' /\ Keeps
  OBVIOUS
<1>1. CASE UNCHANGED vars
  <2>1. UNCHANGED Core0 /\ UNCHANGED sweep
    BY <1>1 DEF vars, shop, Core0
  <2>2. Core' /\ Keeps
    BY <2>1, CoreStays, KeepsAll DEF IInv, Core0
  <2> QED
    BY <2>1, <2>2, Outside
<1>2. CASE SpendElsewhere
  BY <1>2, Spending
<1>3. ASSUME NEW t \in Transfers, Send(t) PROVE IInv' /\ Keeps
  BY <1>3, Sending
<1>4. ASSUME NEW o \in Orders, PayFromBalance(o) \/ Lapse(o) \/ Expire(o) PROVE IInv' /\ Keeps
  BY <1>4, Paying, Passing
<1>5. ASSUME NEW r \in RowIds, Age(r) PROVE IInv' /\ Keeps
  BY <1>5, Passing
<1>6. ASSUME NEW s \in Sweeps, Work(s) \/ TransferFails(s) \/ SweepDies(s) PROVE IInv' /\ Keeps
  BY <1>6, Working, Skipping, Ending
<1> QED
  BY <1>1, <1>2, <1>3, <1>4, <1>5, <1>6 DEF Next

\* What the rail keeps of rows, orders, books and of what every sweep has read, for any
\* number of sweeps that overlap, die and repeat each other (the worker's sweep and settle()).
THEOREM InductiveInvariant == Spec => []IInv
<1>1. Init => IInv
  BY Initially
<1>2. IInv /\ [Next]_vars => IInv' /\ Keeps
  BY Inductive
<1> QED
  BY <1>1, <1>2, PTL DEF Spec

-----------------------------------------------------------------------------
(* What the rail promises.                                                 *)

LEMMA AtMostOne ==
  ASSUME NEW S, \A x, y \in S : x = y
  PROVE  IsFiniteSet(S) /\ Cardinality(S) = (IF S = {} THEN 0 ELSE 1)
<1>1. CASE S = {}
  BY <1>1, FS_EmptySet
<1>2. CASE S # {}
  <2>1. PICK x : x \in S
    BY <1>2
  <2>2. S = {x}
    BY <2>1
  <2> QED
    BY <1>2, <2>2, FS_Singleton
<1> QED
  BY <1>1, <1>2

\* A transfer has one row and buys one order.
LEMMA OneRow ==
  ASSUME Core, NEW t \in Transfers
  PROVE  /\ \A q, r \in RowOf(t) : q = r
         /\ \A o \in Bought(t) : \E r \in RowOf(t) : PaidBy(o, r)
         /\ \A o, p \in Bought(t) : o = p
<1>1. \A q, r \in RowOf(t) : q = r
  BY TransferIsNumber DEF Core, RowsInv, RowOf
<1>2. ASSUME NEW o \in Bought(t) PROVE \E r \in RowOf(t) : PaidBy(o, r)
  <2>1. PICK r \in RowIds : PaidBy(o, r)
    BY DEF Core, OrdersInv, Bought
  <2> QED
    BY <2>1 DEF PaidBy, RowOf, Bought
<1>3. ASSUME NEW o \in Bought(t), NEW p \in Bought(t) PROVE o = p
  BY <1>1, <1>2 DEF PaidBy
<1> QED
  BY <1>1, <1>2, <1>3

LEMMA OneOutcome == ASSUME Core, NEW t \in Transfers
  PROVE /\ Cardinality(RowOf(t)) <= 1 /\ Cardinality(Bought(t)) <= 1
        /\ Settled(t) \/ (Bought(t) = {} /\ Credits(t) = {})
        /\ Settled(t) => LET credited == {<<e.key, e.cents>> : e \in Credits(t)} IN
             IF Bought(t) # {}
             THEN credited \subseteq {<<"overpaid", Cents(sent[t] - a)>> : a \in {Ask[i] : i \in Invoices}}
             ELSE /\ Cardinality(credited) = (IF Cents(sent[t]) > 0 THEN 1 ELSE 0)
                  /\ \A c \in credited : c[2] = Cents(sent[t])
<1> DEFINE credited == {<<e.key, e.cents>> : e \in Credits(t)}
<1>1. Types /\ RowsInv /\ BooksInv
  BY DEF Core
<1>2. Cardinality(RowOf(t)) <= 1 /\ Cardinality(Bought(t)) <= 1
  BY OneRow, AtMostOne
<1>3. ASSUME NEW e \in Credits(t)
      PROVE  /\ e \in booked /\ e.row \in RowOf(t) /\ e.key # "reclaim" /\ EntryIsRight(e)
             /\ rows[e.row].tx = t /\ e.key \in Gross \cup {"overpaid"} /\ Settled(t)
  <2>1. e \in booked /\ e.row \in RowOf(t) /\ e.key # "reclaim" /\ EntryIsRight(e) /\ e \in Entries
    BY <1>1 DEF Credits, BooksInv, Types
  <2> QED
    BY <2>1 DEF RowOf, Entries, Keys, Gross, EntryIsRight, Settled, SettledStatuses
<1>4. Settled(t) \/ (Bought(t) = {} /\ Credits(t) = {})
  <2>1. ASSUME NEW o \in Bought(t) PROVE Settled(t)
    BY OneRow DEF PaidBy, Settled
  <2> QED
    BY <1>3, <2>1
<1>5. Spent(t) <=> Bought(t) # {}
  BY DEF Spent, Bought
<1>6. ASSUME Bought(t) # {}
      PROVE  credited \subseteq {<<"overpaid", Cents(sent[t] - a)>> : a \in {Ask[i] : i \in Invoices}}
  <2>1. ASSUME NEW e \in Credits(t)
        PROVE  e.key = "overpaid" /\ \E i \in Invoices : e.cents = Cents(sent[t] - Ask[i])
    BY <1>3, <1>5, <1>6 DEF EntryIsRight
  <2> QED
    BY <2>1
<1>7. ASSUME Bought(t) = {}, Settled(t)
      PROVE  /\ Cardinality(credited) = (IF Cents(sent[t]) > 0 THEN 1 ELSE 0)
             /\ \A c \in credited : c[2] = Cents(sent[t])
  <2>1. ASSUME NEW e \in Credits(t) PROVE e.cents = Cents(sent[t]) /\ e.cents > 0
    BY <1>3, <1>5, <1>7 DEF EntryIsRight
  <2>2. \A e, f \in Credits(t) : e = f
    BY <1>1, <1>3, OneRow DEF BooksInv
  <2>3. \A c, d \in credited : c = d
    BY <2>2
  <2>4. Cents(sent[t]) > 0 => credited # {}
    <3>1. PICK r \in RowOf(t) : rows[r].status \in SettledStatuses
      BY <1>7 DEF Settled, SettledStatuses
    <3>2. Cents(sent[t]) > 0 => Credited(r)
      BY <1>1, <1>5, <1>7, <3>1 DEF BooksInv, RowOf
    <3>3. Credited(r) => Credits(t) # {}
      BY <3>1 DEF Credited, Credits
    <3> QED
      BY <3>2, <3>3
  <2>5. ~(Cents(sent[t]) > 0) => credited = {}
    BY <2>1
  <2>6. Cardinality(credited) = (IF credited = {} THEN 0 ELSE 1)
    <3> HIDE DEF credited
    <3> QED
      BY <2>3, AtMostOne
  <2>7. \A c \in credited : c[2] = Cents(sent[t])
    BY <2>1
  <2> QED
    BY <2>4, <2>5, <2>6, <2>7
<1> QED
  BY <1>2, <1>4, <1>6, <1>7

\* A transfer has one row, moves no money before that row is settled, and then either buys
\* one order, with at most its surplus credited, or is credited in full, once (settle()).
THEOREM SettledOnce == Spec => []OneOutcomePerTransfer
<1>1. IInv => OneOutcomePerTransfer
  BY OneOutcome DEF IInv, OneOutcomePerTransfer
<1> QED
  BY <1>1, InductiveInvariant, PTL

\* A row keeps the transfer it was bound to, and what is settled stays settled, whichever
\* sweeps overlap or die (bindTransfer(), claimPayment()).
THEOREM SettlementsAreFinal == Spec => SettledIsFinal
<1>1. IInv /\ [Next]_vars =>
        [\A r \in RowIds :
           /\ rows[r].tx # NoTransfer => rows'[r].tx = rows[r].tx
           /\ rows[r].status = "PAID" => rows'[r].status = "PAID"
           /\ rows[r].status = "UNDERPAID" => rows'[r].status \in {"UNDERPAID", "PAID"}]_vars
  BY Inductive DEF Keeps
<1> QED
  BY <1>1, InductiveInvariant, PTL DEF Spec, SettledIsFinal

-----------------------------------------------------------------------------
(* Sums of entries.                                                         *)

\* Induction over a finite set, by its least counterexample.
LEMMA SetInduction ==
  ASSUME NEW S, IsFiniteSet(S), NEW G,
         \A T \in SUBSET S : (\A x \in T : T \ {x} \in G) => T \in G
  PROVE  S \in G
<1> DEFINE Bad == {T \in FiniteSubsetsOf(S) : T \notin G}
<1> SUFFICES ASSUME S \notin G PROVE FALSE
  OBVIOUS
<1>1. S \in Bad
  BY DEF FiniteSubsetsOf
<1>2. PICK T \in Bad : \A U \in Bad : <<U, T>> \notin StrictSubsetOrdering(S)
  <2>1. IsWellFoundedOn(StrictSubsetOrdering(S), FiniteSubsetsOf(S))
    BY FS_StrictSubsetOrderingWellFounded
  <2>2. Bad \subseteq FiniteSubsetsOf(S) /\ Bad # {}
    BY <1>1
  <2> HIDE DEF Bad
  <2> QED
    BY <2>1, <2>2, WFMin
<1>3. T \in SUBSET S /\ IsFiniteSet(T) /\ T \notin G
  BY DEF FiniteSubsetsOf
<1>4. ASSUME NEW x \in T PROVE T \ {x} \in G
  <2>1. T \ {x} \in FiniteSubsetsOf(S)
    BY <1>3, FS_RemoveElement DEF FiniteSubsetsOf
  <2>2. <<T \ {x}, T>> \in StrictSubsetOrdering(S)
    BY <1>3 DEF StrictSubsetOrdering
  <2> QED
    BY <1>2, <2>1, <2>2
<1> QED
  BY <1>3, <1>4

\* The sum of the cents of every subset of S, whatever the order of its summands.
IsSum(m, S) ==
  /\ m \in [SUBSET S -> Nat]
  /\ m[{}] = 0
  /\ \A T \in SUBSET S : \A x \in T : m[T] = x.cents + m[T \ {x}]
  /\ \A T \in SUBSET S : \A U \in SUBSET T : m[U] <= m[T]

LEMMA SumExists == ASSUME NEW S \in SUBSET Entries, IsFiniteSet(S) PROVE \E m : IsSum(m, S)
<1> DEFINE G == {T \in SUBSET S : \E m : IsSum(m, T)}
<1>1. {} \in G
  <2>1. IsSum([T \in SUBSET {} |-> 0], {})
    BY DEF IsSum
  <2> QED
    BY <2>1
<1>2. ASSUME NEW T \in SUBSET S, NEW e \in S \ T, T \in G PROVE T \cup {e} \in G
  <2> PICK m : IsSum(m, T)
    BY <1>2
  <2> DEFINE d(U) == IF e \in U THEN e.cents ELSE 0
             n == [U \in SUBSET (T \cup {e}) |-> m[U \ {e}] + d(U)]
  <2>1. e.cents \in Nat
    BY DEF Entries
  <2>2. ASSUME NEW U \in SUBSET (T \cup {e})
        PROVE  U \ {e} \in SUBSET T /\ n[U] = m[U \ {e}] + d(U) /\ m[U \ {e}] \in Nat /\ d(U) \in Nat
    BY <2>1 DEF IsSum
  <2>3. n \in [SUBSET (T \cup {e}) -> Nat] /\ n[{}] = 0
    BY <2>1, <2>2 DEF IsSum
  <2>4. ASSUME NEW U \in SUBSET (T \cup {e}), NEW x \in U PROVE n[U] = x.cents + n[U \ {x}]
    <3>1. U \ {x} \in SUBSET (T \cup {e})
      OBVIOUS
    <3>2. n[U \ {x}] = m[(U \ {x}) \ {e}] + d(U \ {x}) /\ n[U] = m[U \ {e}] + d(U)
      BY <2>2, <3>1
    <3>3. m[(U \ {x}) \ {e}] \in Nat /\ m[U \ {e}] \in Nat /\ x.cents \in Nat
      BY <2>2, <3>1 DEF Entries
    <3>4. CASE x = e
      <4>1. (U \ {x}) \ {e} = U \ {e} /\ d(U) = x.cents /\ d(U \ {x}) = 0
        BY <3>4
      <4> QED
        BY <3>2, <3>3, <4>1
    <3>5. CASE x # e
      <4>1. (U \ {x}) \ {e} = (U \ {e}) \ {x} /\ d(U) = d(U \ {x}) /\ x \in U \ {e}
        BY <3>5
      <4>2. m[U \ {e}] = x.cents + m[(U \ {e}) \ {x}]
        BY <2>2, <4>1 DEF IsSum
      <4>3. d(U) \in Nat
        BY <2>1
      <4> HIDE DEF d, n
      <4> QED
        BY <3>2, <3>3, <4>1, <4>2, <4>3
    <3> QED
      BY <3>4, <3>5
  <2>5. ASSUME NEW U \in SUBSET (T \cup {e}), NEW V \in SUBSET U PROVE n[V] <= n[U]
    <3>1. V \in SUBSET (T \cup {e}) /\ V \ {e} \in SUBSET (U \ {e})
      OBVIOUS
    <3>2. m[V \ {e}] <= m[U \ {e}]
      BY <2>2, <3>1 DEF IsSum
    <3>3. d(V) <= d(U)
      BY <2>1
    <3>4. /\ n[U] = m[U \ {e}] + d(U) /\ m[U \ {e}] \in Nat /\ d(U) \in Nat
          /\ n[V] = m[V \ {e}] + d(V) /\ m[V \ {e}] \in Nat /\ d(V) \in Nat
      BY <2>2, <3>1
    <3> HIDE DEF d, n
    <3> QED
      BY <3>2, <3>3, <3>4
  <2>6. IsSum(n, T \cup {e})
    <3> HIDE DEF n
    <3> QED
      BY <2>3, <2>4, <2>5 DEF IsSum
  <2> QED
    BY <2>6
<1>3. ASSUME NEW T \in SUBSET S, \A x \in T : T \ {x} \in G PROVE T \in G
  <2>1. CASE T = {}
    BY <1>1, <2>1
  <2>2. CASE T # {}
    <3> PICK e \in T : T \ {e} \in G
      BY <1>3, <2>2
    <3>1. (T \ {e}) \cup {e} = T /\ e \in S \ (T \ {e}) /\ T \ {e} \in SUBSET S
      OBVIOUS
    <3> HIDE DEF G
    <3> QED
      BY <1>2, <3>1
  <2> QED
    BY <2>1, <2>2
<1>4. S \in G
  <2> HIDE DEF G
  <2> QED
    BY <1>3, SetInduction
<1> QED
  BY <1>4

\* What CentsOf computes, summand by summand.
Folded(g, S) == g = [s \in SUBSET S |-> IF s = {} THEN 0
                       ELSE (CHOOSE x \in s : TRUE).cents + g[s \ {CHOOSE x \in s : TRUE}]]

LEMMA SumIsUnique ==
  ASSUME NEW S \in SUBSET Entries, IsFiniteSet(S), NEW m, IsSum(m, S), NEW g, Folded(g, S)
  PROVE  g[S] = m[S]
<1> DEFINE G == {T \in SUBSET S : g[T] = m[T]}
<1>1. ASSUME NEW T \in SUBSET S, \A x \in T : T \ {x} \in G PROVE T \in G
  <2>1. CASE T = {}
    BY <2>1 DEF Folded, IsSum
  <2>2. CASE T # {}
    <3>1. PICK x \in T : g[T] = x.cents + g[T \ {x}]
      BY <2>2 DEF Folded
    <3>2. m[T] = x.cents + m[T \ {x}]
      BY DEF IsSum
    <3> QED
      BY <1>1, <3>1, <3>2
  <2> QED
    BY <2>1, <2>2
<1>2. S \in G
  <2> HIDE DEF G
  <2> QED
    BY <1>1, SetInduction
<1> QED
  BY <1>2

LEMMA CentsOfIsSum ==
  ASSUME NEW S \in SUBSET Entries, IsFiniteSet(S), NEW m, IsSum(m, S)
  PROVE  CentsOf(S) = m[S]
<1>1. Folded(m, S)
  <2> DEFINE h == [s \in SUBSET S |-> IF s = {} THEN 0
                     ELSE (CHOOSE x \in s : TRUE).cents + m[s \ {CHOOSE x \in s : TRUE}]]
  <2>1. ASSUME NEW T \in SUBSET S PROVE m[T] = h[T]
    BY DEF IsSum
  <2>2. m = h
    BY <2>1 DEF IsSum
  <2> QED
    BY <2>2 DEF Folded
<1>2. Folded(CHOOSE g : Folded(g, S), S)
  BY <1>1
<1>3. CentsOf(S) = (CHOOSE g : Folded(g, S))[S]
  BY DEF CentsOf, MapThenSumSet, MapThenFoldSet, Folded
<1> QED
  BY <1>2, <1>3, SumIsUnique

\* A sum is a natural number, the cents of an entry are a sum, and more entries sum up to
\* no less.
LEMMA Sums ==
  ASSUME NEW S \in SUBSET Entries, IsFiniteSet(S)
  PROVE  /\ CentsOf(S) \in Nat
         /\ S = {} => CentsOf(S) = 0
         /\ \A e : S = {e} => CentsOf(S) = e.cents
         /\ \A T \in SUBSET S : CentsOf(T) <= CentsOf(S)
<1>1. PICK m : IsSum(m, S)
  BY SumExists
<1>2. ASSUME NEW T \in SUBSET S PROVE CentsOf(T) = m[T]
  <2> DEFINE n == [U \in SUBSET T |-> m[U]]
  <2>1. IsSum(n, T)
    BY <1>1 DEF IsSum
  <2>2. IsFiniteSet(T) /\ T \in SUBSET Entries /\ n[T] = m[T]
    BY FS_Subset
  <2> HIDE DEF n
  <2> QED
    BY <2>1, <2>2, CentsOfIsSum
<1>3. ASSUME NEW e, S = {e} PROVE m[S] = e.cents
  <2>1. m[S] = e.cents + m[S \ {e}] /\ S \ {e} = {} /\ m[{}] = 0 /\ e.cents \in Nat
    BY <1>1, <1>3 DEF IsSum, Entries
  <2> QED
    BY <2>1
<1> QED
  BY <1>1, <1>2, <1>3 DEF IsSum

-----------------------------------------------------------------------------
(* What an order is bought for.                                            *)

\* Entries of short payments and what is, or is about to be, taken back for them.
Backed ==
  /\ IsFiniteSet(booked)
  /\ \A e \in booked : rows[e.row].status = "UNDERPAID" => e.key \in {"underpaid", "reclaim"}
  /\ \A e \in booked : e.key = "reclaim" => e.cents <= CentsOf(ShortCredits(orderOf(e.row)))
  /\ \A s \in Sweeps : sweep[s].pc = "complete" =>
       sweep[s].ask <= sent[sweep[s].tx] + CentsOf(ShortCredits(orderOf(sweep[s].row))) * CentsToUsdt6

LEMMA CentsAreMonotone ==
  ASSUME NEW x \in Nat, NEW y \in Nat, x <= y
  PROVE  x * CentsToUsdt6 \in Nat /\ x * CentsToUsdt6 <= y * CentsToUsdt6
<1> DEFINE c == CentsToUsdt6
<1>1. c \in Nat
  BY UnitsAssumption
<1>2. PICK z \in Nat : y = x + z
  <2>1. y - x \in Nat /\ y = x + (y - x)
    OBVIOUS
  <2> QED
    BY <2>1
<1> HIDE DEF c
<1>3. x * c \in Nat /\ z * c \in Nat
  BY <1>1
<1>4. (x + z) * c = x * c + z * c
  BY <1>1, SMTT(30)
<1> QED
  BY <1>2, <1>3, <1>4 DEF c

\* What credits cover in whole cents, the remainder in whole cents does not exceed.
LEMMA RemainderIsBacked ==
  ASSUME NEW a \in Nat, a > 0, NEW n \in Nat, a <= n * CentsToUsdt6
  PROVE  wholeCentsUp(a) <= n
<1> DEFINE d == CentsToUsdt6
           b == a + d - 1
           q == b \div d
           r == b % d
<1>1. d \in Nat /\ d > 0 /\ b \in Nat
  BY UnitsAssumption
<1> HIDE DEF d, b
<1>2. q \in Nat /\ r \in 0 .. d - 1 /\ b = d * q + r
  BY ONLY <1>1, Division
<1> HIDE DEF q, r
<1> SUFFICES ASSUME q > n PROVE FALSE
  BY <1>2 DEF wholeCentsUp, q, b, d
<1>3. (n + 1) * d <= q * d
  BY <1>2, CentsAreMonotone DEF d
<1>4. (n + 1) * d = n * d + d /\ q * d = d * q
  BY <1>1, <1>2, SMTT(30)
<1> DEFINE p == d * q
           m == n * d
<1>5. p \in Int /\ m \in Int
  BY <1>1, <1>2
<1>6. b = p + r /\ m + d <= p /\ a <= m
  BY <1>2, <1>3, <1>4 DEF d
<1> HIDE DEF p, m
<1> QED
  BY <1>1, <1>2, <1>5, <1>6 DEF b

\* An entry stays with its order, so that what was credited for an order grows.
LEMMA CreditsGrow ==
  ASSUME Core, Core', Keeps, booked \subseteq booked', IsFiniteSet(booked), IsFiniteSet(booked'), NEW o
  PROVE  /\ CentsOf(ShortCredits(o)) \in Nat /\ CentsOf(ShortCredits(o)') \in Nat
         /\ CentsOf(ShortCredits(o)) <= CentsOf(ShortCredits(o)')
<1>1. ASSUME NEW e \in booked PROVE orderOf(e.row)' = orderOf(e.row) /\ e.row \in RowIds
  <2>1. EntryIsRight(e) /\ e.row \in RowIds
    BY DEF Core, BooksInv, Types, Entries
  <2>2. rows'[e.row].inv = rows[e.row].inv
    BY <2>1 DEF EntryIsRight, SettledStatuses, Keeps
  <2> QED
    BY <2>1, <2>2 DEF orderOf
<1> PICK S, T : S = ShortCredits(o) /\ T = ShortCredits(o)'
  OBVIOUS
<1>2. S \subseteq booked /\ T \subseteq booked' /\ S \subseteq T
  BY <1>1 DEF ShortCredits
<1>3. T \in SUBSET Entries /\ S \in SUBSET Entries /\ S \in SUBSET T
  BY <1>2 DEF Core, Types
<1>4. IsFiniteSet(S) /\ IsFiniteSet(T)
  BY <1>2, FS_Subset
<1>5. CentsOf(S) \in Nat /\ CentsOf(T) \in Nat /\ CentsOf(S) <= CentsOf(T)
  BY <1>3, <1>4, Sums
<1> QED
  BY <1>5

LEMMA PaidInFull ==
  ASSUME IInv, Backed, NEW i \in Invoices, NEW o \in Orders, OrderOf[i] = o, payer[o] \in Transfers
  PROVE  sent[payer[o]] + CentsOf(ReclaimedFor(o)) * CentsToUsdt6 >= Ask[i]
<1> SUFFICES ASSUME NEW t, NEW R, t = payer[o], R = ReclaimedFor(o)
             PROVE  sent[t] + CentsOf(R) * CentsToUsdt6 >= Ask[i]
  OBVIOUS
<1>1. R \in SUBSET Entries /\ IsFiniteSet(R)
  BY FS_Subset DEF IInv, Core, Types, Backed, ReclaimedFor
<1>2. CentsOf(R) \in Nat /\ CentsOf(R) * CentsToUsdt6 \in Nat
  BY <1>1, Sums, CentsAreMonotone
<1>3. sent[t] \in Nat /\ Ask[i] \in Nat
  BY AskAssumption DEF IInv, Core, Types
<1>4. CASE sent[t] >= Ask[i]
  BY <1>2, <1>3, <1>4
<1>5. CASE \E e \in R : sent[t] + e.cents * CentsToUsdt6 >= Ask[i]
  <2> PICK e \in R : sent[t] + e.cents * CentsToUsdt6 >= Ask[i]
    BY <1>5
  <2>1. {e} \in SUBSET R /\ IsFiniteSet({e}) /\ {e} \in SUBSET Entries
    BY <1>1, FS_Singleton
  <2>2. CentsOf({e}) = e.cents /\ CentsOf({e}) <= CentsOf(R) /\ e.cents \in Nat
    BY <1>1, <2>1, Sums DEF Entries
  <2>3. e.cents * CentsToUsdt6 \in Nat /\ e.cents * CentsToUsdt6 <= CentsOf(R) * CentsToUsdt6
    BY <1>2, <2>2, CentsAreMonotone
  <2> QED
    BY <1>2, <1>3, <2>3
<1>6. sent[t] >= Ask[i] \/ \E e \in R : sent[t] + e.cents * CentsToUsdt6 >= Ask[i]
  BY DEF IInv, Core, CoveredInv, Covers, ReclaimedFor
<1> QED
  BY <1>4, <1>5, <1>6

-----------------------------------------------------------------------------
(* What is taken back for an order was credited for it.                    *)

\* Only the sum of the earlier credits sends a sweep to settle a completed order.
LEMMA OnlyBySum ==
  ASSUME IInv, NEW s \in Sweeps, (Work(s) /\ ~priorRead(s)) \/ TransferFails(s) \/ SweepDies(s),
         NEW z \in Sweeps, sweep'[z].pc = "complete"
  PROVE  sweep'[z] = sweep[z]
<1> PICK u : u = sweep[s]
  OBVIOUS
<1>1. IsSweep(u)
  BY Sweeping
<1>2. ASSUME NEW w, sweep' = [sweep EXCEPT ![s] = w], w.pc # "complete" PROVE sweep'[z] = sweep[z]
  BY <1>2 DEF IInv
<1>3. ASSUME NEW w, IsSweep(w) PROVE Rest(w).pc = w.pc
  BY <1>3 DEF Rest, IsSweep
<1>4. ASSUME NEW T \in SUBSET u.todo, Continue(s, T) PROVE sweep'[z] = sweep[z]
  <2>1. IsSweep(Onward(u, T)) /\ Onward(u, T).pc = "next"
    BY <1>1 DEF Onward, IsSweep, Labels
  <2>2. sweep' = [sweep EXCEPT ![s] = Rest(Onward(u, T))]
    BY <1>4 DEF Continue, Onward, IInv
  <2> QED
    BY <1>2, <1>3, <2>1, <2>2
<1>5. ASSUME NextTransfer(s) PROVE sweep'[z] = sweep[z]
  <2>1. u.todo \in SUBSET u.todo /\ Continue(s, u.todo)
    BY <1>5 DEF NextTransfer
  <2> QED
    BY <1>4, <2>1
<1>6. ASSUME NEW label, label # "complete", Goto(s, label) PROVE sweep'[z] = sweep[z]
  <2>1. sweep' = [sweep EXCEPT ![s] = [u EXCEPT !.pc = label]] /\ [u EXCEPT !.pc = label].pc = label
    BY <1>1, <1>6 DEF Goto, IsSweep, IInv
  <2> QED
    BY <1>2, <1>6, <2>1
<1>7. ASSUME NEW r, NEW closed, NEW ask, NEW a
      PROVE  Route(r, closed, ask, a) \in Labels \ {"complete"}
  BY DEF Route, Labels
<1>8. CASE Begin(s) \/ LoadCandidates(s)
  <2>1. ASSUME Begin(s) PROVE sweep'[z] = sweep[z]
    <3>1. sweep'[s].pc = "load" /\ (z # s => sweep'[z] = sweep[z])
      BY <2>1 DEF Begin, IdleSweep, IInv
    <3> QED
      BY <3>1
  <2>2. ASSUME LoadCandidates(s) PROVE sweep'[z] = sweep[z]
    <3>1. sweep'[s].pc = "next" /\ (z # s => sweep'[z] = sweep[z])
      BY <1>1, <2>2 DEF LoadCandidates, IInv, IsSweep
    <3> QED
      BY <3>1
  <2> QED
    BY <1>8, <2>1, <2>2
<1>9. CASE Reread(s)
  <2>1. CASE NextTransfer(s)
    BY <1>5, <2>1
  <2>2. ASSUME NEW label \in Labels \ {"complete"}, sweep' = [sweep EXCEPT ![s] = Rest([@ EXCEPT !.pc = label])]
        PROVE  sweep'[z] = sweep[z]
    <3>1. IsSweep([u EXCEPT !.pc = label]) /\ [u EXCEPT !.pc = label].pc = label
      BY <1>1 DEF IsSweep
    <3>2. sweep' = [sweep EXCEPT ![s] = Rest([u EXCEPT !.pc = label])]
      BY <2>2 DEF IInv
    <3> QED
      BY <1>2, <1>3, <3>1, <3>2
  <2>3. NextTransfer(s) \/ \E label \in Labels \ {"complete"} :
          sweep' = [sweep EXCEPT ![s] = Rest([@ EXCEPT !.pc = label])]
    BY <1>7, <1>9 DEF Reread
  <2> QED
    BY <2>1, <2>2, <2>3
<1>10. CASE SweepDies(s) \/ \E old \in SUBSET PaidOrders : Finish(s, old)
  <2>1. sweep' = [sweep EXCEPT ![s] = IdleSweep]
    BY <1>10 DEF SweepDies, Finish
  <2>2. IdleSweep.pc # "complete"
    BY DEF IdleSweep
  <2> QED
    BY <1>2, <2>1, <2>2
<1>11. CASE flagDoublePaid(s) \/ enqueueDelivery(s) \/ TransferFails(s)
  BY <1>5, <1>11 DEF flagDoublePaid, enqueueDelivery, TransferFails
<1>12. CASE settleOrderPaid(s) \/ settleOrderCompleted(s)
  <2>1. CASE Stale(s) \/ Closed(s) \/ settlePaid(s)
    BY <1>5, <1>6, <2>1 DEF Stale, Closed, settlePaid
  <2>2. CASE sweep' = [sweep EXCEPT ![s].pc = "under", ![s].eff = received(s)]
    <3>1. sweep'[s].pc = "under" /\ (z # s => sweep'[z] = sweep[z])
      BY <1>1, <2>2 DEF IInv, IsSweep
    <3> QED
      BY <3>1
  <2> QED
    BY <1>12, <2>1, <2>2 DEF settleOrderPaid, settleOrderCompleted
<1>13. CASE settleUnderpaid(s) \/ settleLate(s) \/ settleTopup(s)
  BY <1>5, <1>6, <1>13 DEF settleUnderpaid, settleLate, settleTopup, Stale
<1>14. ASSUME NEW t \in Transfers, Skip(s, t) \/ flagUnmatched(s, t) PROVE sweep'[z] = sweep[z]
  <2>1. u.todo \ {t} \in SUBSET u.todo /\ Continue(s, u.todo \ {t})
    BY <1>14 DEF Skip, flagUnmatched
  <2> QED
    BY <1>4, <2>1
<1>15. ASSUME NEW t \in Transfers, Resume(s, t) PROVE sweep'[z] = sweep[z]
  <2> DEFINE label(r, ask) == Route(u.known[r], OrderOf[u.known[r].inv] \in u.closed, ask, sent[t])
  <2>0. PICK r, ask :
          sweep' = [sweep EXCEPT ![s] = Rest([u EXCEPT !.todo = @ \ {t}, !.tx = t, !.row = r,
                                                       !.ask = ask, !.pc = label(r, ask)])]
    BY <1>15 DEF Resume
  <2> HIDE DEF label
  <2>1. PICK l : l = label(r, ask)
    OBVIOUS
  <2> PICK w : w = [u EXCEPT !.todo = @ \ {t}, !.tx = t, !.row = r, !.ask = ask, !.pc = l]
    OBVIOUS
  <2>2. Rest(w).pc = l
    BY <1>1 DEF Rest, IsSweep
  <2>3. l # "complete"
    BY <1>7, <2>1 DEF label
  <2> QED
    BY <1>2, <2>0, <2>1, <2>2, <2>3
<1>16. ASSUME NEW t \in Transfers, Bind(s, t) \/ BindAnother(s, t) PROVE sweep'[z] = sweep[z]
  <2>1. ASSUME NEW c, NEW r, Take(s, t, c, r, "reread") PROVE sweep'[z] = sweep[z]
    <3>1. sweep'[s].pc = "reread" /\ (z # s => sweep'[z] = sweep[z])
      BY <1>1, <2>1 DEF Take, IInv, IsSweep
    <3> QED
      BY <3>1
  <2>2. u.todo \ {t} \in SUBSET u.todo
    OBVIOUS
  <2> QED
    BY <1>4, <1>16, <2>1, <2>2 DEF Bind, BindAnother
<1> QED
  BY <1>8, <1>9, <1>10, <1>11, <1>12, <1>13, <1>14, <1>15, <1>16 DEF Work

LEMMA BackedStays ==
  ASSUME IInv, IInv', Keeps, Backed, booked \subseteq booked', IsFiniteSet(booked'),
         \A e \in booked' \ booked :
           /\ rows'[e.row].status = "UNDERPAID" => e.key \in {"underpaid", "reclaim"}
           /\ e.key = "reclaim" => e.cents <= CentsOf(ShortCredits(orderOf(e.row)))',
         \A s \in Sweeps : sweep'[s].pc = "complete" =>
           \/ sweep'[s] = sweep[s]
           \/ (sweep[s].ask <= sent[sweep[s].tx] + CentsOf(ShortCredits(orderOf(sweep[s].row))) * CentsToUsdt6)'
  PROVE  Backed'
<1>1. Core /\ Core' /\ IsFiniteSet(booked)
  BY DEF IInv, Backed
<1>2. ASSUME NEW e \in booked
      PROVE  /\ orderOf(e.row)' = orderOf(e.row) /\ e \in Entries
             /\ rows'[e.row].status = "UNDERPAID" => rows[e.row].status = "UNDERPAID"
  <2>1. EntryIsRight(e) /\ e.row \in RowIds /\ e \in Entries
    BY <1>1 DEF Core, BooksInv, Types, Entries
  <2>2. rows[e.row].status \in {"UNDERPAID", "PAID"}
    BY <2>1 DEF EntryIsRight, SettledStatuses
  <2>3. rows'[e.row].inv = rows[e.row].inv /\ rows[e.row].status = "PAID" => rows'[e.row].status = "PAID"
    BY <2>1, <2>2 DEF Keeps
  <2>4. rows'[e.row].inv = rows[e.row].inv
    BY <2>1, <2>2 DEF Keeps
  <2> QED
    BY <2>1, <2>2, <2>3, <2>4 DEF orderOf
<1>3. ASSUME NEW e \in booked', e.key = "reclaim"
      PROVE  e.cents <= CentsOf(ShortCredits(orderOf(e.row)))'
  <2>1. CASE e \notin booked
    BY <1>3, <2>1
  <2>2. CASE e \in booked
    <3> PICK o : o = orderOf(e.row)
      OBVIOUS
    <3>1. e.cents <= CentsOf(ShortCredits(o)) /\ e.cents \in Nat /\ orderOf(e.row)' = o
      BY <1>2, <1>3, <2>2 DEF Backed, Entries
    <3>2. CentsOf(ShortCredits(o)) \in Nat /\ CentsOf(ShortCredits(o)') \in Nat
          /\ CentsOf(ShortCredits(o)) <= CentsOf(ShortCredits(o)')
      BY <1>1, CreditsGrow
    <3>3. e.cents <= CentsOf(ShortCredits(o)')
      BY <3>1, <3>2
    <3> QED
      BY <3>1, <3>3
  <2> QED
    BY <2>1, <2>2
<1>4. ASSUME NEW s \in Sweeps, sweep'[s].pc = "complete", sweep'[s] = sweep[s]
      PROVE  (sweep[s].ask <= sent[sweep[s].tx]
                + CentsOf(ShortCredits(orderOf(sweep[s].row))) * CentsToUsdt6)'
  <2> PICK w, o : w = sweep[s] /\ o = orderOf(w.row)
    OBVIOUS
  <2>1. w.tx \in Transfers /\ w.row \in RowIds /\ rows[w.row].tx = w.tx /\ w.ask \in Nat
    BY <1>4, Sweeping DEF Sound, IsSweep, Settles, Steps, Labels
  <2>2. sent[w.tx] \in Nat /\ sent'[w.tx] = sent[w.tx] /\ orderOf(w.row)' = o
    <3>1. rows[w.row].status # "absent" /\ sent[w.tx] # 0
      BY <1>1, <2>1, TransferIsNumber DEF Core, RowsInv, RowIsRight
    <3> QED
      BY <1>1, <2>1, <3>1 DEF Core, Types, Keeps, orderOf
  <2> PICK x, y : x = CentsOf(ShortCredits(o)) /\ y = CentsOf(ShortCredits(o)')
    OBVIOUS
  <2>3. x \in Nat /\ y \in Nat /\ x <= y
    BY <1>1, CreditsGrow
  <2>4. w.ask <= sent[w.tx] + x * CentsToUsdt6
    BY <1>4 DEF Backed
  <2>5. x * CentsToUsdt6 \in Nat /\ x * CentsToUsdt6 <= y * CentsToUsdt6 /\ y * CentsToUsdt6 \in Nat
    BY <2>3, CentsAreMonotone
  <2>6. w.ask <= sent'[w.tx] + y * CentsToUsdt6
    BY <2>1, <2>2, <2>4, <2>5
  <2> QED
    BY <1>4, <2>2, <2>6
<1> QED
  BY <1>2, <1>3, <1>4 DEF Backed

\* A step that reads the sum, or does not.
LEMMA Summing ==
  ASSUME IInv, Backed, NEW s \in Sweeps, priorRead(s), sweep'[s].pc = "complete"
  PROVE  (sweep[s].ask <= sent[sweep[s].tx] + CentsOf(ShortCredits(orderOf(sweep[s].row))) * CentsToUsdt6)'
<1> PICK w, o : w = sweep[s] /\ o = orderOf(w.row)
  OBVIOUS
<1>1. w.tx \in Transfers /\ w.ask \in Nat /\ sent[w.tx] \in Nat /\ w.row \in RowIds
      /\ w.row = row(s) /\ w.tx = tx(s) /\ theOrder(s) = o /\ OrderOf[rows[w.row].inv] = o
      /\ received(s) = sent[w.tx]
  BY Sweeping DEF priorRead, At, Sound, IsSweep, Settles, Steps, Labels, IInv, Core, Types, row, tx,
                  theOrder, received, orderOf
<1>2. o \in Orders
  BY <1>1, Sweeping DEF priorRead, At, Sound, Settles, OrderSteps, Steps, Labels
<1> DEFINE P == {e \in booked : e.key # "reclaim" /\ e.row \in shortRows(o)}
           Q == ShortCredits(o)
<1>3. P \in SUBSET Q /\ Q \in SUBSET Entries /\ P \in SUBSET Entries /\ Q \in SUBSET booked
  BY DEF Backed, shortRows, ShortCredits, IInv, Core, Types
<1>4. IsFiniteSet(P) /\ IsFiniteSet(Q)
  BY <1>3, FS_Subset DEF Backed
<1> PICK x, y : x = CentsOf(P) /\ y = CentsOf(Q)
  OBVIOUS
<1>5. x \in Nat /\ y \in Nat /\ x <= y /\ x = priorUnderpaidCents(o)
  <2>1. x \in Nat /\ y \in Nat /\ x <= y
    BY <1>3, <1>4, Sums
  <2>2. x = priorUnderpaidCents(o)
    BY DEF priorUnderpaidCents, CentsOf
  <2> QED
    BY <2>1, <2>2
<1>6. x * CentsToUsdt6 \in Nat /\ x * CentsToUsdt6 <= y * CentsToUsdt6 /\ y * CentsToUsdt6 \in Nat
  BY <1>5, CentsAreMonotone
<1>7. sent[w.tx] + x * CentsToUsdt6 >= w.ask
  BY <1>1, <1>5, Sweeping DEF priorRead, IsSweep, IInv
<1>8. w.ask <= sent[w.tx] + y * CentsToUsdt6
  BY <1>1, <1>5, <1>6, <1>7
<1>9. /\ sweep'[s].ask = w.ask /\ sweep'[s].tx = w.tx /\ sweep'[s].row = w.row
      /\ UNCHANGED <<sent, rows, booked>>
  BY Sweeping DEF priorRead, IsSweep, IInv, shop
<1>10. orderOf(w.row)' = o /\ ShortCredits(o)' = Q
  BY <1>1, <1>9 DEF ShortCredits, orderOf
<1> QED
  BY <1>8, <1>9, <1>10

LEMMA Booking ==
  ASSUME IInv, IInv', Keeps, Backed, NEW s \in Sweeps, Work(s)
  PROVE  /\ booked \subseteq booked' /\ IsFiniteSet(booked')
         /\ \A e \in booked' \ booked :
              /\ rows'[e.row].status = "UNDERPAID" => e.key \in {"underpaid", "reclaim"}
              /\ e.key = "reclaim" => e.cents <= CentsOf(ShortCredits(orderOf(e.row)))'
<1>1. CASE UNCHANGED booked
  BY <1>1 DEF Backed
<1>2. ASSUME NEW e, booked' = booked \cup {e},
             rows'[e.row].status = "UNDERPAID" => e.key \in {"underpaid", "reclaim"},
             e.key = "reclaim" => e.cents <= CentsOf(ShortCredits(orderOf(e.row)))'
      PROVE  /\ booked \subseteq booked' /\ IsFiniteSet(booked')
             /\ \A x \in booked' \ booked :
                  /\ rows'[x.row].status = "UNDERPAID" => x.key \in {"underpaid", "reclaim"}
                  /\ x.key = "reclaim" => x.cents <= CentsOf(ShortCredits(orderOf(x.row)))'
  BY <1>2, FS_AddElement DEF Backed
<1>3. ASSUME NEW key, NEW st, NEW a, NEW cents, credit(s, key, cents), Claimable(s),
             sweep[s].pc \in Steps, rows' = claimPayment(s, st, a), key # "reclaim",
             st = "UNDERPAID" => key = "underpaid"
      PROVE  /\ booked \subseteq booked' /\ IsFiniteSet(booked')
             /\ \A x \in booked' \ booked :
                  /\ rows'[x.row].status = "UNDERPAID" => x.key \in {"underpaid", "reclaim"}
                  /\ x.key = "reclaim" => x.cents <= CentsOf(ShortCredits(orderOf(x.row)))'
  <2> PICK e : e = [key |-> key, row |-> row(s), cents |-> cents]
    OBVIOUS
  <2>1. UNCHANGED booked \/ booked' = booked \cup {e}
    BY <1>3 DEF credit
  <2>2. row(s) \in RowIds /\ rows \in [RowIds -> Rows]
    BY <1>3, Claimed DEF IInv, Core, Types
  <2>3. rows'[row(s)].status = st
    BY <1>3, <2>2 DEF claimPayment, Rows
  <2>4. e.key # "reclaim" /\ (rows'[e.row].status = "UNDERPAID" => e.key = "underpaid")
    BY <1>3, <2>3
  <2> QED
    BY <1>1, <1>2, <2>1, <2>4
<1>4. CASE settleOrderCompleted(s) /\ ~UNCHANGED booked
  <2>1. /\ sweep[s].pc = "complete" /\ status[theOrder(s)] = "PENDING" /\ Claimable(s)
        /\ booked' = booked \cup {[key |-> "reclaim", row |-> row(s), cents |-> needed(s)]}
    BY <1>4 DEF settleOrderCompleted, At, Stale, Closed, shop
  <2> PICK R, o, n : R = row(s) /\ o = orderOf(R) /\ n = needed(s)
    OBVIOUS
  <2>2. R \in RowIds /\ R = sweep[s].row /\ rows[R].status = "CONFIRMING" /\ received(s) \in Nat
        /\ received(s) = sent[sweep[s].tx] /\ sweep[s].ask \in Nat /\ received(s) < sweep[s].ask
    BY <2>1, Claimed, AskIsKnown DEF Steps, Labels, received, tx
  <2>3. orderOf(R)' = o
    BY <2>2 DEF Keeps, orderOf
  <2> PICK x, y : x = CentsOf(ShortCredits(o)) /\ y = CentsOf(ShortCredits(o)')
    OBVIOUS
  <2>4. booked \subseteq booked' /\ IsFiniteSet(booked) /\ IsFiniteSet(booked')
    BY <2>1, FS_AddElement DEF Backed
  <2>5. x \in Nat /\ y \in Nat /\ x <= y
    BY <2>4, CreditsGrow DEF IInv
  <2>6. sweep[s].ask <= sent[sweep[s].tx] + x * CentsToUsdt6
    BY <2>1, <2>2 DEF Backed
  <2> PICK a, p : a = sweep[s].ask - received(s) /\ p = x * CentsToUsdt6
    OBVIOUS
  <2>7. a \in Nat /\ a > 0 /\ a <= p
    <3>1. p \in Nat
      BY <2>5, CentsAreMonotone
    <3> QED
      BY <2>2, <2>6, <3>1
  <2>8. n = wholeCentsUp(a) /\ wholeCentsUp(a) \in Nat /\ wholeCentsUp(a) <= x
    BY <2>5, <2>7, RemainderIsBacked, RemainderCovers DEF needed
  <2> PICK e : e = [key |-> "reclaim", row |-> R, cents |-> n]
    OBVIOUS
  <2>9. booked' = booked \cup {e} /\ e.key = "reclaim" /\ e.row = R /\ e.cents = n /\ n <= y
    BY <2>1, <2>5, <2>8
  <2>10. e.cents <= CentsOf(ShortCredits(orderOf(e.row)))'
    BY <2>3, <2>9
  <2> QED
    BY <1>2, <2>9, <2>10
<1>5. CASE settleOrderPaid(s) \/ settleUnderpaid(s) \/ settleLate(s) \/ settleTopup(s)
  <2>1. sweep[s].pc \in Steps
    BY <1>5 DEF settleOrderPaid, settleUnderpaid, settleLate, settleTopup, At, Steps, Labels
  <2>2. CASE Stale(s) \/ Closed(s)
    BY <1>1, <2>2 DEF Stale, Closed, shop
  <2>3. CASE ~(Stale(s) \/ Closed(s))
    BY <1>3, <1>5, <2>1, <2>3 DEF settleOrderPaid, settleUnderpaid, settleLate, settleTopup
  <2> QED
    BY <2>2, <2>3
<1>6. CASE ~(settleOrderPaid(s) \/ settleUnderpaid(s) \/ settleLate(s) \/ settleTopup(s)
             \/ settleOrderCompleted(s))
  BY <1>1, <1>6 DEF Work, Begin, LoadCandidates, Skip, Resume, flagUnmatched, Bind, BindAnother, Reread,
                    priorRead, flagDoublePaid, enqueueDelivery, Finish, shop
<1> QED
  BY <1>1, <1>4, <1>5, <1>6

LEMMA BackedInductive == IInv /\ Backed /\ [Next]_vars => Backed'
<1> SUFFICES ASSUME IInv, Backed, [Next]_vars PROVE Backed'
  OBVIOUS
<1>1. IInv' /\ Keeps
  BY Inductive
<1>2. CASE UNCHANGED <<booked, sweep>>
  BY <1>1, <1>2, BackedStays DEF Backed
<1>3. ASSUME NEW s \in Sweeps, Work(s) PROVE Backed'
  <2>1. ASSUME NEW z \in Sweeps, sweep'[z].pc = "complete"
        PROVE  \/ sweep'[z] = sweep[z]
               \/ (sweep[z].ask <= sent[sweep[z].tx] + CentsOf(ShortCredits(orderOf(sweep[z].row))) * CentsToUsdt6)'
    <3>1. CASE ~priorRead(s)
      BY <1>3, <2>1, <3>1, OnlyBySum
    <3>2. CASE priorRead(s) /\ z = s
      BY <2>1, <3>2, Summing
    <3>3. CASE priorRead(s) /\ z # s
      BY <3>3 DEF priorRead, IInv
    <3> QED
      BY <3>1, <3>2, <3>3
  <2>2. /\ booked \subseteq booked' /\ IsFiniteSet(booked')
        /\ \A e \in booked' \ booked :
             /\ rows'[e.row].status = "UNDERPAID" => e.key \in {"underpaid", "reclaim"}
             /\ e.key = "reclaim" => e.cents <= CentsOf(ShortCredits(orderOf(e.row)))'
    BY <1>1, <1>3, Booking
  <2> QED
    BY <1>1, <2>1, <2>2, BackedStays
<1>4. ASSUME NEW s \in Sweeps, TransferFails(s) \/ SweepDies(s) PROVE Backed'
  <2>1. UNCHANGED booked
    BY <1>4 DEF TransferFails, SweepDies, shop
  <2>2. \A z \in Sweeps : sweep'[z].pc = "complete" => sweep'[z] = sweep[z]
    BY <1>4, OnlyBySum
  <2> QED
    BY <1>1, <2>1, <2>2, BackedStays DEF Backed
<1>5. CASE ~\E s \in Sweeps : Work(s) \/ TransferFails(s) \/ SweepDies(s)
  <2>1. UNCHANGED <<booked, sweep>>
    BY <1>5 DEF Next, vars, shop, Send, PayFromBalance, Lapse, Expire, SpendElsewhere, Age
  <2> QED
    BY <1>2, <2>1
<1> QED
  BY <1>3, <1>4, <1>5

\* The entries of short payments cover what is taken back for them, and what a sweep that
\* has read their sum is about to take back (priorUnderpaidCents(), settle()).
THEOREM BackedAlways == Spec => []Backed
<1>1. Init => Backed
  BY FS_EmptySet DEF Init, Backed, IdleSweep
<1>2. IInv /\ Backed /\ [Next]_vars => Backed'
  BY BackedInductive
<1> QED
  BY <1>1, <1>2, InductiveInvariant, PTL DEF Spec

\* An order is paid back for once: by the row that bought it.
LEMMA OneReclaim ==
  ASSUME Core, NEW o \in Orders, NEW e \in ReclaimedFor(o), NEW f \in ReclaimedFor(o)
  PROVE  e = f
<1>1. /\ e \in booked /\ e.key = "reclaim" /\ e.row \in RowIds /\ rows[e.row].tx = payer[o]
      /\ f \in booked /\ f.key = "reclaim" /\ f.row \in RowIds /\ rows[f.row].tx = payer[o]
      /\ rows[e.row].status \in SettledStatuses
  BY DEF ReclaimedFor, Core, BooksInv, EntryIsRight, Types, Entries
<1>2. rows[e.row].tx # NoTransfer
  BY <1>1 DEF Core, RowsInv, RowIsRight, BoundStatuses, SettledStatuses
<1>3. e.row = f.row
  BY <1>1, <1>2 DEF Core, RowsInv
<1> QED
  BY <1>1, <1>3 DEF Core, BooksInv

LEMMA TakenBack ==
  ASSUME IInv, Backed, NEW o \in Orders
  PROVE  CentsOf(ReclaimedFor(o)) <= CentsOf(ShortCredits(o))
<1> SUFFICES ASSUME NEW R, NEW S, R = ReclaimedFor(o), S = ShortCredits(o)
             PROVE  CentsOf(R) <= CentsOf(S)
  OBVIOUS
<1>1. R \in SUBSET Entries /\ S \in SUBSET Entries /\ IsFiniteSet(R) /\ IsFiniteSet(S)
  BY FS_Subset DEF IInv, Core, Types, Backed, ReclaimedFor, ShortCredits
<1>2. CentsOf(S) \in Nat
  BY <1>1, Sums
<1>3. CASE R = {}
  BY <1>1, <1>2, <1>3, Sums
<1>4. CASE R # {}
  <2> PICK e : e \in R
    BY <1>4
  <2>1. R = {e}
    BY OneReclaim DEF IInv
  <2>2. e.cents <= CentsOf(S)
    BY DEF Backed, ReclaimedFor
  <2> QED
    BY <1>1, <2>1, <2>2, Sums
<1> QED
  BY <1>3, <1>4

\* Goods are never had for less than was asked: the transfer that paid an order, with what
\* was taken back from the balance for it, covers the invoice (settleOrderPaid,
\* settleOrderCompleted and the ask that expectedFor() recovers), however sweeps overlap.
THEOREM OrdersArePaidInFull == Spec => []BoughtIsCovered
<1>1. IInv /\ Backed => BoughtIsCovered
  BY PaidInFull DEF BoughtIsCovered
<1> QED
  BY <1>1, InductiveInvariant, BackedAlways, PTL

\* What is taken back for an order was credited for that order before, in spite of the
\* rounding up of the remainder and of a sum read outside the transaction
\* (priorUnderpaidCents(), settleOrderCompleted).
THEOREM ReclaimsAreBacked == Spec => []ReclaimIsBacked
<1>1. IInv /\ Backed => ReclaimIsBacked
  BY TakenBack DEF ReclaimIsBacked
<1> QED
  BY <1>1, InductiveInvariant, BackedAlways, PTL

-----------------------------------------------------------------------------
(* A remainder that was asked for is recognised.                           *)

\* A row is a short payment, or a transfer has paid its order.
ShortOrSold(r) == orderOf(r) \in Orders /\ (rows[r].status = "UNDERPAID" \/ payer[orderOf(r)] \in Transfers)
Sold(i) == payer[OrderOf[i]] \in Transfers
\* Two short payments share the tag of an invoice.
Ambiguous(i) ==
  /\ rows[i].status = "UNDERPAID"
  /\ \E q \in RowIds \ {i} : rows[q].status = "UNDERPAID" /\ orderOf(q) = OrderOf[i]

\* Why an answer may be in the unmatched pile all the same.
Excused(t, i) == RowOf(t) # {} \/ i \in aged \/ Sold(i) \/ Ambiguous(i)

AnswerIsRight(t, i) ==
  /\ sent[t] # 0 /\ tag(sent[t]) = tag(Ask[i]) /\ ShortOrSold(i)
  /\ Flagged(t) => Excused(t, i)

\* An answer that is left to a sweep finds the short payment it answers.
Awaits(w, i) == i \in aged \/ Sold(i) \/ \E c \in w.cands : c.row = i /\ c.status = "UNDERPAID"
OneOfARow(C) == \A b, c \in C : b.row = c.row => b = c
Hears(w) ==
  /\ w.pc = "under" => w.eff \in Nat /\ w.eff < w.ask
  /\ OneOfARow(w.cands)
  /\ \A c \in w.cands : /\ c.status = "UNDERPAID" => ShortOrSold(c.row)
                        /\ c.row \in Transfers => c.tx # NoTransfer
  /\ w.aged \subseteq aged
  /\ w.pc # "load" => \A a \in answers : a[1] \in w.todo => Awaits(w, a[2])

Heard ==
  /\ answers \subseteq Transfers \X Invoices
  /\ told \in [Invoices -> Nat]
  /\ \A f \in flags : f.tx \in Transfers /\ sent[f.tx] # 0
  /\ \A i \in Invoices : told[i] # 0 => tag(told[i]) = tag(Ask[i]) /\ ShortOrSold(i)
  /\ \A a \in answers : AnswerIsRight(a[1], a[2])
  /\ \A s \in Sweeps : Hears(sweep[s])

\* The tag of a remainder is the tag of the invoice.
LEMMA TagOfRemainder ==
  ASSUME NEW ask \in Nat, NEW eff \in Nat, eff < ask
  PROVE  taggedRemainder(ask, eff) \in Nat /\ tag(taggedRemainder(ask, eff)) = tag(ask)
<1> DEFINE C == CentsToUsdt6
           n == wholeCentsUp(ask - eff)
           r == ask % C
           k == r \div TagUnit
           m == k * TagUnit
<1>1. n \in Nat /\ C \in Nat /\ C > 0 /\ TagUnit \in Nat /\ TagUnit > 0
  <2>1. ask - eff \in Nat /\ ask - eff > 0
    OBVIOUS
  <2> QED
    BY <2>1, RemainderCovers, UnitsAssumption
<1> HIDE DEF n, C
<1>2. r \in 0 .. C - 1
  BY <1>1, Division
<1> HIDE DEF r
<1>3. k \in Nat /\ m \in 0 .. C - 1
  <2> DEFINE j == r % TagUnit
  <2>1. k \in Nat /\ j \in 0 .. TagUnit - 1 /\ r = TagUnit * k + j
    BY <1>1, <1>2, Division
  <2> HIDE DEF k, j
  <2>2. TagUnit * k \in Nat /\ TagUnit * k = k * TagUnit
    BY <1>1, <2>1, SMTT(30)
  <2> DEFINE x == TagUnit * k
  <2> HIDE DEF x
  <2>3. x \in Nat /\ x <= r /\ m = x
    BY <1>1, <1>2, <2>1, <2>2 DEF x
  <2> QED
    BY <1>1, <1>2, <2>1, <2>3
<1>4. n * C \in Nat /\ (n * C + m) % C = m
  <2> HIDE DEF m
  <2> QED
    BY <1>1, <1>3, SMTT(30)
<1>5. (k * TagUnit) \div TagUnit = k
  <2> HIDE DEF k
  <2> QED
    BY <1>1, <1>3, SMTT(30)
<1>6. taggedRemainder(ask, eff) = n * C + m
  BY DEF taggedRemainder, tronTagOfAmountUsdt6, n, C, r
<1>7. tag(ask) = k
  BY DEF tag, tronTagOfAmountUsdt6, C, r
<1>8. tag(taggedRemainder(ask, eff)) = m \div TagUnit
  BY <1>4, <1>6 DEF tag, tronTagOfAmountUsdt6, C
<1> QED
  BY <1>3, <1>4, <1>5, <1>6, <1>7, <1>8

LEMMA StaysShort ==
  ASSUME Types, Keeps, NEW r \in RowIds, rows[r].status # "absent", ShortOrSold(r)
  PROVE  ShortOrSold(r)'
<1>1. rows[r].inv \in Invoices /\ rows'[r].inv = rows[r].inv /\ orderOf(r)' = orderOf(r)
  BY DEF Types, Rows, Keeps, orderOf
<1> QED
  BY <1>1 DEF ShortOrSold, Keeps

LEMMA InvoiceHasRow ==
  ASSUME IInv, NEW i \in Invoices
  PROVE  i \in RowIds /\ rows[i].inv = i /\ rows[i].status # "absent" /\ orderOf(i) = OrderOf[i]
BY DEF IInv, Core, RowsInv, RowIsRight, RowIds, orderOf

\* Steps of the clock and of the customer that matter to an answer.
Listens ==
  /\ aged \subseteq aged'
  /\ \A a \in answers' \ answers : a[1] \in Transfers /\ sent[a[1]] = 0

LEMMA StaysHeard ==
  ASSUME IInv, Heard, Keeps, Listens, NEW w, IsSweep(w), Reads(w), Hears(w)
  PROVE  Hears(w)'
<1>1. ASSUME NEW c \in w.cands, c.status = "UNDERPAID" PROVE ShortOrSold(c.row)'
  BY <1>1, StaysShort DEF Hears, Reads, CandIsRight, IsSweep, IInv, Core
<1>2. ASSUME w.pc # "load", NEW a \in answers', a[1] \in w.todo PROVE Awaits(w, a[2])'
  <2>1. a \in answers /\ a[2] \in Invoices
    BY <1>2 DEF Listens, Reads, Heard
  <2>2. Awaits(w, a[2])
    BY <1>2, <2>1 DEF Hears
  <2>3. Sold(a[2]) => Sold(a[2])'
    <3>1. ShortOrSold(a[2]) /\ orderOf(a[2]) = OrderOf[a[2]]
      BY <2>1, InvoiceHasRow DEF Heard, AnswerIsRight
    <3> QED
      BY <3>1 DEF Sold, ShortOrSold, Keeps
  <2> QED
    BY <2>2, <2>3 DEF Awaits, Listens
<1> QED
  BY <1>1, <1>2 DEF Hears, Listens

\* A sweep goes on from what it had read.
Stems(w, u) ==
  /\ w.todo \subseteq u.todo /\ w.aged \subseteq u.aged /\ w.flagged \subseteq u.flagged
  /\ w.eff \in Nat \/ w.eff = u.eff
  /\ u.pc \in {"idle", "load"} => w.todo = {}
  /\ \A c \in w.cands : \E b \in u.cands :
       b.row = c.row /\ b.status = c.status /\ (b.tx # NoTransfer => c.tx # NoTransfer)
  /\ OneOfARow(u.cands) => OneOfARow(w.cands)
  /\ w.todo # {} => \A b \in u.cands : \E c \in w.cands : c.row = b.row /\ c.status = b.status
  /\ w.pc = "under" => w.eff \in Nat /\ w.eff < w.ask

LEMMA StemsHears == ASSUME NEW u, NEW w, Hears(u)', Stems(w, u) PROVE Hears(w)'
<1>1. ASSUME NEW a \in answers', a[1] \in w.todo PROVE Awaits(w, a[2])'
  <2>1. a[1] \in u.todo /\ u.pc # "load" /\ w.todo # {}
    BY <1>1 DEF Stems
  <2>2. Awaits(u, a[2])'
    BY <2>1 DEF Hears
  <2> QED
    BY <2>1, <2>2 DEF Stems, Awaits
<1>2. ASSUME NEW c \in w.cands
      PROVE  /\ c.status = "UNDERPAID" => ShortOrSold(c.row)'
             /\ c.row \in Transfers => c.tx # NoTransfer
  <2>1. PICK b \in u.cands : b.row = c.row /\ b.status = c.status /\ (b.tx # NoTransfer => c.tx # NoTransfer)
    BY DEF Stems
  <2> QED
    BY <2>1 DEF Hears
<1> QED
  BY <1>1, <1>2 DEF Stems, Hears

LEMMA RestStems == ASSUME NEW u, NEW w, IsSweep(w), Stems(w, u) PROVE Stems(Rest(w), u)
<1>1. CASE w.todo # {}
  BY <1>1 DEF Rest
<1>2. CASE w.todo = {}
  <2> DEFINE v == [w EXCEPT !.known = IdleSweep.known, !.flagged = {}, !.cands = {}, !.closed = {}]
  <2>1. /\ v.pc = w.pc /\ v.todo = {} /\ v.cands = {} /\ v.ask = w.ask /\ v.eff = w.eff /\ v.aged = w.aged
        /\ v.flagged = {}
    BY <1>2 DEF IsSweep
  <2>2. Rest(w) = v
    BY <1>2 DEF Rest
  <2> HIDE DEF v
  <2> QED
    BY <2>1, <2>2 DEF Stems, OneOfARow
<1> QED
  BY <1>1, <1>2

\* What a sweep has read does not change: it goes to another label.
LEMMA SameReads ==
  ASSUME NEW u, NEW w, w.todo \subseteq u.todo, w.aged = u.aged, w.cands = u.cands,
         w.flagged = u.flagged, w.eff \in Nat \/ w.eff = u.eff,
         u.pc \notin {"idle", "load"}, w.pc = "under" => w.eff \in Nat /\ w.eff < w.ask
  PROVE  Stems(w, u)
BY DEF Stems

LEMMA SweepStems ==
  ASSUME IInv, Backed, NEW s \in Sweeps, ~Begin(s), ~LoadCandidates(s),
         Work(s) \/ TransferFails(s) \/ SweepDies(s)
  PROVE  Stems(sweep'[s], sweep[s]) /\ \A z \in Sweeps \ {s} : sweep'[z] = sweep[z]
<1> PICK u : u = sweep[s]
  OBVIOUS
<1>1. IsSweep(u)
  BY Sweeping
<1>2. ASSUME NEW w, sweep' = [sweep EXCEPT ![s] = w], Stems(w, u)
      PROVE  Stems(sweep'[s], u) /\ \A z \in Sweeps \ {s} : sweep'[z] = sweep[z]
  BY <1>2 DEF IInv
<1>3. ASSUME NEW T \in SUBSET u.todo, Continue(s, T), u.pc \notin {"idle", "load"}
      PROVE  Stems(sweep'[s], u) /\ \A z \in Sweeps \ {s} : sweep'[z] = sweep[z]
  <2> PICK w : w = Onward(u, T)
    OBVIOUS
  <2>1. /\ IsSweep(w) /\ w.pc = "next" /\ w.todo = T /\ w.cands = u.cands /\ w.aged = u.aged
        /\ w.flagged = u.flagged /\ w.eff = 0
    BY <1>1 DEF Onward, IsSweep, Labels
  <2>2. sweep' = [sweep EXCEPT ![s] = Rest(w)]
    BY <1>3 DEF Continue, Onward, IInv
  <2>3. Stems(w, u)
    BY <1>3, <2>1, SameReads
  <2> QED
    BY <1>2, <2>1, <2>2, <2>3, RestStems
<1>4. ASSUME NextTransfer(s), u.pc \notin {"idle", "load"}
      PROVE  Stems(sweep'[s], u) /\ \A z \in Sweeps \ {s} : sweep'[z] = sweep[z]
  <2>1. u.todo \in SUBSET u.todo /\ Continue(s, u.todo)
    BY <1>4 DEF NextTransfer
  <2> QED
    BY <1>3, <1>4, <2>1
<1>5. ASSUME NEW label, label # "under", u.pc \notin {"idle", "load"}, Goto(s, label)
      PROVE  Stems(sweep'[s], u) /\ \A z \in Sweeps \ {s} : sweep'[z] = sweep[z]
  <2> PICK w : w = [u EXCEPT !.pc = label]
    OBVIOUS
  <2>1. /\ w.pc = label /\ w.todo = u.todo /\ w.cands = u.cands /\ w.aged = u.aged
        /\ w.flagged = u.flagged /\ w.eff = u.eff
    BY <1>1 DEF IsSweep
  <2>2. sweep' = [sweep EXCEPT ![s] = w]
    BY <1>5 DEF Goto, IInv
  <2>3. Stems(w, u)
    BY <1>5, <2>1, SameReads
  <2> QED
    BY <1>2, <2>2, <2>3
<1>6. ASSUME NEW r, NEW closed, NEW ask, NEW a
      PROVE  Route(r, closed, ask, a) \in Labels \ {"under", "complete"}
  BY DEF Route, Labels
<1>7. CASE Reread(s)
  <2>1. CASE NextTransfer(s)
    BY <1>4, <1>7, <2>1 DEF Reread, At
  <2>2. ASSUME NEW label \in Labels \ {"under"},
               sweep' = [sweep EXCEPT ![s] = Rest([@ EXCEPT !.pc = label])]
        PROVE  Stems(sweep'[s], u) /\ \A z \in Sweeps \ {s} : sweep'[z] = sweep[z]
    <3> PICK w : w = [u EXCEPT !.pc = label]
      OBVIOUS
    <3>1. /\ IsSweep(w) /\ w.pc = label /\ w.todo = u.todo /\ w.cands = u.cands /\ w.aged = u.aged
          /\ w.flagged = u.flagged /\ w.eff = u.eff
      BY <1>1 DEF IsSweep
    <3>2. sweep' = [sweep EXCEPT ![s] = Rest(w)]
      BY <2>2 DEF IInv
    <3>3. Stems(w, u)
      BY <1>7, <2>2, <3>1, SameReads DEF Reread, At
    <3> QED
      BY <1>2, <3>1, <3>2, <3>3, RestStems
  <2>3. NextTransfer(s) \/ \E label \in Labels \ {"under"} :
          sweep' = [sweep EXCEPT ![s] = Rest([@ EXCEPT !.pc = label])]
    BY <1>6, <1>7 DEF Reread
  <2> QED
    BY <2>1, <2>2, <2>3
<1>8. CASE SweepDies(s) \/ \E old \in SUBSET PaidOrders : Finish(s, old)
  <2>1. sweep' = [sweep EXCEPT ![s] = IdleSweep]
    BY <1>8 DEF SweepDies, Finish
  <2>2. Stems(IdleSweep, u)
    BY DEF IdleSweep, Stems, OneOfARow
  <2> QED
    BY <1>2, <2>1, <2>2
<1>9. CASE flagDoublePaid(s) \/ enqueueDelivery(s) \/ TransferFails(s)
  BY <1>4, <1>9 DEF flagDoublePaid, enqueueDelivery, TransferFails, At
<1>10. CASE settleOrderPaid(s)
  <2>1. u.pc = "paid" /\ (Stale(s) \/ Closed(s) \/ settlePaid(s))
    BY <1>10 DEF settleOrderPaid, At
  <2> QED
    BY <1>4, <1>5, <2>1 DEF Stale, Closed, settlePaid
<1>11. CASE settleUnderpaid(s) \/ settleLate(s) \/ settleTopup(s)
  <2>1. u.pc \notin {"idle", "load"}
    BY <1>11 DEF settleUnderpaid, settleLate, settleTopup, At
  <2> QED
    BY <1>4, <1>5, <1>11, <2>1 DEF settleUnderpaid, settleLate, settleTopup, Stale
<1>12. ASSUME NEW t \in Transfers, Skip(s, t) \/ flagUnmatched(s, t)
       PROVE  Stems(sweep'[s], u) /\ \A z \in Sweeps \ {s} : sweep'[z] = sweep[z]
  <2>1. u.todo \ {t} \in SUBSET u.todo /\ Continue(s, u.todo \ {t}) /\ u.pc = "next"
    BY <1>12 DEF Skip, flagUnmatched, Fresh, Current, At
  <2> QED
    BY <1>3, <2>1
<1>13. ASSUME NEW t \in Transfers, Resume(s, t)
       PROVE  Stems(sweep'[s], u) /\ \A z \in Sweeps \ {s} : sweep'[z] = sweep[z]
  <2> DEFINE label(r, ask) == Route(u.known[r], OrderOf[u.known[r].inv] \in u.closed, ask, sent[t])
  <2>1. u.pc = "next"
    BY <1>13 DEF Resume, Current, At
  <2>2. PICK r \in RowIds, ask \in Nat :
          sweep' = [sweep EXCEPT ![s] = Rest([u EXCEPT !.todo = @ \ {t}, !.tx = t, !.row = r,
                                                       !.ask = ask, !.pc = label(r, ask)])]
    <3>1. PICK r \in Known(s, t) : Unsettled(u.known[r]) /\ \E ask \in expectedFor(s, u.known[r]) :
            sweep' = [sweep EXCEPT ![s] = Rest([u EXCEPT !.todo = @ \ {t}, !.tx = t, !.row = r,
                                                         !.ask = ask, !.pc = label(r, ask)])]
      BY <1>13 DEF Resume
    <3> HIDE DEF label
    <3>2. PICK ask \in expectedFor(s, u.known[r]) :
            sweep' = [sweep EXCEPT ![s] = Rest([u EXCEPT !.todo = @ \ {t}, !.tx = t, !.row = r,
                                                         !.ask = ask, !.pc = label(r, ask)])]
      BY <3>1
    <3>3. r \in RowIds /\ u.known[r].tx # NoTransfer /\ u.todo # {}
      BY <1>13, TransferIsNumber DEF Known, Resume, Current
    <3>4. ask \in Nat
      BY <2>1, <3>1, <3>2, <3>3, Recovers
    <3> QED
      BY <3>2, <3>3, <3>4
  <2> HIDE DEF label
  <2> PICK l : l = label(r, ask)
    OBVIOUS
  <2> PICK w : w = [u EXCEPT !.todo = @ \ {t}, !.tx = t, !.row = r, !.ask = ask, !.pc = l]
    OBVIOUS
  <2>3. l \in Labels \ {"under"}
    BY <1>6 DEF label
  <2>4. /\ IsSweep(w) /\ w.pc = l /\ w.todo = u.todo \ {t} /\ w.cands = u.cands /\ w.aged = u.aged
        /\ w.flagged = u.flagged /\ w.eff = u.eff
    BY <1>1, <2>3 DEF IsSweep
  <2>5. Stems(w, u)
    BY <2>1, <2>3, <2>4, SameReads
  <2> QED
    BY <1>2, <2>2, <2>4, <2>5, RestStems
<1>14. ASSUME NEW t \in Transfers, Bind(s, t) \/ BindAnother(s, t)
       PROVE  Stems(sweep'[s], u) /\ \A z \in Sweeps \ {s} : sweep'[z] = sweep[z]
  <2>1. u.pc = "next"
    BY <1>14 DEF Bind, BindAnother, Fresh, Current, At
  <2>2. ASSUME NEW c \in u.cands, NEW r, Take(s, t, c, r, "reread")
        PROVE  Stems(sweep'[s], u) /\ \A z \in Sweeps \ {s} : sweep'[z] = sweep[z]
    <3> PICK d, w : d = [c EXCEPT !.tx = t] /\ w = sweep'[s]
      OBVIOUS
    <3>1. d.row = c.row /\ d.status = c.status /\ d.tx = t /\ t # NoTransfer
      BY <1>1, TransferIsNumber DEF IsSweep
    <3>2. /\ w.pc = "reread" /\ w.todo = u.todo \ {t} /\ w.aged = u.aged
          /\ w.flagged = u.flagged /\ w.eff = u.eff
          /\ w.cands = (u.cands \ {c}) \cup {d} /\ \A z \in Sweeps \ {s} : sweep'[z] = sweep[z]
      BY <1>1, <2>2 DEF Take, IInv, IsSweep
    <3>3. ASSUME NEW x \in w.cands
          PROVE  \E b \in u.cands :
                   b.row = x.row /\ b.status = x.status /\ (b.tx # NoTransfer => x.tx # NoTransfer)
      <4>1. x = d \/ x \in u.cands
        BY <3>2
      <4> QED
        BY <2>2, <3>1, <4>1
    <3>4. ASSUME NEW b \in u.cands PROVE \E x \in w.cands : x.row = b.row /\ x.status = b.status
      <4>1. d \in w.cands /\ (b = c \/ b \in w.cands)
        BY <3>2
      <4> QED
        BY <3>1, <4>1
    <3>5. OneOfARow(u.cands) => OneOfARow(w.cands)
      <4> SUFFICES ASSUME OneOfARow(u.cands), NEW x \in w.cands, NEW y \in w.cands, x.row = y.row
                   PROVE  x = y
        BY DEF OneOfARow
      <4>1. (x = d \/ x \in u.cands \ {c}) /\ (y = d \/ y \in u.cands \ {c})
        BY <3>2
      <4>2. ASSUME NEW z \in u.cands \ {c} PROVE z.row # c.row
        BY <2>2 DEF OneOfARow
      <4>3. CASE x \in u.cands \ {c} /\ y \in u.cands \ {c}
        BY <4>3 DEF OneOfARow
      <4> QED
        BY <3>1, <4>1, <4>2, <4>3
    <3>6. Stems(w, u)
      BY <2>1, <3>2, <3>3, <3>4, <3>5 DEF Stems
    <3> QED
      BY <3>2, <3>6
  <2>3. u.todo \ {t} \in SUBSET u.todo
    OBVIOUS
  <2>4. Continue(s, u.todo \ {t}) \/ \E c \in u.cands : \E r : Take(s, t, c, r, "reread")
    <3>1. PICK c \in matchTransfer(u.cands, sent[t]) :
            Continue(s, u.todo \ {t}) \/ \E r : Take(s, t, c, r, "reread")
      BY <1>14 DEF Bind, BindAnother
    <3> QED
      BY <3>1, MatchIsRight
  <2> QED
    BY <1>3, <2>1, <2>2, <2>3, <2>4
<1>15. CASE priorRead(s)
  <2> PICK n, x : n = priorUnderpaidCents(theOrder(s)) /\ x = received(s) + n * CentsToUsdt6
    OBVIOUS
  <2>1. u.pc = "prior" /\ u.ask \in Nat /\ received(s) \in Nat
    <3>1. Settles(u) /\ u.pc = "prior" /\ Types
      BY <1>15, Sweeping DEF Sound, priorRead, At, IInv, Core
    <3> QED
      BY <1>1, <3>1 DEF Settles, Steps, Labels, IsSweep, received, tx, Types
  <2>2. n \in Nat
    <3> PICK E : E = {e \in booked : e.key # "reclaim" /\ e.row \in shortRows(theOrder(s))}
      OBVIOUS
    <3>1. E \in SUBSET Entries /\ IsFiniteSet(E)
      BY FS_Subset DEF Backed, IInv, Core, Types
    <3>2. n = CentsOf(E)
      BY DEF priorUnderpaidCents, CentsOf
    <3> QED
      BY <3>1, <3>2, Sums
  <2>3. x \in Nat
    <3>1. n * CentsToUsdt6 \in Nat
      BY <2>2, CentsAreMonotone
    <3> QED
      BY <2>1, <3>1
  <2> PICK l : l = IF x >= u.ask THEN "complete" ELSE "under"
    OBVIOUS
  <2>4. l = "under" => x \in Nat /\ x < u.ask
    BY <2>1, <2>3
  <2> PICK w : w = [u EXCEPT !.eff = x, !.pc = l]
    OBVIOUS
  <2>5. sweep' = [sweep EXCEPT ![s] = w]
    BY <1>15 DEF priorRead, IInv
  <2>6. /\ w.pc = l /\ w.eff = x /\ w.ask = u.ask
        /\ w.todo = u.todo /\ w.cands = u.cands /\ w.aged = u.aged /\ w.flagged = u.flagged
    BY <1>1 DEF IsSweep
  <2>7. Stems(w, u)
    BY <2>1, <2>3, <2>4, <2>6, SameReads
  <2> QED
    BY <1>2, <2>5, <2>7
<1>16. CASE settleOrderCompleted(s)
  <2>1. u.pc = "complete"
    BY <1>16 DEF settleOrderCompleted, At
  <2>2. CASE Stale(s) \/ Closed(s) \/ settlePaid(s)
    BY <1>4, <1>5, <2>1, <2>2 DEF Stale, Closed, settlePaid
  <2>3. CASE /\ status[theOrder(s)] = "PENDING" /\ Claimable(s)
             /\ sweep' = [sweep EXCEPT ![s].pc = "under", ![s].eff = received(s)]
    <3>1. received(s) < u.ask /\ received(s) \in Nat
      BY <2>1, <2>3, AskIsKnown, Claimed DEF Steps, Labels
    <3> PICK w : w = [u EXCEPT !.eff = received(s), !.pc = "under"]
      OBVIOUS
    <3>2. sweep' = [sweep EXCEPT ![s] = w]
      BY <2>3 DEF IInv
    <3>3. /\ w.eff = received(s) /\ w.ask = u.ask
          /\ w.todo = u.todo /\ w.cands = u.cands /\ w.aged = u.aged /\ w.flagged = u.flagged
      BY <1>1 DEF IsSweep
    <3>4. Stems(w, u)
      BY <2>1, <3>1, <3>3, SameReads
    <3> QED
      BY <1>2, <3>2, <3>4
  <2> QED
    BY <1>16, <2>2, <2>3 DEF settleOrderCompleted
<1> QED
  BY <1>7, <1>8, <1>9, <1>10, <1>11, <1>12, <1>13, <1>14, <1>15, <1>16 DEF Work

LEMMA LoadedHears ==
  ASSUME IInv, Heard, NEW s \in Sweeps, LoadCandidates(s)
  PROVE  \A z \in Sweeps : Hears(sweep[z])'
<1> DEFINE Listed == {r \in RowIds \ sweep[s].aged :
                        rows[r].status \in {"PENDING", "CONFIRMING", "UNDERPAID", "EXPIRED"}}
           C == {toCandidate(s, r) : r \in Listed}
<1> PICK u, w : u = sweep[s] /\ w = [u EXCEPT !.pc = "next", !.aged = {}, !.cands = C]
  OBVIOUS
<1>1. IsSweep(u) /\ Hears(u) /\ RowsInv
  BY Sweeping DEF Heard, IInv, Core
<1>2. sweep'[s] = w /\ (\A z \in Sweeps \ {s} : sweep'[z] = sweep[z])
      /\ UNCHANGED <<rows, payer, aged, answers>>
  BY DEF LoadCandidates, IInv, shop
<1> HIDE DEF C
<1>3. w.pc = "next" /\ w.cands = C /\ w.aged = {} /\ w.todo = u.todo
  BY <1>1 DEF IsSweep
<1>4. ASSUME NEW r \in Listed
      PROVE  LET c == toCandidate(s, r) IN
             /\ c.row = r /\ (c.status = "UNDERPAID" <=> rows[r].status = "UNDERPAID")
             /\ c.status = "UNDERPAID" => ShortOrSold(r)
             /\ r \in Transfers => c.tx # NoTransfer
  <2>1. RowIsRight(r) /\ r \in RowIds
    BY <1>1 DEF RowsInv
  <2> QED
    BY <2>1, TransferIsNumber DEF toCandidate, RowIsRight, ShortOrSold, orderOf
<1>5. ASSUME NEW a \in answers PROVE Awaits(w, a[2])
  <2>1. a[2] \in Invoices /\ ShortOrSold(a[2])
    BY DEF Heard, AnswerIsRight
  <2>2. a[2] \in RowIds /\ orderOf(a[2]) = OrderOf[a[2]]
    BY <2>1, InvoiceHasRow
  <2>3. CASE a[2] \in aged \/ Sold(a[2])
    BY <2>3 DEF Awaits
  <2>4. CASE a[2] \notin aged /\ rows[a[2]].status = "UNDERPAID"
    <3>1. a[2] \in Listed
      BY <1>1, <2>2, <2>4 DEF Hears
    <3>2. toCandidate(s, a[2]) \in w.cands
      BY <1>3, <3>1 DEF C
    <3> QED
      BY <1>4, <2>4, <3>1, <3>2 DEF Awaits
  <2> QED
    BY <2>1, <2>2, <2>3, <2>4 DEF ShortOrSold, Sold
<1>6. ASSUME NEW c \in w.cands PROVE \E r \in Listed : c = toCandidate(s, r)
  BY <1>3 DEF C
<1>7. Hears(w)
  <2>1. OneOfARow(w.cands)
    BY <1>4, <1>6 DEF OneOfARow
  <2>2. ASSUME NEW c \in w.cands
        PROVE  (c.status = "UNDERPAID" => ShortOrSold(c.row)) /\ (c.row \in Transfers => c.tx # NoTransfer)
    BY <1>4, <1>6
  <2> HIDE DEF Listed
  <2> QED
    BY <1>3, <1>5, <2>1, <2>2 DEF Hears
<1> HIDE DEF Listed
<1>8. ASSUME NEW v, Hears(v) PROVE Hears(v)'
  BY <1>2, <1>8 DEF Hears, ShortOrSold, orderOf, Awaits, Sold
<1> QED
  BY <1>2, <1>7, <1>8 DEF Heard

LEMMA Overheard ==
  ASSUME IInv, Backed, Heard, Keeps, NEW s \in Sweeps, Work(s) \/ TransferFails(s) \/ SweepDies(s)
  PROVE  UNCHANGED <<sent, aged, answers>> /\ \A z \in Sweeps : Hears(sweep[z])'
<1>1. UNCHANGED <<sent, aged, answers>>
  BY DEF Work, TransferFails, SweepDies, Begin, LoadCandidates, Skip, Resume, flagUnmatched, Bind,
         BindAnother, Reread, settleOrderPaid, priorRead, settleOrderCompleted, settleUnderpaid,
         settleLate, flagDoublePaid, settleTopup, enqueueDelivery, Finish, Stale, Closed, settlePaid, shop
<1>2. ASSUME NEW v, Sound(v), Hears(v) PROVE Hears(v)'
  <2>1. Listens
    BY <1>1 DEF Listens
  <2> QED
    BY <1>2, <2>1, StaysHeard DEF Sound
<1>3. ASSUME NEW z \in Sweeps PROVE Sound(sweep[z]) /\ Hears(sweep[z])
  BY Sweeping DEF Heard
<1>4. ASSUME NEW z \in Sweeps, sweep'[z] = sweep[z] PROVE Hears(sweep[z])'
  <2> PICK v : v = sweep[z]
    OBVIOUS
  <2>1. Hears(v)'
    BY <1>2, <1>3
  <2> QED
    BY <1>4, <2>1
<1>5. CASE LoadCandidates(s)
  BY <1>1, <1>5, LoadedHears
<1>6. CASE Begin(s)
  <2>1. PICK w : sweep' = [sweep EXCEPT ![s] = w] /\ w.pc = "load" /\ w.cands = {} /\ w.aged = aged
    <3> PICK w : w = sweep'[s]
      OBVIOUS
    <3>1. sweep' = [sweep EXCEPT ![s] = w] /\ w.pc = "load" /\ w.cands = {} /\ w.aged = aged
      BY <1>6 DEF Begin, IInv, IdleSweep
    <3> QED
      BY <3>1
  <2>2. Hears(w)'
    BY <1>1, <2>1 DEF Hears, OneOfARow
  <2>3. sweep'[s] = w /\ \A z \in Sweeps \ {s} : sweep'[z] = sweep[z]
    BY <2>1 DEF IInv
  <2> QED
    BY <1>1, <1>4, <2>2, <2>3
<1>7. CASE ~Begin(s) /\ ~LoadCandidates(s)
  <2> PICK u, w : u = sweep[s] /\ w = sweep'[s]
    OBVIOUS
  <2>1. Stems(w, u) /\ \A z \in Sweeps \ {s} : sweep'[z] = sweep[z]
    BY <1>7, SweepStems
  <2>2. Hears(u)'
    BY <1>2, <1>3
  <2>3. Hears(w)'
    BY <2>1, <2>2, StemsHears
  <2> QED
    BY <1>1, <1>4, <2>1, <2>3
<1> QED
  BY <1>1, <1>5, <1>6, <1>7

LEMMA StaysExcused ==
  ASSUME IInv, Keeps, aged \subseteq aged', NEW t \in Transfers, NEW i \in Invoices,
         OrderOf[i] \in Orders, Excused(t, i)
  PROVE  Excused(t, i)'
<1>1. Types /\ i \in RowIds /\ orderOf(i) = OrderOf[i]
  BY InvoiceHasRow DEF IInv, Core
<1>2. RowOf(t) # {} => RowOf(t)' # {}
  <2> SUFFICES ASSUME NEW r \in RowIds, rows[r].tx = t PROVE RowOf(t)' # {}
    BY DEF RowOf
  <2>1. rows'[r].tx = t
    BY TransferIsNumber DEF Keeps
  <2> QED
    BY <2>1 DEF RowOf
<1>3. Sold(i) => Sold(i)'
  BY DEF Sold, Keeps
<1>4. Ambiguous(i) => Ambiguous(i)' \/ Sold(i)'
  <2> SUFFICES ASSUME rows[i].status = "UNDERPAID", NEW q \in RowIds \ {i},
                      rows[q].status = "UNDERPAID", orderOf(q) = OrderOf[i]
               PROVE  Ambiguous(i)' \/ Sold(i)'
    BY DEF Ambiguous
  <2>1. rows'[i].status = "UNDERPAID" \/ Sold(i)'
    BY <1>1 DEF Keeps, Sold
  <2>2. rows'[q].status = "UNDERPAID" \/ Sold(i)'
    BY DEF Keeps, Sold
  <2>3. orderOf(q)' = OrderOf[i]
    BY DEF Keeps, orderOf
  <2> QED
    BY <2>1, <2>2, <2>3 DEF Ambiguous
<1> QED
  BY <1>2, <1>3, <1>4 DEF Excused

\* What a step may change of what the customer was asked and has answered.
LEMMA Hearing ==
  ASSUME IInv, IInv', Heard, Keeps, aged \subseteq aged',
         told' \in [Invoices -> Nat],
         \A i \in Invoices : told'[i] = told[i] \/ (tag(told'[i]) = tag(Ask[i]) /\ ShortOrSold(i)'),
         \A f \in flags' : f \in flags \/ (f.tx \in Transfers /\ sent'[f.tx] # 0),
         \A a \in answers' \ answers : a \in Transfers \X Invoices /\ AnswerIsRight(a[1], a[2])',
         \A a \in answers : Flagged(a[1])' => Flagged(a[1]) \/ Excused(a[1], a[2])',
         \A s \in Sweeps : Hears(sweep[s])'
  PROVE  Heard'
<1>1. Types
  BY DEF IInv, Core
<1>2. ASSUME NEW i \in Invoices, ShortOrSold(i) PROVE ShortOrSold(i)'
  BY <1>1, <1>2, InvoiceHasRow, StaysShort
<1>3. ASSUME NEW a \in answers PROVE AnswerIsRight(a[1], a[2])'
  <2> PICK t, i : t = a[1] /\ i = a[2]
    OBVIOUS
  <2>1. t \in Transfers /\ i \in Invoices /\ AnswerIsRight(t, i)
    BY DEF Heard
  <2>2. sent'[t] = sent[t] /\ ShortOrSold(i)'
    BY <1>2, <2>1 DEF AnswerIsRight, Keeps
  <2>3. OrderOf[i] \in Orders
    BY <2>1, InvoiceHasRow DEF AnswerIsRight, ShortOrSold
  <2>4. Flagged(t)' => Excused(t, i)'
    <3>1. Flagged(t) => Excused(t, i)
      BY <2>1 DEF AnswerIsRight
    <3>2. Excused(t, i) => Excused(t, i)'
      BY <2>1, <2>3, StaysExcused
    <3> QED
      BY <3>1, <3>2
  <2>5. AnswerIsRight(t, i)'
    BY <2>1, <2>2, <2>4 DEF AnswerIsRight
  <2> QED
    BY <2>5
<1>4. \A a \in answers' : a \in Transfers \X Invoices /\ AnswerIsRight(a[1], a[2])'
  BY <1>3 DEF Heard
<1>5. ASSUME NEW i \in Invoices, told'[i] # 0 PROVE tag(told'[i]) = tag(Ask[i]) /\ ShortOrSold(i)'
  BY <1>2, <1>5 DEF Heard
<1>6. ASSUME NEW f \in flags' PROVE f.tx \in Transfers /\ sent'[f.tx] # 0
  <2>1. f \in flags => f.tx \in Transfers /\ sent[f.tx] # 0
    BY DEF Heard
  <2> QED
    BY <2>1 DEF Keeps
<1> QED
  BY <1>4, <1>5, <1>6 DEF Heard

\* The customer sends what he was asked for.
LEMMA SendingHeard == ASSUME IInv, Heard, NEW t \in Transfers, Send(t) PROVE Heard'
<1>1. IInv' /\ Keeps
  BY Sending
<1>2. PICK a \in Amounts : sent' = [sent EXCEPT ![t] = a] /\ answers' = answers \cup ({t} \X AskedOn(a))
  BY DEF Send
<1>3. sent[t] = 0 /\ a # 0 /\ sent'[t] = a /\ a \in Nat
  BY <1>2, AmountsAssumption DEF Send, IInv, Core, Types
<1>4. UNCHANGED <<shop, sweep>>
  BY DEF Send
<1>5. aged \subseteq aged' /\ told' = told /\ flags' = flags /\ UNCHANGED <<rows, payer>>
  BY <1>4 DEF shop
<1>6. ASSUME NEW x \in answers' \ answers
      PROVE  x \in Transfers \X Invoices /\ x[1] = t /\ AnswerIsRight(x[1], x[2])'
  <2>1. PICK i \in AskedOn(a) : x = <<t, i>>
    BY <1>2, <1>6
  <2>2. i \in Invoices /\ told[i] = a
    BY DEF AskedOn
  <2>3. tag(sent'[t]) = tag(Ask[i]) /\ ShortOrSold(i)
    BY <1>3, <2>2 DEF Heard
  <2>4. ShortOrSold(i)'
    BY <1>5, <2>3 DEF ShortOrSold, orderOf
  <2>5. ~Flagged(t)'
    BY <1>3, <1>5 DEF Flagged, Heard
  <2>6. AnswerIsRight(t, i)'
    BY <1>3, <2>3, <2>4, <2>5 DEF AnswerIsRight
  <2>7. x[1] = t /\ x[2] = i /\ x \in Transfers \X Invoices
    BY <2>1, <2>2
  <2> QED
    BY <2>6, <2>7
<1>7. Listens
  BY <1>3, <1>5, <1>6 DEF Listens
<1>8. ASSUME NEW s \in Sweeps PROVE Hears(sweep[s])'
  <2> PICK v : v = sweep[s]
    OBVIOUS
  <2>1. Hears(v)'
    BY <1>1, <1>7, Sweeping, StaysHeard DEF Heard, Sound
  <2> QED
    BY <1>4, <2>1
<1>9. \A x \in answers : Flagged(x[1])' => Flagged(x[1])
  BY <1>5 DEF Flagged
<1>10. told' \in [Invoices -> Nat]
  BY <1>5 DEF Heard
<1> QED
  BY <1>1, <1>5, <1>6, <1>8, <1>9, <1>10, Hearing

\* Steps of the clock, of the balance and of other rails.
LEMMA OthersHeard ==
  ASSUME IInv, Heard, IInv', Keeps, aged \subseteq aged', UNCHANGED <<answers, told, flags, sweep>>
  PROVE  Heard'
<1>1. Listens
  BY DEF Listens
<1>2. ASSUME NEW s \in Sweeps PROVE Hears(sweep[s])'
  <2> PICK v : v = sweep[s]
    OBVIOUS
  <2>1. Hears(v)'
    BY <1>1, Sweeping, StaysHeard DEF Heard, Sound
  <2> QED
    BY <2>1
<1>3. \A x \in answers : Flagged(x[1])' => Flagged(x[1])
  BY DEF Flagged
<1>4. told' \in [Invoices -> Nat]
  BY DEF Heard
<1> QED
  BY <1>2, <1>3, <1>4, Hearing

\* A sweep leaves only such an answer unmatched that it may leave.
LEMMA FlaggingHeard ==
  ASSUME IInv, Heard, NEW s \in Sweeps, NEW t \in Transfers, flagUnmatched(s, t),
         NEW i \in Invoices, <<t, i>> \in answers
  PROVE  Excused(t, i)
<1> PICK u : u = sweep[s]
  OBVIOUS
<1>1. /\ u.pc = "next" /\ t \in u.todo /\ matchTransfer(u.cands, sent[t]) = {}
      /\ Reads(u) /\ IsSweep(u) /\ Hears(u) /\ RowsInv /\ Types
  BY Sweeping DEF flagUnmatched, Fresh, Current, At, Sound, Heard, IInv, Core
<1>2. AnswerIsRight(t, i) /\ Awaits(u, i)
  BY <1>1 DEF Heard, Hears
<1>3. CASE i \in aged \/ Sold(i)
  BY <1>3 DEF Excused
<1>4. ASSUME NEW c \in u.cands, c.row = i, c.status = "UNDERPAID" PROVE Sold(i) \/ Ambiguous(i)
  <2>1. rows[i].inv = i /\ orderOf(i) = OrderOf[i]
    BY InvoiceHasRow
  <2>2. tag(c.amount) = tag(sent[t]) /\ tag(sent[t]) = tag(Ask[i]) /\ tag(Ask[i]) # 0
    BY <1>1, <1>2, <1>4, <2>1, AskAssumption DEF Reads, CandIsRight, AnswerIsRight, tag
  <2> DEFINE able == {x \in u.cands : canTakeTransfer(x)}
             byTag == {x \in able : tronTagOfAmountUsdt6(x.amount) = tronTagOfAmountUsdt6(sent[t])}
             exact == {x \in able : x.amount = sent[t]}
  <2>3. c \in byTag
    BY <1>4, <2>2 DEF canTakeTransfer, tag
  <2>4. byTag # {c}
    <3>1. exact # {} => matchTransfer(u.cands, sent[t]) # {}
      BY DEF matchTransfer, pickBest
    <3>2. exact = {}
      BY <1>1, <3>1
    <3>3. Cardinality(byTag) # 1
      BY <1>1, <2>2, <2>3, <3>2 DEF matchTransfer, tag
    <3> QED
      BY <3>3, FS_Singleton
  <2>5. PICK d \in byTag : d # c
    BY <2>3, <2>4
  <2>6. /\ d \in u.cands /\ canTakeTransfer(d) /\ tag(d.amount) = tag(sent[t])
        /\ d.row \in RowIds /\ CandIsRight(d)
    BY <1>1 DEF tag, Reads, IsSweep
  <2>7. rows[d.row].inv = i
    <3>1. rows[d.row].inv \in Invoices /\ tag(Ask[rows[d.row].inv]) = tag(Ask[i])
      BY <1>1, <2>2, <2>6 DEF CandIsRight, Types, Rows
    <3> QED
      BY <3>1, AskAssumption DEF tag
  <2>8. d.row # i
    BY <1>1, <1>4, <2>5, <2>6 DEF Hears, OneOfARow
  <2>9. d.row \in Transfers
    BY <1>1, <2>6, <2>7, <2>8 DEF RowsInv, RowIsRight, RowIds
  <2>10. d.status = "UNDERPAID"
    BY <1>1, <2>6, <2>9 DEF Hears, canTakeTransfer
  <2>11. ShortOrSold(d.row) /\ orderOf(d.row) = OrderOf[i]
    BY <1>1, <2>6, <2>7, <2>10 DEF Hears, orderOf
  <2>12. ShortOrSold(i)
    BY <1>2 DEF AnswerIsRight
  <2> QED
    BY <2>1, <2>6, <2>8, <2>11, <2>12 DEF ShortOrSold, Sold, Ambiguous
<1> QED
  BY <1>2, <1>3, <1>4 DEF Awaits, Excused

\* The customer is asked for a remainder.
LEMMA AskingHeard ==
  ASSUME IInv, Heard, NEW s \in Sweeps, settleUnderpaid(s)
  PROVE  /\ told' \in [Invoices -> Nat]
         /\ \A i \in Invoices : told'[i] = told[i] \/ (tag(told'[i]) = tag(Ask[i]) /\ ShortOrSold(i)')
<1>1. sweep[s].pc = "under" /\ sweep[s].pc \in Steps
  BY DEF settleUnderpaid, At, Steps, Labels
<1>2. CASE Stale(s)
  BY <1>2 DEF Stale, shop, Heard
<1>3. CASE Claimable(s) /\ ~Stale(s)
  <2> PICK R, i, w, n : R = row(s) /\ i = rows[R].inv /\ w = sweep[s] /\ n = taggedRemainder(w.ask, w.eff)
    OBVIOUS
  <2>1. R \in RowIds /\ i \in Invoices /\ w.ask \in Nat /\ tag(w.ask) = tag(Ask[i]) /\ rows[R].status = "CONFIRMING"
    BY <1>1, <1>3, Claimed
  <2>2. rows' = claimPayment(s, "UNDERPAID", w.ask) /\ told' = [told EXCEPT ![i] = n]
    BY <1>3 DEF settleUnderpaid
  <2>3. Hears(w)
    BY DEF Heard
  <2>4. n \in Nat /\ tag(n) = tag(Ask[i])
    BY <1>1, <2>1, <2>3, TagOfRemainder DEF Hears
  <2>5. rows'[R].status = "UNDERPAID" /\ rows'[R].inv = i
    BY <2>1, <2>2 DEF claimPayment, IInv, Core, Types, Rows
  <2>6. IInv'
    BY SettlingShort
  <2>7. RowIsRight(R)' /\ rows'[i].inv = i
    BY <2>1, <2>6 DEF IInv, Core, RowsInv, RowIsRight, RowIds
  <2>8. OrderOf[i] \in Orders /\ (R = i \/ PartPaid(i)')
    BY <2>1, <2>5, <2>7 DEF RowIsRight, RowIds
  <2>9. ShortOrSold(i)'
    BY <2>5, <2>7, <2>8 DEF ShortOrSold, PartPaid, orderOf
  <2>10. told \in [Invoices -> Nat]
    BY DEF Heard
  <2> QED
    BY <2>1, <2>2, <2>4, <2>9, <2>10
<1> QED
  BY <1>2, <1>3 DEF settleUnderpaid

\* What a sweep asks for and flags.
LEMMA WorkHeard ==
  ASSUME IInv, Backed, Heard, IInv', Keeps, NEW s \in Sweeps, Work(s) \/ TransferFails(s) \/ SweepDies(s)
  PROVE  Heard'
<1>1. UNCHANGED <<sent, aged, answers>> /\ \A z \in Sweeps : Hears(sweep[z])'
  BY Overheard
<1>2. /\ told' \in [Invoices -> Nat]
      /\ \A i \in Invoices : told'[i] = told[i] \/ (tag(told'[i]) = tag(Ask[i]) /\ ShortOrSold(i)')
  <2>1. CASE settleUnderpaid(s)
    BY <2>1, AskingHeard
  <2>2. CASE ~settleUnderpaid(s)
    <3>1. told' = told
      BY <2>2 DEF Work, TransferFails, SweepDies, Begin, LoadCandidates, Skip, Resume, flagUnmatched, Bind,
         BindAnother, Reread, settleOrderPaid, priorRead, settleOrderCompleted,
         settleLate, flagDoublePaid, settleTopup, enqueueDelivery, Finish, Stale, Closed, settlePaid, shop
    <3> QED
      BY <3>1 DEF Heard
  <2> QED
    BY <2>1, <2>2
<1>3. CASE \E t \in Transfers : flagUnmatched(s, t)
  <2> PICK t \in Transfers : flagUnmatched(s, t)
    BY <1>3
  <2>1. sent[t] # 0
    BY Sweeping DEF flagUnmatched, Fresh, Current, Sound, Reads
  <2>2. /\ flags' = flags \cup {[tx |-> t, why |-> "unmatched", by |-> s]}
        /\ UNCHANGED <<rows, payer>>
    BY DEF flagUnmatched
  <2>3. ASSUME NEW a \in answers PROVE Flagged(a[1])' => Flagged(a[1]) \/ Excused(a[1], a[2])'
    <3> PICK i : i = a[2]
      OBVIOUS
    <3>1. i \in Invoices /\ a = <<a[1], i>> /\ a[1] \in Transfers
      BY DEF Heard
    <3>2. CASE a[1] = t
      <4>1. Excused(t, i)
        BY <3>1, <3>2, FlaggingHeard
      <4>2. Excused(t, i)'
        BY <1>1, <2>2, <4>1 DEF Excused, RowOf, Sold, Ambiguous, orderOf
      <4> QED
        BY <3>2, <4>2
    <3>3. CASE a[1] # t
      BY <2>2, <3>3 DEF Flagged
    <3> QED
      BY <3>2, <3>3
  <2>4. \A f \in flags' : f \in flags \/ (f.tx \in Transfers /\ sent'[f.tx] # 0)
    BY <1>1, <2>1, <2>2
  <2> QED
    BY <1>1, <1>2, <2>3, <2>4, Hearing
<1>4. CASE flagDoublePaid(s)
  <2>1. tx(s) \in Transfers /\ sent[tx(s)] # 0
    <3>1. Settles(sweep[s]) /\ sweep[s].pc \in Steps /\ RowsInv
      BY <1>4, Sweeping DEF Sound, flagDoublePaid, At, Steps, Labels, IInv, Core
    <3> QED
      BY <3>1, TransferIsNumber DEF Settles, RowsInv, RowIsRight, tx
  <2>2. flags' \subseteq flags \cup {[tx |-> tx(s), why |-> "doublePaid", by |-> s]}
    BY <1>4 DEF flagDoublePaid
  <2>3. \A a \in answers : Flagged(a[1])' => Flagged(a[1])
    BY <2>2 DEF Flagged
  <2>4. \A f \in flags' : f \in flags \/ (f.tx \in Transfers /\ sent'[f.tx] # 0)
    BY <1>1, <2>1, <2>2
  <2> QED
    BY <1>1, <1>2, <2>3, <2>4, Hearing
<1>5. CASE ~flagDoublePaid(s) /\ ~\E t \in Transfers : flagUnmatched(s, t)
  <2>1. flags' = flags
    BY <1>5 DEF Work, TransferFails, SweepDies, Begin, LoadCandidates, Skip, Resume, Bind,
         BindAnother, Reread, settleOrderPaid, priorRead, settleOrderCompleted, settleUnderpaid,
         settleLate, settleTopup, enqueueDelivery, Finish, Stale, Closed, settlePaid, shop
  <2>2. \A a \in answers : Flagged(a[1])' => Flagged(a[1])
    BY <2>1 DEF Flagged
  <2> QED
    BY <1>1, <1>2, <2>1, <2>2, Hearing
<1> QED
  BY <1>3, <1>4, <1>5

LEMMA HeardInductive == IInv /\ Backed /\ Heard /\ [Next]_vars => Heard'
<1> SUFFICES ASSUME IInv, Backed, Heard, [Next]_vars PROVE Heard'
  OBVIOUS
<1>1. IInv' /\ Keeps
  BY Inductive
<1>2. CASE \E t \in Transfers : Send(t)
  BY <1>2, SendingHeard
<1>3. CASE \E s \in Sweeps : Work(s) \/ TransferFails(s) \/ SweepDies(s)
  BY <1>1, <1>3, WorkHeard
<1>4. CASE \/ \E o \in Orders : PayFromBalance(o) \/ Lapse(o) \/ Expire(o)
           \/ SpendElsewhere \/ \E r \in RowIds : Age(r)
  <2>1. aged \subseteq aged' /\ UNCHANGED <<answers, told, flags, sweep>>
    BY <1>4 DEF PayFromBalance, Lapse, Expire, SpendElsewhere, Age
  <2> QED
    BY <1>1, <2>1, OthersHeard
<1>5. CASE UNCHANGED vars
  <2>1. aged \subseteq aged' /\ UNCHANGED <<answers, told, flags, sweep>>
    BY <1>5 DEF vars, shop
  <2> QED
    BY <1>1, <2>1, OthersHeard
<1> QED
  BY <1>2, <1>3, <1>4, <1>5 DEF Next

\* What the customer was asked for carries the tag of an invoice that is short,
\* and a sweep that has the answer left to do sees that invoice (settleUnderpaid,
\* listCandidates, matchTransfer).
THEOREM HeardAlways == Spec => []Heard
<1>1. Init => Heard
  <2> SUFFICES ASSUME Init PROVE Heard
    OBVIOUS
  <2>1. ASSUME NEW s \in Sweeps PROVE Hears(sweep[s])
    BY DEF Init, Hears, IdleSweep, OneOfARow
  <2> QED
    BY <2>1 DEF Init, Heard
<1> QED
  BY <1>1, HeardInductive, InductiveInvariant, BackedAlways, PTL DEF Spec

\* The remainder a customer was asked for and sends lands on his order and not in
\* the unmatched pile, unless the invoice has given up its tag, another transfer
\* has paid the order or two short payments of it share the tag
\* (taggedRemainder, matchTransfer, expectedFor).
THEOREM RemaindersAreRecognised == Spec => []RemainderIsRecognised
<1>1. IInv /\ Heard => RemainderIsRecognised
  <2> SUFFICES ASSUME IInv, Heard, NEW t \in Transfers, NEW i \in Invoices, <<t, i>> \in answers,
                      Flagged(t), RowOf(t) = {}, i \notin aged, payer[OrderOf[i]] \notin Transfers
               PROVE  Cardinality(shortRows(OrderOf[i])) > 1
    BY DEF RemainderIsRecognised, Heard
  <2>1. Ambiguous(i)
    BY DEF Heard, AnswerIsRight, Excused, Sold
  <2>2. PICK q \in RowIds \ {i} : rows[q].status = "UNDERPAID" /\ orderOf(q) = OrderOf[i]
    BY <2>1 DEF Ambiguous
  <2> PICK S : S = shortRows(OrderOf[i])
    OBVIOUS
  <2>3. i \in S /\ q \in S /\ i # q
    BY <2>1, <2>2, InvoiceHasRow DEF Ambiguous, shortRows
  <2>4. IsFiniteSet(S)
    <3>1. IsFiniteSet(RowIds)
      BY TransfersAssumption, RowIdsAssumption, FS_Union DEF RowIds
    <3> QED
      BY <3>1, FS_Subset DEF shortRows
  <2>5. {i, q} \subseteq S /\ Cardinality({i, q}) = 2
    <3>1. {i, q} = {i} \cup {q} /\ q \notin {i}
      BY <2>3
    <3>2. IsFiniteSet({i}) /\ Cardinality({i}) = 1
      BY FS_Singleton
    <3>3. Cardinality({i} \cup {q}) = 2
      BY <3>1, <3>2, FS_AddElement
    <3> QED
      BY <2>3, <3>1, <3>3
  <2>6. Cardinality({i, q}) <= Cardinality(S) /\ Cardinality(S) \in Nat
    BY <2>4, <2>5, FS_Subset, FS_CardinalityType
  <2> QED
    BY <2>5, <2>6
<1> QED
  BY <1>1, InductiveInvariant, HeardAlways, PTL

-----------------------------------------------------------------------------
(* Type correctness: what the invariants above leave out.                  *)

Fits(w) == w.eff \in Nat /\ w.flagged \subseteq Transfers
TypesLeft ==
  /\ sent \in [Transfers -> Amounts \cup {0}]
  /\ flags \subseteq Flags /\ jobs \subseteq Orders
  /\ \A s \in Sweeps : Fits(sweep[s])
  /\ spends \in 0 .. SpendBound /\ faults \in 0 .. FaultBound

LEMMA SweepFits ==
  ASSUME IInv, Backed, TypesLeft, NEW s \in Sweeps, Work(s) \/ TransferFails(s) \/ SweepDies(s)
  PROVE  \A z \in Sweeps : Fits(sweep'[z])
<1>1. CASE Begin(s)
  <2> PICK w : w = sweep'[s]
    OBVIOUS
  <2>1. w.eff = 0 /\ w.flagged = {f.tx : f \in flags} /\ \A z \in Sweeps \ {s} : sweep'[z] = sweep[z]
    BY <1>1 DEF Begin, IInv, IdleSweep
  <2>2. \A f \in flags : f.tx \in Transfers
    BY DEF TypesLeft, Flags
  <2> QED
    BY <2>1, <2>2 DEF TypesLeft, Fits
<1>2. CASE LoadCandidates(s)
  <2> PICK u, w : u = sweep[s] /\ w = sweep'[s]
    OBVIOUS
  <2>1. IsSweep(u)
    BY Sweeping
  <2>2. w.eff = u.eff /\ w.flagged = u.flagged /\ \A z \in Sweeps \ {s} : sweep'[z] = sweep[z]
    BY <1>2, <2>1 DEF LoadCandidates, IInv, IsSweep
  <2> QED
    BY <2>2 DEF TypesLeft, Fits
<1>3. CASE ~Begin(s) /\ ~LoadCandidates(s)
  <2>1. Stems(sweep'[s], sweep[s]) /\ \A z \in Sweeps \ {s} : sweep'[z] = sweep[z]
    BY <1>3, SweepStems
  <2> QED
    BY <2>1 DEF Stems, TypesLeft, Fits
<1> QED
  BY <1>1, <1>2, <1>3

LEMMA WorkTyped ==
  ASSUME IInv, Backed, TypesLeft, NEW s \in Sweeps, Work(s) \/ TransferFails(s) \/ SweepDies(s)
  PROVE  TypesLeft'
<1>1. UNCHANGED <<sent, spends>>
  BY DEF Work, TransferFails, SweepDies, Begin, LoadCandidates, Skip, Resume, flagUnmatched, Bind,
         BindAnother, Reread, settleOrderPaid, priorRead, settleOrderCompleted, settleUnderpaid,
         settleLate, flagDoublePaid, settleTopup, enqueueDelivery, Finish, Stale, Closed, settlePaid
<1>2. faults' = faults \/ (faults < FaultBound /\ faults' = faults + 1)
  BY DEF Work, TransferFails, SweepDies, Begin, LoadCandidates, Skip, Resume, flagUnmatched, Bind,
         BindAnother, Reread, settleOrderPaid, priorRead, settleOrderCompleted, settleUnderpaid,
         settleLate, flagDoublePaid, settleTopup, enqueueDelivery, Finish, Stale, Closed, settlePaid
<1>3. flags' \subseteq Flags
  <2>1. ASSUME NEW t \in Transfers, flagUnmatched(s, t) PROVE flags' \subseteq Flags
    BY <2>1 DEF flagUnmatched, Flags, TypesLeft
  <2>2. CASE flagDoublePaid(s)
    <3>1. tx(s) \in Transfers
      BY <2>2, Sweeping DEF Sound, Settles, flagDoublePaid, At, Steps, Labels, tx
    <3> QED
      BY <2>2, <3>1 DEF flagDoublePaid, Flags, TypesLeft
  <2>3. CASE ~flagDoublePaid(s) /\ ~\E t \in Transfers : flagUnmatched(s, t)
    <3>1. flags' = flags
      BY <2>3 DEF Work, TransferFails, SweepDies, Begin, LoadCandidates, Skip, Resume, Bind,
         BindAnother, Reread, settleOrderPaid, priorRead, settleOrderCompleted, settleUnderpaid,
         settleLate, settleTopup, enqueueDelivery, Finish, Stale, Closed, settlePaid, shop
    <3> QED
      BY <3>1 DEF TypesLeft
  <2> QED
    BY <2>1, <2>2, <2>3
<1>4. jobs' \subseteq Orders
  <2>1. CASE enqueueDelivery(s)
    <3>1. Settles(sweep[s]) /\ sweep[s].pc \in OrderSteps
      BY <2>1, Sweeping DEF Sound, enqueueDelivery, At, OrderSteps, Steps, Labels
    <3>2. theOrder(s) \in Orders
      BY <3>1 DEF Settles, OrderSteps, theOrder, orderOf, row
    <3> QED
      BY <2>1, <3>2 DEF enqueueDelivery, TypesLeft
  <2>2. ASSUME NEW old \in SUBSET PaidOrders, Finish(s, old) PROVE jobs' \subseteq Orders
    BY <2>2 DEF Finish, PaidOrders, TypesLeft
  <2>3. CASE ~enqueueDelivery(s) /\ ~\E old \in SUBSET PaidOrders : Finish(s, old)
    <3>1. jobs' = jobs
      BY <2>3 DEF Work, TransferFails, SweepDies, Begin, LoadCandidates, Skip, Resume, flagUnmatched, Bind,
         BindAnother, Reread, settleOrderPaid, priorRead, settleOrderCompleted, settleUnderpaid,
         settleLate, flagDoublePaid, settleTopup, Stale, Closed, settlePaid, shop
    <3> QED
      BY <3>1 DEF TypesLeft
  <2> QED
    BY <2>1, <2>2, <2>3
<1>5. \A z \in Sweeps : Fits(sweep[z])'
  BY SweepFits DEF Fits
<1> QED
  BY <1>1, <1>2, <1>3, <1>4, <1>5, BoundsAssumption DEF TypesLeft

LEMMA TypedInductive == IInv /\ Backed /\ TypesLeft /\ [Next]_vars => TypesLeft'
<1> SUFFICES ASSUME IInv, Backed, TypesLeft, [Next]_vars PROVE TypesLeft'
  OBVIOUS
<1>1. CASE \E t \in Transfers : Send(t)
  BY <1>1 DEF Send, shop, TypesLeft, Fits
<1>2. CASE \E s \in Sweeps : Work(s) \/ TransferFails(s) \/ SweepDies(s)
  BY <1>2, WorkTyped
<1>3. CASE \/ \E o \in Orders : PayFromBalance(o) \/ Lapse(o) \/ Expire(o)
           \/ SpendElsewhere \/ \E r \in RowIds : Age(r)
  <2>1. /\ UNCHANGED <<sent, flags, sweep, faults>> /\ jobs' \subseteq Orders
        /\ spends' = spends \/ (spends < SpendBound /\ spends' = spends + 1)
    BY <1>3 DEF PayFromBalance, Lapse, Expire, SpendElsewhere, Age, TypesLeft
  <2> QED
    BY <2>1, BoundsAssumption DEF TypesLeft, Fits
<1>4. CASE UNCHANGED vars
  BY <1>4 DEF vars, shop, TypesLeft, Fits
<1> QED
  BY <1>1, <1>2, <1>3, <1>4 DEF Next

\* Every variable of the rail keeps its type: what a sweep carries over its
\* statements is a row, an ask and a sum, and the remainder a customer is asked
\* for is never negative (settle, priorUnderpaidCents, taggedRemainder).
THEOREM TypeCorrect == Spec => []TypeOK
<1>1. Init => TypesLeft
  BY BoundsAssumption DEF Init, TypesLeft, Fits, IdleSweep
<1>2. IInv /\ Heard /\ TypesLeft => TypeOK
  <2> SUFFICES ASSUME IInv, Heard, TypesLeft PROVE TypeOK
    OBVIOUS
  <2>1. ASSUME NEW s \in Sweeps PROVE sweep[s] \in SweepStates
    <3> PICK w : w = sweep[s]
      OBVIOUS
    <3>1. IsSweep(w) /\ Fits(w)
      BY Sweeping DEF TypesLeft
    <3> QED
      BY <3>1 DEF IsSweep, Fits, SweepStates
  <2> QED
    BY <2>1 DEF TypeOK, IInv, Core, Types, Heard, TypesLeft
<1> QED
  BY <1>1, <1>2, TypedInductive, InductiveInvariant, BackedAlways, HeardAlways, PTL DEF Spec

=============================================================================
