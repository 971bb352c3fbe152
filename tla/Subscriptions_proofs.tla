------------------------- MODULE Subscriptions_proofs -------------------------
(***************************************************************************)
(* That a period is renewed and charged once, for any number of orders,    *)
(* presses and sweeps: the rows and the ledger's keys say the same, and a  *)
(* renewal that finds its key taken leaves both alone.                     *)
(***************************************************************************)
EXTENDS Subscriptions, FiniteSetTheorems, TLAPS

\* A finite set of numbers has a greatest: a smallest set without one would be
\* some set with one and another number.
LEMMA HasMax ==
  ASSUME NEW S \in SUBSET Int, IsFiniteSet(S), S # {}
  PROVE  Max(S) \in S /\ \A y \in S : Max(S) >= y
<1> DEFINE HasOne(U) == \E x \in U : \A y \in U : x >= y
           Bad == {U \in SUBSET S : U # {} /\ ~HasOne(U)}
<1>1. Bad = {}
  <2> SUFFICES ASSUME Bad # {} PROVE FALSE
    OBVIOUS
  <2>1. IsWellFoundedOn(StrictSubsetOrdering(S), FiniteSubsetsOf(S)) /\ Bad \subseteq FiniteSubsetsOf(S)
    BY FS_StrictSubsetOrderingWellFounded, FS_Subset DEF FiniteSubsetsOf
  <2>2. PICK U \in Bad : \A V \in Bad : <<V, U>> \notin StrictSubsetOrdering(S)
    <3> HIDE DEF Bad
    <3> QED
      BY <2>1, WFMin
  <2>3. PICK x \in U : TRUE
    OBVIOUS
  <2> DEFINE V == U \ {x}
  <2>4. V = {} \/ HasOne(V)
    <3>1. V \in SUBSET S /\ V # U /\ <<V, U>> \in (SUBSET S) \X (SUBSET S)
      OBVIOUS
    <3>2. V \notin Bad
      BY <2>2, <3>1 DEF StrictSubsetOrdering
    <3> QED
      BY <3>1, <3>2
  <2>5. x \in Int /\ \A y \in U : y \in Int
    OBVIOUS
  <2>6. HasOne(U)
    <3>1. CASE V = {}
      BY <2>5, <3>1
    <3>2. CASE HasOne(V)
      BY <2>5, <3>2
    <3> QED
      BY <2>4, <3>1, <3>2
  <2> QED
    BY <2>6
<1>2. HasOne(S)
  BY <1>1
<1> QED
  BY <1>2 DEF Max

\* The end of the period a new one stacks on.
LEMMA BaseIsNat ==
  ASSUME Constants, TypeOK, NEW day \in Nat
  PROVE  Max({day} \cup {subs[r].expires : r \in Active}) \in Nat
<1> DEFINE ends == {subs[r].expires : r \in Active}
           f == [r \in Active |-> subs[r].expires]
<1>1. IsFiniteSet(Active)
  <2>1. IsFiniteSet(RowIds)
    BY FS_Union DEF Constants, RowIds
  <2> QED
    BY <2>1, FS_Subset DEF Active
<1>2. IsFiniteSet(ends)
  <2>1. f \in Surjection(Active, ends)
    BY DEF Surjection
  <2> QED
    BY <1>1, <2>1, FS_Surjection
<1>3. ends \in SUBSET Nat
  BY DEF TypeOK, Active
<1>4. {day} \cup ends \in SUBSET Nat /\ IsFiniteSet({day} \cup ends)
  BY <1>2, <1>3, FS_Singleton, FS_Union
<1> HIDE DEF ends
<1>5. Max({day} \cup ends) \in {day} \cup ends
  BY <1>4, HasMax
<1> QED
  BY <1>4, <1>5 DEF ends

LEMMA LaterIsNat == ASSUME NEW m \in Nat, NEW n \in Nat PROVE Max({m, n}) \in Nat
<1>1. IsFiniteSet({m} \cup {n}) /\ {m} \cup {n} = {m, n}
  BY FS_Singleton, FS_Union
<1> QED
  BY <1>1, HasMax

-----------------------------------------------------------------------------
Renewed == {s \in Renewals : Exists(s)}

\* What a call relies on: the row it has read is there for good, the order it
\* delivers is paid.
Good(c) ==
  /\ doing[c].at \in {"renew", "transaction", "expire"} => row(c) \in RowIds /\ Exists(row(c))
  /\ At(c, "create") => row(c) \in Checkouts /\ paidOn[row(c)] # -1

\* Every renewal has been paid for, and been given back at most once.
Money ==
  /\ refunded \subseteq Renewed
  /\ purse + Cardinality(Renewed) = Purse + Cardinality(refunded)

IInv == TypeOK /\ RenewalChargedOnce /\ Money /\ \A c \in Callers : Good(c)

\* What no step takes back.
Keeps ==
  /\ \A r \in RowIds : Exists(r) => Exists(r)'
  /\ \A o \in Checkouts : paidOn[o] # -1 => paidOn'[o] # -1

LEMMA Frame ==
  ASSUME Keeps, TypeOK, NEW c \in Callers, Good(c), doing'[c] = doing[c] PROVE Good(c)'
  BY DEF Keeps, TypeOK, Good, At, row, RowIds

LEMMA Sizes ==
  ASSUME Constants
  PROVE  \A S \in SUBSET Renewals : IsFiniteSet(S) /\ Cardinality(S) \in Nat
                                    /\ Cardinality(S) <= Cardinality(Renewals)
  BY FS_Subset, FS_CardinalityType DEF Constants

\* The rows of renewals, and with them what was charged, may be changed in nothing
\* but their status.
LEMMA SameRenewals ==
  ASSUME IInv, charged' = charged, purse' = purse, refunded' = refunded,
         \A s \in Renewals : subs'[s].by = subs[s].by /\ (Exists(s)' <=> Exists(s))
  PROVE  RenewalChargedOnce' /\ Money'
<1>1. Renewed' = Renewed
  BY DEF Renewed
<1>2. {subs'[s].by : s \in Renewed'} = {subs[s].by : s \in Renewed}
  BY <1>1 DEF Renewed
<1> QED
  BY <1>1, <1>2 DEF IInv, RenewalChargedOnce, Money, Renewed

\* A row that is there is closed.
LEMMA Closing ==
  ASSUME IInv, NEW r \in RowIds, Exists(r), subs' = [subs EXCEPT ![r].status = "EXPIRED"]
  PROVE  /\ subs' \in [RowIds -> [status : {"absent", "ACTIVE", "EXPIRED"}, starts : Nat, expires : Nat,
                                  by : RowIds \cup {NoPeriod}]]
         /\ \A s \in RowIds : subs'[s].by = subs[s].by /\ (Exists(s)' <=> Exists(s))
  BY DEF IInv, TypeOK, Exists

LEMMA Idle ==
  /\ IdleCall \in [at : {"idle", "create", "renew", "transaction", "expire"},
                   row : RowIds \cup {NoPeriod}, base : Nat, sweep : BOOLEAN]
  /\ IdleCall.at = "idle"
  BY DEF IdleCall

LEMMA Initially == ASSUME Constants, Init PROVE IInv
<1>1. Cardinality(Renewals) \in Nat /\ Cardinality({}) = 0
  BY Sizes, FS_EmptySet
<1>2. Renewed = {}
  BY DEF Init, Renewed, Exists, AbsentRow, RowIds
<1>3. TypeOK
  BY <1>1, Idle DEF Constants, Init, TypeOK, AbsentRow
<1>4. RenewalChargedOnce
  BY <1>2 DEF Init, RenewalChargedOnce, Renewed
<1>5. Money
  BY <1>1, <1>2 DEF Constants, Init, Money
<1>6. \A c \in Callers : Good(c)
  BY Idle DEF Init, Good, At
<1> QED
  BY <1>3, <1>4, <1>5, <1>6 DEF IInv

\* A step of time or of a customer, and a delivery that fails.
LEMMA Elsewhere ==
  ASSUME Constants, IInv,
         Tick \/ (\E o \in Checkouts : PayOrder(o)) \/ (\E s \in Renewals : DeliveryFails(s))
  PROVE  IInv'
<1>1. CASE Tick
  BY <1>1 DEF Tick, Constants, IInv, TypeOK, RenewalChargedOnce, Money, Renewed, Exists, Good, At, row
<1>2. ASSUME NEW o \in Checkouts, PayOrder(o) PROVE IInv'
  <2>1. paidOn' \in [Checkouts -> -1 .. LastDay] /\ Keeps
    BY <1>2 DEF PayOrder, Constants, IInv, TypeOK, Keeps, Exists
  <2> QED
    BY <1>2, <2>1, Frame DEF PayOrder, IInv, TypeOK, RenewalChargedOnce, Money, Renewed, Exists
<1>3. ASSUME NEW s \in Renewals, DeliveryFails(s) PROVE IInv'
  <2>1. /\ refunded' = refunded \cup {s} /\ s \notin refunded /\ s \in Renewed /\ purse' = purse + 1
        /\ Renewed' = Renewed /\ UNCHANGED <<today, paidOn, subs, charged, doing, drops>>
    BY <1>3 DEF DeliveryFails, Renewed, Exists
  <2>2. /\ IsFiniteSet(refunded) /\ Cardinality(refunded') = Cardinality(refunded) + 1
        /\ refunded' \subseteq Renewed /\ Cardinality(refunded') <= Cardinality(Renewed)
        /\ Cardinality(Renewed) \in Nat /\ Cardinality(refunded) \in Nat
    <3>1. refunded \in SUBSET Renewals /\ Renewed \in SUBSET Renewals /\ refunded' \in SUBSET Renewed
      BY <2>1 DEF IInv, TypeOK, Renewed, Money
    <3>2. IsFiniteSet(refunded) /\ IsFiniteSet(Renewed)
      BY <3>1, Sizes
    <3> QED
      BY <2>1, <3>1, <3>2, Sizes, FS_AddElement, FS_Subset
  <2>3. Money' /\ purse' \in 0 .. Purse
    BY <2>1, <2>2 DEF IInv, TypeOK, Money, Constants
  <2> QED
    BY <2>1, <2>3 DEF IInv, TypeOK, RenewalChargedOnce, Renewed, Exists, Good, At, row
<1> QED
  BY <1>1, <1>2, <1>3

\* A step of a call owes what it relies on itself, and the rows.
Owed(c) ==
  /\ TypeOK' /\ RenewalChargedOnce' /\ Money' /\ Keeps /\ Good(c)'
  /\ \A d \in Callers \ {c} : doing'[d] = doing[d]

\* A call that reads, declines or dies changes itself only.
LEMMA Reading ==
  ASSUME Constants, IInv, NEW c \in Callers,
         \/ ReadSubscription(c) \/ Dies(c)
         \/ \E o \in Checkouts : ReadCurrent(c, o)
         \/ \E r \in RowIds : Press(c, r) \/ Sweep(c, r)
  PROVE  Owed(c)
<1> DEFINE Calls == [at : {"idle", "create", "renew", "transaction", "expire"},
                     row : RowIds \cup {NoPeriod}, base : Nat, sweep : BOOLEAN]
<1>1. UNCHANGED <<today, paidOn, subs, charged, purse, refunded>> /\ drops' \in 0 .. DropBound
  <2>1. /\ UNCHANGED <<today, paidOn, subs, charged, purse, refunded>>
        /\ drops' = drops \/ (drops < DropBound /\ drops' = drops + 1)
    BY DEF ReadSubscription, Dies, ReadCurrent, Press, Sweep
  <2>2. drops \in 0 .. DropBound /\ DropBound \in Nat
    BY DEF IInv, TypeOK, Constants
  <2> QED
    BY <2>1, <2>2
<1>2. /\ doing' \in [Callers -> Calls] /\ Good(c)'
      /\ \A d \in Callers \ {c} : doing'[d] = doing[d]
  <2> DEFINE Goal == /\ doing' \in [Callers -> Calls] /\ Good(c)'
                     /\ \A d \in Callers \ {c} : doing'[d] = doing[d]
  <2>1. doing \in [Callers -> Calls] /\ Good(c)
    BY DEF IInv, TypeOK
  <2>2. CASE ReadSubscription(c)
    BY <1>1, <2>1, <2>2, Idle DEF ReadSubscription, Decline, Go, Done, Good, At, row, Exists, Active
  <2>3. CASE Dies(c)
    BY <1>1, <2>1, <2>3, Idle DEF Dies, Done, Good, At, row, Exists
  <2>4. ASSUME NEW o \in Checkouts, ReadCurrent(c, o) PROVE Goal
    <3> DEFINE base == Max({paidOn[o]} \cup {subs[r].expires : r \in Active})
               new == [IdleCall EXCEPT !.at = "create", !.row = o, !.base = base]
    <3>1. paidOn[o] # -1 /\ paidOn[o] \in Nat
      <4>1. paidOn[o] # -1
        BY <2>4 DEF ReadCurrent
      <4>2. paidOn[o] \in -1 .. LastDay /\ LastDay \in Nat
        BY DEF IInv, TypeOK, Constants
      <4> QED
        BY <4>1, <4>2
    <3>2. base \in Nat
      BY <3>1, BaseIsNat DEF IInv
    <3>3. doing' = [doing EXCEPT ![c] = new]
      BY <2>4 DEF ReadCurrent
    <3> HIDE DEF base
    <3>4. new \in Calls /\ new.at = "create" /\ new.row = o
      BY <3>2, Idle DEF RowIds
    <3> HIDE DEF new
    <3> QED
      BY <1>1, <2>1, <3>1, <3>3, <3>4 DEF Good, At, row
  <2>5. ASSUME NEW r \in RowIds, Press(c, r) PROVE Goal
    BY <1>1, <2>1, <2>5, Idle DEF Press, Good, At, row, Exists
  <2>6. ASSUME NEW r \in RowIds, Sweep(c, r) PROVE Goal
    <3>1. PICK label \in {"renew", "expire"} :
            doing' = [doing EXCEPT ![c] = [IdleCall EXCEPT !.at = label, !.row = r, !.sweep = TRUE]]
      BY <2>6 DEF Sweep
    <3>2. Exists(r)
      BY <2>6 DEF Sweep, Lapsed, Active, Exists
    <3> QED
      BY <1>1, <2>1, <3>1, <3>2, Idle DEF Good, At, row, Exists
  <2> QED
    BY <2>2, <2>3, <2>4, <2>5, <2>6
<1>3. RenewalChargedOnce' /\ Money'
  BY <1>1, SameRenewals DEF Exists
<1> QED
  BY <1>1, <1>2, <1>3 DEF Owed, Keeps, IInv, TypeOK, Exists

LEMMA Creating == ASSUME Constants, IInv, NEW c \in Callers, CreateRow(c) PROVE Owed(c)
<1> DEFINE o == row(c)
           Rows == [status : {"absent", "ACTIVE", "EXPIRED"}, starts : Nat, expires : Nat,
                    by : RowIds \cup {NoPeriod}]
           new == [status |-> "ACTIVE", starts |-> paidOn[o], expires |-> doing[c].base + DurationDays,
                   by |-> NoPeriod]
<1>1. o \in Checkouts /\ o \in RowIds /\ o \notin Renewals /\ paidOn[o] \in Nat
  <2>1. At(c, "create") /\ Good(c)
    BY DEF CreateRow, IInv
  <2>2. paidOn \in [Checkouts -> -1 .. LastDay] /\ LastDay \in Nat /\ Checkouts \cap Renewals = {}
    BY DEF IInv, TypeOK, Constants
  <2> QED
    BY <2>1, <2>2 DEF Good, RowIds
<1>2. /\ UNCHANGED <<today, paidOn, charged, purse, refunded, drops>>
      /\ doing' = [doing EXCEPT ![c] = IdleCall]
      /\ subs' = subs \/ (~Exists(o) /\ subs' = [subs EXCEPT ![o] = new])
  BY DEF CreateRow, Done
<1>3. new \in Rows
  BY <1>1 DEF IInv, TypeOK, Constants
<1> HIDE DEF new, o
<1>4. /\ subs' \in [RowIds -> Rows]
      /\ \A r \in RowIds : (Exists(r) => Exists(r)') /\ (r # o => subs'[r] = subs[r])
  BY <1>1, <1>2, <1>3 DEF IInv, TypeOK, Exists
<1>5. RenewalChargedOnce' /\ Money'
  BY <1>1, <1>2, <1>4, SameRenewals DEF Exists, RowIds
<1>6. TypeOK' /\ Good(c)' /\ \A d \in Callers \ {c} : doing'[d] = doing[d]
  BY <1>2, <1>4, Idle DEF IInv, TypeOK, Good, At
<1> QED
  BY <1>2, <1>4, <1>5, <1>6 DEF Owed, Keeps

LEMMA Expiring == ASSUME Constants, IInv, NEW c \in Callers, ExpireRow(c) PROVE Owed(c)
<1> DEFINE r == row(c)
<1>1. r \in RowIds /\ Exists(r)
  BY DEF ExpireRow, IInv, Good, At
<1>2. /\ UNCHANGED <<today, paidOn, charged, purse, refunded, drops>>
      /\ doing' = [doing EXCEPT ![c] = IdleCall] /\ subs' = [subs EXCEPT ![r].status = "EXPIRED"]
  BY DEF ExpireRow, Done
<1> HIDE DEF r
<1>3. /\ subs' \in [RowIds -> [status : {"absent", "ACTIVE", "EXPIRED"}, starts : Nat, expires : Nat,
                               by : RowIds \cup {NoPeriod}]]
      /\ \A s \in RowIds : subs'[s].by = subs[s].by /\ (Exists(s)' <=> Exists(s))
  BY <1>1, <1>2, Closing
<1>4. RenewalChargedOnce' /\ Money'
  BY <1>2, <1>3, SameRenewals DEF RowIds
<1>5. TypeOK' /\ Good(c)' /\ \A d \in Callers \ {c} : doing'[d] = doing[d]
  BY <1>2, <1>3, Idle DEF IInv, TypeOK, Good, At
<1> QED
  BY <1>2, <1>3, <1>4, <1>5 DEF Owed, Keeps

\* A renewal whose key is free was not charged for before: it takes one order and
\* one price, and no other row follows the period.
LEMMA Renewing ==
  ASSUME Constants, IInv, NEW r \in RowIds, Exists(r), ~KeyTaken(r), CanPay(r),
         NEW s \in Renewals, ~Exists(s), NEW start \in Nat,
         subs' = [subs EXCEPT ![r].status = "EXPIRED",
                              ![s] = [status |-> "ACTIVE", starts |-> start,
                                      expires |-> start + DurationDays, by |-> r]],
         charged' = charged \cup {r}, purse' = (IF r \in charged THEN purse ELSE purse - 1),
         refunded' = refunded
  PROVE  /\ subs' \in [RowIds -> [status : {"absent", "ACTIVE", "EXPIRED"}, starts : Nat, expires : Nat,
                                  by : RowIds \cup {NoPeriod}]]
         /\ charged' \subseteq RowIds /\ purse' \in 0 .. Purse
         /\ \A t \in RowIds : Exists(t) => Exists(t)'
         /\ RenewalChargedOnce' /\ Money'
<1> DEFINE new == [status |-> "ACTIVE", starts |-> start, expires |-> start + DurationDays, by |-> r]
           Rows == [status : {"absent", "ACTIVE", "EXPIRED"}, starts : Nat, expires : Nat,
                    by : RowIds \cup {NoPeriod}]
           closed == [subs[r] EXCEPT !.status = "EXPIRED"]
<1>1. new \in Rows /\ new.status = "ACTIVE" /\ new.by = r /\ closed \in Rows
      /\ closed.status = "EXPIRED" /\ closed.by = subs[r].by
  BY DEF IInv, TypeOK, Constants
<1>2. subs \in [RowIds -> Rows] /\ s \in RowIds /\ r # s
  BY DEF IInv, TypeOK, RowIds
<1>3. subs' = [[subs EXCEPT ![r] = closed] EXCEPT ![s] = new]
  BY <1>2
<1> HIDE DEF new, closed
<1>4. /\ subs' \in [RowIds -> Rows] /\ subs'[s] = new /\ subs'[r] = closed
      /\ \A t \in RowIds \ {r, s} : subs'[t] = subs[t]
  BY <1>1, <1>2, <1>3
<1>5. /\ \A t \in RowIds : Exists(t)' <=> Exists(t) \/ t = s
      /\ \A t \in RowIds \ {s} : subs'[t].by = subs[t].by
  BY <1>1, <1>2, <1>4 DEF Exists
<1>6. Renewed' = Renewed \cup {s} /\ s \notin Renewed
  BY <1>5 DEF Renewed, RowIds
<1>7. r \notin charged /\ \A t \in Renewed : subs[t].by # r
  BY DEF KeyTaken, IInv, RenewalChargedOnce, Renewed
<1>8. RenewalChargedOnce'
  <2>1. \A t, u \in Renewed' : subs'[t].by = subs'[u].by => t = u
    BY <1>1, <1>4, <1>5, <1>6, <1>7 DEF IInv, RenewalChargedOnce, Renewed, RowIds
  <2>2. charged = {subs[t].by : t \in Renewed}
    BY DEF IInv, RenewalChargedOnce, Renewed
  <2>3. \A t \in Renewed : subs'[t].by = subs[t].by
    BY <1>5, <1>6 DEF Renewed, RowIds
  <2>4. charged' = {subs'[t].by : t \in Renewed'}
    <3>1. subs'[s].by = r
      BY <1>1, <1>4
    <3>2. {subs'[t].by : t \in Renewed'} = {subs'[t].by : t \in Renewed} \cup {subs'[s].by}
      BY <1>6
    <3>3. {subs'[t].by : t \in Renewed} = {subs[t].by : t \in Renewed}
      BY <2>3
    <3> QED
      BY <2>2, <3>1, <3>2, <3>3
  <2> QED
    BY <2>1, <2>4 DEF RenewalChargedOnce, Renewed
<1>9. Money' /\ purse' \in 0 .. Purse
  <2>1. Renewed \in SUBSET Renewals /\ Renewed' \in SUBSET Renewals /\ refunded \in SUBSET Renewed
    BY <1>6 DEF IInv, Money, Renewed
  <2>2. Cardinality(Renewed') = Cardinality(Renewed) + 1
    BY <1>6, <2>1, Sizes, FS_AddElement
  <2>3. purse \in 0 .. Purse /\ Purse \in Nat /\ purse > 0 /\ purse' = purse - 1
    BY <1>7 DEF IInv, TypeOK, Constants, CanPay
  <2> QED
    BY <1>6, <2>1, <2>2, <2>3, Sizes DEF IInv, Money
<1> QED
  BY <1>4, <1>5, <1>8, <1>9 DEF IInv, TypeOK

LEMMA Transacting == ASSUME Constants, IInv, NEW c \in Callers, Renew(c) PROVE Owed(c)
<1> DEFINE r == row(c)
           start == Max({subs[r].expires, today})
           Calls == [at : {"idle", "create", "renew", "transaction", "expire"},
                     row : RowIds \cup {NoPeriod}, base : Nat, sweep : BOOLEAN]
<1>1. r \in RowIds /\ Exists(r) /\ At(c, "transaction")
  BY DEF Renew, IInv, Good, At
<1>2. UNCHANGED <<today, paidOn, refunded, drops>>
  BY DEF Renew
<1>3. CASE Decline(c) /\ UNCHANGED <<subs, charged, purse>>
  <2>1. /\ doing' \in [Callers -> Calls] /\ \A d \in Callers \ {c} : doing'[d] = doing[d]
        /\ doing'[c].at = "idle" \/ (doing'[c].at = "expire" /\ doing'[c].row = r)
    BY <1>3, Idle DEF Decline, Go, Done, IInv, TypeOK, row
  <2>2. RenewalChargedOnce' /\ Money'
    BY <1>2, <1>3, SameRenewals DEF Exists
  <2> QED
    BY <1>1, <1>2, <1>3, <2>1, <2>2 DEF Owed, Keeps, IInv, TypeOK, Good, At, row, Exists
<1>4. CASE ~(Decline(c) /\ UNCHANGED <<subs, charged, purse>>)
  <2>1. /\ ~KeyTaken(r) /\ CanPay(r) /\ Done(c) /\ charged' = charged \cup {r}
        /\ purse' = IF r \in charged THEN purse ELSE purse - 1
    BY <1>4 DEF Renew
  <2>2. PICK s \in Renewals :
          /\ ~Exists(s)
          /\ subs' = [subs EXCEPT ![r].status = "EXPIRED",
                       ![s] = [status |-> "ACTIVE", starts |-> start,
                               expires |-> start + DurationDays, by |-> r]]
    BY <1>4 DEF Renew
  <2>3. start \in Nat
    <3>1. subs[r].expires \in Nat /\ today \in Nat
      BY <1>1 DEF IInv, TypeOK
    <3> HIDE DEF r
    <3> QED
      BY <3>1, LaterIsNat
  <2> HIDE DEF start, r
  <2>4. /\ subs' \in [RowIds -> [status : {"absent", "ACTIVE", "EXPIRED"}, starts : Nat, expires : Nat,
                                 by : RowIds \cup {NoPeriod}]]
        /\ charged' \subseteq RowIds /\ purse' \in 0 .. Purse
        /\ \A t \in RowIds : Exists(t) => Exists(t)'
        /\ RenewalChargedOnce' /\ Money'
    BY <1>1, <1>2, <2>1, <2>2, <2>3, Renewing
  <2> QED
    BY <1>2, <2>1, <2>4, Idle DEF Owed, Keeps, IInv, TypeOK, Good, At, Done
<1> QED
  BY <1>3, <1>4

-----------------------------------------------------------------------------
\* One step of anybody.
LEMMA Inductive == ASSUME Constants, IInv, [Next]_vars PROVE IInv'
<1>1. CASE UNCHANGED vars
  BY <1>1 DEF vars, IInv, TypeOK, RenewalChargedOnce, Money, Renewed, Exists, Good, At, row
<1>2. ASSUME NEW c \in Callers, Owed(c) PROVE IInv'
  <2>1. \A d \in Callers \ {c} : Good(d)'
    BY <1>2, Frame DEF Owed, IInv
  <2> QED
    BY <1>2, <2>1 DEF Owed, IInv
<1> QED
  BY <1>1, <1>2, Elsewhere, Reading, Creating, Expiring, Transacting DEF Next, Work

\* Every behaviour keeps the invariant.
THEOREM InductiveInvariant == ASSUME Constants PROVE Spec => []IInv
<1>1. Init => IInv
  BY Initially
<1>2. IInv /\ [Next]_vars => IInv'
  BY Inductive
<1> QED
  BY <1>1, <1>2, PTL DEF Spec

\* The types of the rows, of the balance and of what calls have read.
THEOREM TypeCorrect == ASSUME Constants PROVE Spec => []TypeOK
<1>1. IInv => TypeOK
  BY DEF IInv
<1> QED
  BY <1>1, InductiveInvariant, PTL

\* A period is renewed at most once, and charged exactly when it is
\* (renewFromBalance).
THEOREM RenewedOnce == ASSUME Constants PROVE Spec => []RenewalChargedOnce
<1>1. IInv => RenewalChargedOnce
  BY DEF IInv
<1> QED
  BY <1>1, InductiveInvariant, PTL

=============================================================================
