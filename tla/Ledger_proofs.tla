--------------------------- MODULE Ledger_proofs ---------------------------
(***************************************************************************)
(* The ledger's safety for every number of processes, users, keys and      *)
(* amounts.                                                                *)
(*                                                                         *)
(* The argument is the one lockUserBalance is there for: a transaction     *)
(* that has written anything, or has got past the lock statement of a      *)
(* call, holds the lock of the one user it moves money for (Locked).  So   *)
(* nobody else has uncommitted rows of that user, nobody else's commit     *)
(* changes that user's balance or keys, and what the transaction read of   *)
(* them is still so when it writes (KeyIsFresh, ReadIsCurrent).            *)
(*                                                                         *)
(* Everything the invariant says of one process is Good(p).  A step of one *)
(* process leaves the others Good for one of two reasons: nothing of their *)
(* user changed (Frame), or they have neither written nor read anything    *)
(* yet (Waiting).                                                          *)
(***************************************************************************)
EXTENDS Ledger, TLAPS

InCall(p) == pc[p] \in {"lock", "find", "sum", "insert", "record"}
PastLock(p) == pc[p] \in {"find", "sum", "insert", "record"}
Clean(p) == pend[p].rows = {}

\* A call in progress has a key of the user the transaction works for.
CallOfUser(p) ==
  InCall(p) => call[p] \in Calls /\ user[p] = KeyUser[call[p].key]

\* Past the lock statement, or with anything written, the lock is held.
Locked(p) ==
  PastLock(p) \/ ~Clean(p) => user[p] \in Users /\ lock[user[p]] = p

\* What is written belongs to the transaction's user and is not committed yet.
PendingOfUser(p) ==
  /\ \A k \in pend[p].rows : KeyUser[k] = user[p] /\ k \notin records
  /\ Clean(p) => pend[p].cents = 0

\* Rows and records go together, except between the two inserts of a call.
PendingPaired(p) ==
  pend[p].rows = pend[p].records \cup (IF pc[p] = "record" THEN {call[p].key} ELSE {})

\* The idempotency read is still true when the row and the record are written.
KeyIsFresh(p) ==
  pc[p] \in {"sum", "insert", "record"} => call[p].key \notin records \cup pend[p].records

\* So is the sum the refusal is decided on.
ReadIsCurrent(p) ==
  pc[p] = "insert" => read[p] = balance[user[p]] + pend[p].cents

\* No transaction may take its user below zero by committing.
PendingCovered(p) ==
  user[p] \in Users => balance[user[p]] + pend[p].cents >= 0

\* Outside a transaction nothing is left over.
IdleIsClean(p) == pc[p] = "idle" => user[p] = NoUser /\ Clean(p)

Good(p) ==
  /\ CallOfUser(p)
  /\ Locked(p)
  /\ PendingOfUser(p)
  /\ PendingPaired(p)
  /\ KeyIsFresh(p)
  /\ ReadIsCurrent(p)
  /\ PendingCovered(p)
  /\ IdleIsClean(p)

IInv ==
  /\ TypeOK
  /\ \A p \in Procs : Good(p)
  /\ BalanceNeverNegative
  /\ PostedOncePerKey

\* A step of somebody else.
Same(q) ==
  /\ pc'[q] = pc[q]
  /\ user'[q] = user[q]
  /\ call'[q] = call[q]
  /\ read'[q] = read[q]
  /\ pend'[q] = pend[q]

-----------------------------------------------------------------------------
\* A process that has written nothing and is not past the lock statement of a
\* call depends on no shared state but its user's balance being covered.
LEMMA Waiting ==
  ASSUME NEW q \in Procs, TypeOK', Good(q), Same(q),
         ~PastLock(q), Clean(q), BalanceNeverNegative'
  PROVE  Good(q)'
<1>1. CallOfUser(q)' /\ Locked(q)' /\ KeyIsFresh(q)' /\ ReadIsCurrent(q)' /\ IdleIsClean(q)'
  BY DEF Good, Same, CallOfUser, Locked, KeyIsFresh, ReadIsCurrent, IdleIsClean, InCall, PastLock, Clean
<1>2. PendingOfUser(q)' /\ PendingPaired(q)'
  BY DEF Good, Same, PendingOfUser, PendingPaired, PastLock, Clean
<1>3. PendingCovered(q)'
  BY DEF Good, Same, PendingOfUser, PendingCovered, Clean, BalanceNeverNegative, TypeOK
<1> QED BY <1>1, <1>2, <1>3 DEF Good

\* A process is left as it was by a step that keeps the lock it holds, its
\* user's balance and its user's records.
LEMMA Frame ==
  ASSUME NEW q \in Procs, TypeOK, Good(q), Same(q),
         user[q] \in Users /\ lock[user[q]] = q => lock'[user[q]] = q,
         user[q] \in Users => balance'[user[q]] = balance[user[q]],
         \A k \in Keys : KeyUser[k] = user[q] => (k \in records' <=> k \in records)
  PROVE  Good(q)'
<1>1. CallOfUser(q)' /\ Locked(q)' /\ IdleIsClean(q)'
  BY DEF Good, Same, CallOfUser, Locked, IdleIsClean, InCall, PastLock, Clean
<1>2. PendingOfUser(q)' /\ PendingPaired(q)'
  BY DEF Good, Same, PendingOfUser, PendingPaired, Clean, TypeOK, Writes
<1>3. KeyIsFresh(q)'
  BY DEF Good, Same, KeyIsFresh, CallOfUser, InCall, Calls
<1>4. ReadIsCurrent(q)' /\ PendingCovered(q)'
  BY DEF Good, Same, ReadIsCurrent, PendingCovered, Locked, PastLock
<1> QED BY <1>1, <1>2, <1>3, <1>4 DEF Good

\* Most statements write nothing another transaction can see.
LEMMA PrivateStep ==
  ASSUME NEW p \in Procs, IInv, TypeOK', Good(p)',
         UNCHANGED <<balance, rows, records, lock>>,
         \A q \in Procs \ {p} : Same(q)
  PROVE  IInv'
<1>1. ASSUME NEW q \in Procs \ {p} PROVE Good(q)'
  BY <1>1, Frame DEF IInv
<1>2. BalanceNeverNegative' /\ PostedOncePerKey'
  BY DEF IInv, BalanceNeverNegative, PostedOncePerKey
<1> QED BY <1>1, <1>2 DEF IInv

-----------------------------------------------------------------------------
\* The caller opens a transaction.
LEMMA BeginStep ==
  ASSUME NEW p \in Procs, IInv, Begin(p)
  PROVE  IInv'
<1>1. TypeOK'
  BY DEF IInv, Begin, Goto, TypeOK, Labels
<1>2. Good(p)'
  <2>1. pc[p] = "idle" /\ pc'[p] = "body" /\ Good(p)
    BY DEF Begin, Goto, IInv, TypeOK
  <2> QED BY <2>1 DEF Begin, Good, CallOfUser, Locked, PendingOfUser, PendingPaired, KeyIsFresh, ReadIsCurrent, PendingCovered, IdleIsClean, InCall, PastLock, Clean
<1>3. \A q \in Procs \ {p} : Same(q)
  BY DEF IInv, TypeOK, Begin, Goto, Same
<1> QED BY <1>1, <1>2, <1>3, PrivateStep DEF Begin

\* A ledger call starts: it may be the first of its transaction, which then
\* gets its user, whose committed balance covers it.
LEMMA EnterStep ==
  ASSUME NEW p \in Procs, NEW k \in Keys, NEW c \in Int \ {0}, IInv, Enter(p, k, c)
  PROVE  IInv'
<1>1. TypeOK'
  BY KeyUserAssumption DEF IInv, Enter, Goto, TypeOK, Labels, Calls
<1>2. Good(p)'
  <2>1. /\ Good(p)
        /\ pc[p] = "body" /\ pc'[p] = "lock"
        /\ user[p] \in {NoUser, KeyUser[k]} /\ user'[p] = KeyUser[k] /\ KeyUser[k] \in Users
        /\ call'[p] = [key |-> k, cents |-> c]
        /\ UNCHANGED <<balance, records, lock, read, pend>>
    BY KeyUserAssumption DEF Enter, Goto, IInv, TypeOK
  <2>2. CallOfUser(p)' /\ KeyIsFresh(p)' /\ ReadIsCurrent(p)' /\ IdleIsClean(p)'
    BY <2>1 DEF CallOfUser, Calls, KeyIsFresh, ReadIsCurrent, IdleIsClean
  <2>3. Clean(p) \/ user'[p] = user[p]
    BY <2>1, NullAssumption DEF Good, Locked
  <2>4. Locked(p)' /\ PendingOfUser(p)' /\ PendingPaired(p)'
    BY <2>1, <2>3 DEF Good, Locked, PendingOfUser, PendingPaired, PastLock, Clean
  <2>5. PendingCovered(p)'
    BY <2>1, <2>3 DEF Good, PendingCovered, PendingOfUser, IInv, BalanceNeverNegative, TypeOK
  <2> QED BY <2>2, <2>4, <2>5 DEF Good
<1>3. \A q \in Procs \ {p} : Same(q)
  BY DEF IInv, TypeOK, Enter, Goto, Same
<1> QED BY <1>1, <1>2, <1>3, PrivateStep DEF Enter

\* The lock is granted: it was free or the transaction's own, so nobody loses it.
LEMMA LockStep ==
  ASSUME NEW p \in Procs, IInv, LockUserBalance(p)
  PROVE  IInv'
<1>1. /\ pc[p] = "lock" /\ pc'[p] = "find" /\ user[p] \in Users
      /\ lock[user[p]] \in {NoProc, p} /\ lock' = [lock EXCEPT ![user[p]] = p]
      /\ UNCHANGED <<balance, rows, records, user, call, read, pend>>
  BY KeyUserAssumption DEF LockUserBalance, Goto, IInv, TypeOK, Good, CallOfUser, InCall, Calls
<1>2. TypeOK'
  BY <1>1 DEF IInv, LockUserBalance, Goto, TypeOK, Labels
<1>3. Good(p)'
  BY <1>1 DEF IInv, TypeOK, Good, CallOfUser, Locked, PendingOfUser, PendingPaired, KeyIsFresh, ReadIsCurrent, PendingCovered, IdleIsClean, InCall, Clean
<1>4. ASSUME NEW q \in Procs \ {p} PROVE Good(q)'
  <2>1. user[q] \in Users /\ lock[user[q]] = q => lock'[user[q]] = q
    BY <1>1, <1>4, NullAssumption DEF IInv, TypeOK
  <2>2. Same(q)
    BY <1>1 DEF LockUserBalance, Goto, IInv, TypeOK, Same
  <2> QED BY <1>1, <2>1, <2>2, Frame DEF IInv
<1>5. BalanceNeverNegative' /\ PostedOncePerKey'
  BY <1>1 DEF IInv, BalanceNeverNegative, PostedOncePerKey
<1> QED BY <1>2, <1>3, <1>4, <1>5 DEF IInv

\* The idempotency read: an unknown key is neither committed nor pending.
LEMMA FindStep ==
  ASSUME NEW p \in Procs, IInv, FindExistingLedgerResult(p)
  PROVE  IInv'
<1>1. TypeOK'
  BY DEF IInv, FindExistingLedgerResult, Goto, TypeOK, Labels
<1>2. Good(p)'
  <2>1. /\ Good(p)
        /\ pc[p] = "find"
        /\ \/ pc'[p] = "body"
           \/ pc'[p] = "sum" /\ call[p].key \notin records \cup pend[p].records
        /\ UNCHANGED <<balance, records, lock, user, call, read, pend>>
    BY DEF FindExistingLedgerResult, Goto, IInv, TypeOK
  <2> QED BY <2>1 DEF Good, CallOfUser, Locked, PendingOfUser, PendingPaired, KeyIsFresh, ReadIsCurrent, PendingCovered, IdleIsClean, InCall, PastLock, Clean
<1>3. \A q \in Procs \ {p} : Same(q)
  BY DEF IInv, TypeOK, FindExistingLedgerResult, Goto, Same
<1> QED BY <1>1, <1>2, <1>3, PrivateStep DEF FindExistingLedgerResult

\* The aggregate: current now, and as long as the lock is held.
LEMMA GetBalanceStep ==
  ASSUME NEW p \in Procs, IInv, GetBalance(p)
  PROVE  IInv'
<1>1. /\ Good(p) /\ user[p] \in Users
      /\ pc[p] = "sum" /\ pc'[p] = "insert"
      /\ read'[p] = balance[user[p]] + pend[p].cents
      /\ UNCHANGED <<balance, rows, records, lock, user, call, pend>>
  BY DEF GetBalance, Goto, IInv, TypeOK, Good, Locked, PastLock
<1>2. TypeOK'
  BY <1>1 DEF IInv, GetBalance, Goto, TypeOK, Labels, Writes
<1>3. Good(p)'
  BY <1>1 DEF Good, CallOfUser, Locked, PendingOfUser, PendingPaired, KeyIsFresh, ReadIsCurrent, PendingCovered, IdleIsClean, InCall, PastLock, Clean
<1>4. \A q \in Procs \ {p} : Same(q)
  BY DEF IInv, TypeOK, GetBalance, Goto, Same
<1> QED BY <1>1, <1>2, <1>3, <1>4, PrivateStep

\* The row: its key is new, and the balance it was checked against is the
\* user's, so that the transaction stays covered.
LEMMA CreateRowStep ==
  ASSUME NEW p \in Procs, IInv, CreateRow(p)
  PROVE  IInv'
<1>1. /\ Good(p) /\ user[p] \in Users /\ call[p] \in Calls
      /\ pc[p] = "insert" /\ pc'[p] = "record"
      /\ read[p] + call[p].cents >= 0
      /\ pend'[p] = [pend[p] EXCEPT !.rows = @ \cup {call[p].key}, !.cents = @ + call[p].cents]
      /\ pend[p] \in Writes
      /\ UNCHANGED <<balance, rows, records, lock, user, call, read>>
  BY DEF CreateRow, Goto, IInv, TypeOK, Good, CallOfUser, Locked, InCall, PastLock
<1>2. TypeOK'
  <2>1. pend' \in [Procs -> Writes]
    <3>1. pend'[p] \in Writes
      <4>1. call[p].key \in Keys /\ call[p].cents \in Int
        BY <1>1 DEF Calls
      <4>2. pend[p].rows \cup {call[p].key} \in SUBSET Keys /\ pend[p].cents + call[p].cents \in Int
        BY <1>1, <4>1 DEF Writes
      <4> QED BY <1>1, <4>2 DEF Writes
    <3>2. pend' = [q \in Procs |-> IF q = p THEN pend'[p] ELSE pend[q]]
      BY DEF CreateRow, IInv, TypeOK
    <3> QED BY <3>1, <3>2 DEF IInv, TypeOK
  <2> QED BY <1>1, <2>1 DEF IInv, CreateRow, Goto, TypeOK, Labels
<1>3. Good(p)'
  <2>1. /\ pend'[p].rows = pend[p].rows \cup {call[p].key}
        /\ pend'[p].cents = pend[p].cents + call[p].cents
        /\ pend'[p].records = pend[p].records
    BY <1>1 DEF Writes
  <2>2. CallOfUser(p)' /\ Locked(p)' /\ KeyIsFresh(p)' /\ ReadIsCurrent(p)' /\ IdleIsClean(p)'
    BY <1>1, <2>1 DEF Good, CallOfUser, Locked, KeyIsFresh, ReadIsCurrent, IdleIsClean, InCall, PastLock
  <2>3. PendingOfUser(p)' /\ PendingPaired(p)'
    BY <1>1, <2>1 DEF Good, PendingOfUser, PendingPaired, CallOfUser, KeyIsFresh, InCall, Clean
  <2>4. PendingCovered(p)'
    <3>1. read[p] = balance[user[p]] + pend[p].cents
      BY <1>1 DEF Good, ReadIsCurrent
    <3>2. balance[user[p]] \in Int /\ pend[p].cents \in Int /\ call[p].cents \in Int
      BY <1>1 DEF IInv, TypeOK, Writes, Calls
    <3> QED BY <1>1, <2>1, <3>1, <3>2 DEF PendingCovered
  <2> QED BY <2>2, <2>3, <2>4 DEF Good
<1>4. \A q \in Procs \ {p} : Same(q)
  BY DEF IInv, TypeOK, CreateRow, Goto, Same
<1> QED BY <1>1, <1>2, <1>3, <1>4, PrivateStep

\* The record joins its row.
LEMMA CreateRecordStep ==
  ASSUME NEW p \in Procs, IInv, CreateRecord(p)
  PROVE  IInv'
<1>1. /\ Good(p) /\ call[p] \in Calls
      /\ pc[p] = "record" /\ pc'[p] = "body"
      /\ pend'[p] = [pend[p] EXCEPT !.records = @ \cup {call[p].key}]
      /\ pend[p] \in Writes
      /\ UNCHANGED <<balance, rows, records, lock, user, call, read>>
  BY DEF CreateRecord, Goto, IInv, TypeOK, Good, CallOfUser, InCall
<1>2. TypeOK'
  BY <1>1 DEF IInv, CreateRecord, Goto, TypeOK, Labels, Writes, Calls
<1>3. Good(p)'
  <2>1. /\ pend'[p].rows = pend[p].rows
        /\ pend'[p].cents = pend[p].cents
        /\ pend'[p].records = pend[p].records \cup {call[p].key}
    BY <1>1 DEF Writes
  <2> QED BY <1>1, <2>1 DEF Good, CallOfUser, Locked, PendingOfUser, PendingPaired, KeyIsFresh, ReadIsCurrent, PendingCovered, IdleIsClean, InCall, PastLock, Clean
<1>4. \A q \in Procs \ {p} : Same(q)
  BY DEF IInv, TypeOK, CreateRecord, Goto, Same
<1> QED BY <1>1, <1>2, <1>3, <1>4, PrivateStep

\* A process that ends its transaction starts from nothing.
LEMMA EndedIsGood ==
  ASSUME NEW p \in Procs, IInv, End(p)
  PROVE  /\ Good(p)'
         /\ \A q \in Procs \ {p} :
              Same(q) /\ (user[q] \in Users /\ lock[user[q]] = q => lock'[user[q]] = q)
<1>1. pc'[p] = "idle" /\ user'[p] = NoUser /\ pend'[p] = Nothing
  BY DEF End, IInv, TypeOK
<1>2. Good(p)'
  BY <1>1, NullAssumption DEF Nothing, Good, CallOfUser, Locked, PendingOfUser, PendingPaired, KeyIsFresh, ReadIsCurrent, PendingCovered, IdleIsClean, InCall, PastLock, Clean
<1> QED BY <1>2 DEF End, IInv, TypeOK, Same

\* A refused, failed or crashed transaction leaves no trace.
LEMMA RollbackStep ==
  ASSUME NEW p \in Procs, IInv, End(p), UNCHANGED <<balance, rows, records>>
  PROVE  IInv'
<1>1. TypeOK'
  BY DEF IInv, End, TypeOK, Labels, NoCall, Nothing, Writes
<1>2. ASSUME NEW q \in Procs \ {p} PROVE Good(q)'
  BY <1>2, EndedIsGood, Frame DEF IInv
<1>3. BalanceNeverNegative' /\ PostedOncePerKey'
  BY DEF IInv, BalanceNeverNegative, PostedOncePerKey
<1> QED BY <1>1, <1>2, <1>3, EndedIsGood DEF IInv

\* A commit adds covered money under new keys to the one user it has locked:
\* whoever else works for that user is still waiting for the lock.
LEMMA CommitStep ==
  ASSUME NEW p \in Procs, IInv, Commit(p)
  PROVE  IInv'
<1>1. /\ End(p) /\ Good(p) /\ pc[p] = "body" /\ pend[p] \in Writes
      /\ balance' = [u \in Users |-> IF u = user[p] THEN balance[u] + pend[p].cents ELSE balance[u]]
      /\ rows' = [k \in Keys |-> IF k \in pend[p].rows THEN rows[k] + 1 ELSE rows[k]]
      /\ records' = records \cup pend[p].records
      /\ pend[p].rows = pend[p].records
  BY DEF Commit, IInv, TypeOK, Good, PendingPaired
<1>2. TypeOK'
  BY <1>1 DEF IInv, End, TypeOK, Labels, NoCall, Nothing, Writes
<1>3. BalanceNeverNegative'
  BY <1>1 DEF IInv, TypeOK, BalanceNeverNegative, Good, PendingCovered
<1>4. PostedOncePerKey'
  <2> SUFFICES ASSUME NEW k \in Keys
               PROVE  rows'[k] <= 1 /\ (rows'[k] = 1 <=> k \in records')
    BY DEF PostedOncePerKey
  <2>1. rows[k] \in Nat /\ rows[k] <= 1 /\ (rows[k] = 1 <=> k \in records)
    BY DEF IInv, PostedOncePerKey, TypeOK
  <2>2. k \in pend[p].rows => k \notin records
    BY <1>1 DEF Good, PendingOfUser
  <2> QED BY <1>1, <2>1, <2>2
<1>5. ASSUME NEW q \in Procs \ {p} PROVE Good(q)'
  <2>1. TypeOK /\ Good(q) /\ Same(q)
    BY <1>1, <1>5, EndedIsGood DEF IInv
  <2>2. user[q] \in Users /\ lock[user[q]] = q => lock'[user[q]] = q
    BY <1>1, <1>5, EndedIsGood
  <2>3. CASE Clean(p)
    <3>1. records' = records /\ (user[q] \in Users => balance'[user[q]] = balance[user[q]])
      BY <1>1, <2>3 DEF Clean, Good, PendingOfUser, IInv, TypeOK
    <3> QED BY <2>1, <2>2, <3>1, Frame
  <2>4. CASE user[q] # user[p]
    <3>1. \A k \in Keys : KeyUser[k] = user[q] => (k \in records' <=> k \in records)
      BY <1>1, <2>4 DEF Good, PendingOfUser
    <3>2. user[q] \in Users => balance'[user[q]] = balance[user[q]]
      BY <1>1, <2>4
    <3> QED BY <2>1, <2>2, <3>1, <3>2, Frame
  <2>5. CASE user[q] = user[p] /\ ~Clean(p)
    <3>1. ~PastLock(q) /\ Clean(q)
      BY <1>1, <1>5, <2>1, <2>5 DEF Good, Locked
    <3> QED BY <1>2, <1>3, <2>1, <3>1, Waiting
  <2> QED BY <2>3, <2>4, <2>5
<1> QED BY <1>1, <1>2, <1>3, <1>4, <1>5, EndedIsGood DEF IInv

-----------------------------------------------------------------------------
\* Empty tables satisfy the invariant.
LEMMA InitIInv == Init => IInv
<1> SUFFICES ASSUME Init PROVE IInv
  OBVIOUS
<1>1. TypeOK
  BY DEF Init, TypeOK, Labels, NoCall, Nothing, Writes
<1>2. ASSUME NEW p \in Procs PROVE Good(p)
  <2>1. pc[p] = "idle" /\ user[p] = NoUser /\ pend[p] = Nothing
    BY DEF Init
  <2> QED BY <2>1, NullAssumption DEF Nothing, Good, CallOfUser, Locked, PendingOfUser, PendingPaired, KeyIsFresh, ReadIsCurrent, PendingCovered, IdleIsClean, InCall, PastLock, Clean
<1>3. BalanceNeverNegative /\ PostedOncePerKey
  BY DEF Init, BalanceNeverNegative, PostedOncePerKey
<1> QED BY <1>1, <1>2, <1>3 DEF IInv

\* Every step of every process preserves it.
LEMMA NextIInv == IInv /\ [Next]_vars => IInv'
<1> SUFFICES ASSUME IInv, [Next]_vars PROVE IInv'
  OBVIOUS
<1>1. ASSUME NEW p \in Procs, Begin(p) PROVE IInv'
  BY <1>1, BeginStep
<1>2. ASSUME NEW p \in Procs, NEW k \in Keys, NEW a \in Amounts, Credit(p, k, a) \/ Debit(p, k, a)
      PROVE  IInv'
  <2>1. a > 0 /\ a \in Int \ {0} /\ -a \in Int \ {0}
    BY <1>2, AmountsAssumption DEF Credit, Debit
  <2> QED BY <1>2, <2>1, EnterStep DEF Credit, Debit
<1>3. ASSUME NEW p \in Procs, Step(p) PROVE IInv'
  <2>1. CASE LockUserBalance(p)
    BY <2>1, LockStep
  <2>2. CASE FindExistingLedgerResult(p)
    BY <2>2, FindStep
  <2>3. CASE GetBalance(p)
    BY <2>3, GetBalanceStep
  <2>4. CASE CreateRow(p)
    BY <2>4, CreateRowStep
  <2>5. CASE CreateRecord(p)
    BY <2>5, CreateRecordStep
  <2>6. CASE Refuse(p)
    BY <2>6, RollbackStep DEF Refuse
  <2> QED BY <1>3, <2>1, <2>2, <2>3, <2>4, <2>5, <2>6 DEF Step
<1>4. ASSUME NEW p \in Procs, Commit(p) PROVE IInv'
  BY <1>4, CommitStep
<1>5. ASSUME NEW p \in Procs, Rollback(p) PROVE IInv'
  BY <1>5, RollbackStep DEF Rollback
<1>6. CASE UNCHANGED vars
  <2>1. TypeOK' /\ BalanceNeverNegative' /\ PostedOncePerKey'
    BY <1>6 DEF vars, IInv, TypeOK, BalanceNeverNegative, PostedOncePerKey
  <2>2. ASSUME NEW q \in Procs PROVE Good(q)'
    BY <1>6, Frame DEF vars, IInv, Same
  <2> QED BY <2>1, <2>2 DEF IInv
<1> QED BY <1>1, <1>2, <1>3, <1>4, <1>5, <1>6 DEF Next

\* The strengthening of the ledger's properties that every step preserves.
THEOREM InductiveInvariant == Spec => []IInv
<1> QED BY InitIInv, NextIInv, PTL DEF Spec

\* Every variable of the ledger keeps its type.
THEOREM TypeCorrect == Spec => []TypeOK
<1> QED BY InductiveInvariant, PTL DEF IInv

\* No user's committed balance goes below zero, however calls overlap and
\* wherever transactions end.
THEOREM NeverNegative == Spec => []BalanceNeverNegative
<1> QED BY InductiveInvariant, PTL DEF IInv

\* A key moves money at most once, and exactly when it has a record.
THEOREM ExactlyOnce == Spec => []PostedOncePerKey
<1> QED BY InductiveInvariant, PTL DEF IInv

\* A debit is checked against the balance its row is added to.
THEOREM CheckIsCurrent == Spec => []CheckedBalanceIsCurrent
<1>1. IInv => CheckedBalanceIsCurrent
  BY DEF IInv, Good, ReadIsCurrent, CheckedBalanceIsCurrent
<1> QED BY <1>1, InductiveInvariant, PTL

\* With the lock first, the insert of a record never meets its own key.
THEOREM RecordsNeverCollide == Spec => []RecordInsertNeverCollides
<1>1. IInv => RecordInsertNeverCollides
  <2> SUFFICES ASSUME IInv, NEW p \in Procs, pc[p] = "record"
               PROVE  call[p].key \notin records /\ ~KeyInFlight(p)
    BY DEF RecordInsertNeverCollides
  <2>1. call[p].key \notin records
    BY DEF IInv, Good, KeyIsFresh
  <2>2. user[p] = KeyUser[call[p].key] /\ lock[user[p]] = p
    BY DEF IInv, Good, CallOfUser, InCall, Locked, PastLock
  <2>3. ASSUME NEW q \in Procs \ {p}, call[p].key \in pend[q].records PROVE FALSE
    <3>1. call[p].key \in pend[q].rows
      BY <2>3 DEF IInv, Good, PendingPaired
    <3>2. user[q] = user[p] /\ lock[user[q]] = q
      BY <2>2, <3>1 DEF IInv, Good, PendingOfUser, Locked, Clean
    <3> QED BY <2>2, <3>2
  <2> QED BY <2>1, <2>3 DEF KeyInFlight
<1> QED BY <1>1, InductiveInvariant, PTL

\* Each commit is one exactly-once posting on one account, and every other
\* step is invisible: the ledger implements the accounts it promises.
THEOREM Refinement == Spec => ImplementsAccounts
<1>1. Init => Abstract!Init
  BY DEF Init, Abstract!Init
<1>2. IInv /\ [Next]_vars => [Abstract!Next]_(Abstract!vars)
  <2> SUFFICES ASSUME IInv, [Next]_vars, ~UNCHANGED <<balance, records>>
               PROVE  Abstract!Next
    BY DEF Abstract!vars
  <2>1. PICK p \in Procs : Commit(p)
    BY DEF Next, vars, Begin, Credit, Debit, Enter, Step, LockUserBalance, FindExistingLedgerResult, GetBalance, CreateRow, CreateRecord, Refuse, Rollback
  <2>2. /\ Good(p) /\ pend[p] \in Writes
        /\ pend[p].rows = pend[p].records
    BY <2>1 DEF Commit, IInv, TypeOK, Good, PendingPaired
  <2>3. pend[p].records # {}
    <3> SUFFICES ASSUME pend[p].records = {} PROVE FALSE
      OBVIOUS
    <3>1. pend[p].cents = 0
      BY <2>2 DEF Good, PendingOfUser, Clean
    <3>2. balance' = balance /\ records' = records
      BY <2>1, <3>1 DEF Commit, IInv, TypeOK
    <3> QED BY <3>2
  <2>4. user[p] \in Users /\ \A k \in pend[p].records : KeyUser[k] = user[p] /\ k \notin records
    BY <2>2, <2>3 DEF Good, Locked, Clean, PendingOfUser
  <2>5. Abstract!Post(user[p], pend[p].records)
    BY <2>1, <2>2, <2>3, <2>4 DEF Abstract!Post, Commit, IInv, TypeOK, Writes, Good, PendingCovered
  <2> QED BY <2>2, <2>4, <2>5 DEF Abstract!Next, Writes
<1> QED BY <1>1, <1>2, InductiveInvariant, PTL DEF Spec, ImplementsAccounts, Abstract!Spec
=============================================================================
