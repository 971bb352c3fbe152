------------------------------- MODULE Ledger -------------------------------
(***************************************************************************)
(* packages/core/src/ledger.ts, statement by statement.                    *)
(*                                                                         *)
(* credit() and debit() run inside a Postgres transaction of the caller,   *)
(* at the default isolation level, READ COMMITTED: a statement sees what   *)
(* was committed before it started plus the writes of its own transaction, *)
(* and nothing it read stays true afterwards.  What makes the ledger safe  *)
(* is therefore only the advisory lock, the idempotency record and the     *)
(* unique key of that record; each is a step of its own here so that the   *)
(* steps of two transactions interleave.                                   *)
(*                                                                         *)
(* A transaction may make several ledger calls (a reclaim and a credit of  *)
(* one settlement), all for one user, and may fail between any two of its  *)
(* statements: the caller throws, or the process dies.                     *)
(***************************************************************************)
EXTENDS Integers, FiniteSets

CONSTANTS Procs,    \* backend processes: bot handlers, worker jobs, admin
          Users,    \* owners of a balance
          Keys,     \* idempotency keys in use
          KeyUser,  \* a key is built from an order or payment id: one owner
          Amounts,  \* amountCents values a caller asks for
          NoProc, NoUser, NoKey

ASSUME KeyUserAssumption == KeyUser \in [Keys -> Users]
ASSUME AmountsAssumption == Amounts \subseteq Nat
ASSUME NullAssumption == NoProc \notin Procs /\ NoUser \notin Users /\ NoKey \notin Keys

VARIABLES
  balance,  \* getBalance: SUM of the committed rows of a user
  rows,     \* number of committed BalanceTransaction rows per key
  records,  \* keys with a committed IdempotencyRecord
  lock,     \* holder of pg_advisory_xact_lock(hashtext(userId))
  pc,       \* statement the process runs next
  user,     \* user whose money the open transaction moves
  call,     \* arguments of the ledger call in progress
  read,     \* currentBalance as the aggregate returned it
  pend      \* rows and records the open transaction has written

vars == <<balance, rows, records, lock, pc, user, call, read, pend>>

Labels == {"idle", "body", "lock", "find", "sum", "insert", "record"}
NoCall == [key |-> NoKey, cents |-> 0]
Calls == [key : Keys, cents : Int \ {0}]
Nothing == [rows |-> {}, cents |-> 0, records |-> {}]
Writes == [rows : SUBSET Keys, cents : Int, records : SUBSET Keys]

TypeOK ==
  /\ balance \in [Users -> Int]
  /\ rows \in [Keys -> Nat]
  /\ records \subseteq Keys
  /\ lock \in [Users -> Procs \cup {NoProc}]
  /\ pc \in [Procs -> Labels]
  /\ user \in [Procs -> Users \cup {NoUser}]
  /\ call \in [Procs -> Calls \cup {NoCall}]
  /\ read \in [Procs -> Int]
  /\ pend \in [Procs -> Writes]

Init ==
  /\ balance = [u \in Users |-> 0]
  /\ rows = [k \in Keys |-> 0]
  /\ records = {}
  /\ lock = [u \in Users |-> NoProc]
  /\ pc = [p \in Procs |-> "idle"]
  /\ user = [p \in Procs |-> NoUser]
  /\ call = [p \in Procs |-> NoCall]
  /\ read = [p \in Procs |-> 0]
  /\ pend = [p \in Procs |-> Nothing]

Goto(p, from, to) == pc[p] = from /\ pc' = [pc EXCEPT ![p] = to]

-----------------------------------------------------------------------------
\* prisma.$transaction opened by the caller.
Begin(p) ==
  /\ Goto(p, "idle", "body")
  /\ UNCHANGED <<balance, rows, records, lock, user, call, read, pend>>

\* writeLedgerEntry is entered with a signed amount.
Enter(p, k, cents) ==
  /\ Goto(p, "body", "lock")
  /\ user[p] \in {NoUser, KeyUser[k]}
  /\ user' = [user EXCEPT ![p] = KeyUser[k]]
  /\ call' = [call EXCEPT ![p] = [key |-> k, cents |-> cents]]
  /\ UNCHANGED <<balance, rows, records, lock, read, pend>>

\* Variant: the RangeError check on the amount is missing.
CreditUnchecked(p, k, a) == Enter(p, k, a)

\* credit() and debit(): the sign is the operation's.  An amount that is not
\* positive is a RangeError, which leaves the caller only its Rollback.
Credit(p, k, a) == a > 0 /\ Enter(p, k, a)
Debit(p, k, a) == a > 0 /\ Enter(p, k, -a)

\* Variant: pg_advisory_lock left out, the transaction relies on its isolation.
LockUserBalanceSkipped(p) ==
  /\ Goto(p, "lock", "find")
  /\ UNCHANGED <<balance, rows, records, lock, user, call, read, pend>>

\* lockUserBalance: the lock is held to the end of the transaction and a
\* transaction that has it already passes.
LockUserBalance(p) ==
  /\ Goto(p, "lock", "find")
  /\ lock[user[p]] \in {NoProc, p}
  /\ lock' = [lock EXCEPT ![user[p]] = p]
  /\ UNCHANGED <<balance, rows, records, user, call, read, pend>>

\* findExistingLedgerResult: a repeat returns the stored result, books nothing.
FindExistingLedgerResult(p) ==
  LET known == call[p].key \in records \cup pend[p].records
  IN  /\ Goto(p, "find", IF known THEN "body" ELSE "sum")
      /\ UNCHANGED <<balance, rows, records, lock, user, call, read, pend>>

\* getBalance: aggregates what is visible to the transaction at this statement.
GetBalance(p) ==
  /\ Goto(p, "sum", "insert")
  /\ read' = [read EXCEPT ![p] = balance[user[p]] + pend[p].cents]
  /\ UNCHANGED <<balance, rows, records, lock, user, call, pend>>

\* Variant: the refusal of a negative newBalance is forgotten.
CreateRowUnchecked(p) ==
  /\ Goto(p, "insert", "record")
  /\ pend' = [pend EXCEPT ![p].rows = @ \cup {call[p].key},
                          ![p].cents = @ + call[p].cents]
  /\ UNCHANGED <<balance, rows, records, lock, user, call, read>>

\* balanceTransaction.create, after newBalance < 0 has been ruled out.
CreateRow(p) ==
  /\ Goto(p, "insert", "record")
  /\ read[p] + call[p].cents >= 0
  /\ pend' = [pend EXCEPT ![p].rows = @ \cup {call[p].key},
                          ![p].cents = @ + call[p].cents]
  /\ UNCHANGED <<balance, rows, records, lock, user, call, read>>

\* The unique key of IdempotencyRecord, as a waiting or failing insert meets it.
KeyInFlight(p) == \E q \in Procs \ {p} : call[p].key \in pend[q].records

\* Variant: the record is written through the pool client, not through tx.
CreateRecordOutsideTx(p) ==
  /\ Goto(p, "record", "body")
  /\ call[p].key \notin records
  /\ records' = records \cup {call[p].key}
  /\ UNCHANGED <<balance, rows, lock, user, call, read, pend>>

\* idempotencyRecord.create
CreateRecord(p) ==
  /\ Goto(p, "record", "body")
  /\ call[p].key \notin records
  /\ ~KeyInFlight(p)
  /\ pend' = [pend EXCEPT ![p].records = @ \cup {call[p].key}]
  /\ UNCHANGED <<balance, rows, records, lock, user, call, read>>

\* Variant: pg_advisory_lock, which the end of a transaction does not release.
EndKeepingLock(p) ==
  /\ pc' = [pc EXCEPT ![p] = "idle"]
  /\ user' = [user EXCEPT ![p] = NoUser]
  /\ call' = [call EXCEPT ![p] = NoCall]
  /\ read' = [read EXCEPT ![p] = 0]
  /\ pend' = [pend EXCEPT ![p] = Nothing]
  /\ UNCHANGED lock

\* The end of a transaction releases its lock and forgets its locals.
End(p) ==
  /\ pc' = [pc EXCEPT ![p] = "idle"]
  /\ lock' = [u \in Users |-> IF lock[u] = p THEN NoProc ELSE lock[u]]
  /\ user' = [user EXCEPT ![p] = NoUser]
  /\ call' = [call EXCEPT ![p] = NoCall]
  /\ read' = [read EXCEPT ![p] = 0]
  /\ pend' = [pend EXCEPT ![p] = Nothing]

\* The caller's transaction commits: all its rows and records at once.
Commit(p) ==
  /\ pc[p] = "body"
  /\ balance' = [u \in Users |-> IF u = user[p] THEN balance[u] + pend[p].cents ELSE balance[u]]
  /\ rows' = [k \in Keys |-> IF k \in pend[p].rows THEN rows[k] + 1 ELSE rows[k]]
  /\ records' = records \cup pend[p].records
  /\ End(p)

\* InsufficientBalanceError leaves writeLedgerEntry and rolls the caller back.
Refuse(p) ==
  /\ pc[p] = "insert"
  /\ read[p] + call[p].cents < 0
  /\ End(p)
  /\ UNCHANGED <<balance, rows, records>>

\* The caller throws (a P2002 on the record's key among its reasons), the
\* process dies, or the transaction times out.
Rollback(p) ==
  /\ pc[p] # "idle"
  /\ End(p)
  /\ UNCHANGED <<balance, rows, records>>

Step(p) ==
  \/ LockUserBalance(p) \/ FindExistingLedgerResult(p) \/ GetBalance(p)
  \/ CreateRow(p) \/ CreateRecord(p) \/ Refuse(p)

Next ==
  \E p \in Procs :
    \/ Begin(p)
    \/ \E k \in Keys, a \in Amounts : Credit(p, k, a)
    \/ \E k \in Keys, a \in Amounts : Debit(p, k, a)
    \/ Step(p)
    \/ Commit(p)
    \/ Rollback(p)

Spec == Init /\ [][Next]_vars

\* Postgres grants an advisory lock in request order, a statement returns, and
\* a transaction makes finitely many ledger calls before it commits or is
\* rolled back (by its caller, or by the timeout of interactive transactions).
Fairness ==
  \A p \in Procs :
    /\ SF_vars(LockUserBalance(p))
    /\ WF_vars(Step(p))
    /\ SF_vars(pc[p] = "body" /\ (Commit(p) \/ Rollback(p)))

LiveSpec == Spec /\ Fairness

-----------------------------------------------------------------------------
\* The shop never lends: no committed history of calls, however they overlap,
\* leaves a user below zero (writeLedgerEntry refuses newBalance < 0, but on a
\* sum it read some statements earlier).
BalanceNeverNegative == \A u \in Users : balance[u] >= 0

\* A key moves money at most once, and a key has a record exactly when it has
\* a row, whatever was retried, rolled back or cut short by a crash.
PostedOncePerKey ==
  \A k \in Keys : rows[k] <= 1 /\ (rows[k] = 1 <=> k \in records)

\* "Lock first: two writers with the same key must serialise before the
\* idempotency read, or both miss the record and the second insert dies on the
\* unique key": with the lock taken first no insert of a record ever meets its
\* key, committed or in flight.
RecordInsertNeverCollides ==
  \A p \in Procs : pc[p] = "record" => call[p].key \notin records /\ ~KeyInFlight(p)

\* The balance a debit was checked against is still the balance when its row is
\* written: the stale read that READ COMMITTED allows is shut out by the lock.
CheckedBalanceIsCurrent ==
  \A p \in Procs : pc[p] = "insert" => read[p] = balance[user[p]] + pend[p].cents

\* The ledger behaves like atomic accounts with exactly-once keys.
Abstract == INSTANCE Accounts WITH posted <- records
ImplementsAccounts == Abstract!Spec

\* A call waiting for the user's lock gets it or is rolled back: holders do not
\* keep the lock forever and waiters are served.
LockEventuallyServed == \A p \in Procs : pc[p] = "lock" ~> pc[p] # "lock"
=============================================================================
