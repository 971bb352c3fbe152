SPECIFICATION LiveSpec
CONSTANTS
  p1 = p1
  p2 = p2
  ann = ann
  bob = bob
  order = order
  topup = topup
  second = second
  bonus = bonus
  Procs = {p1, p2}
  Users = {ann, bob}
  Keys = {order, topup, second, bonus}
  KeyUser <- MCKeyUser
  Amounts = {0, 1}
  NoProc = NoProc
  NoUser = NoUser
  NoKey = NoKey
INVARIANTS
  TypeOK
  BalanceNeverNegative
  PostedOncePerKey
  RecordInsertNeverCollides
  CheckedBalanceIsCurrent
PROPERTIES
  ImplementsAccounts
  LockEventuallyServed
