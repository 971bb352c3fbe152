CONSTANTS
  first = first
  second = second
  third = third
  buyer = buyer
  NoPeriod = NoPeriod
  Callers = {buyer}
  Checkouts = {first, second}
  Renewals = {third}
  DurationDays = 2
  LastDay = 3
  Purse = 1
  DropBound = 0
SPECIFICATION Spec
INVARIANTS
  PaidDaysAreKept
CHECK_DEADLOCK FALSE
