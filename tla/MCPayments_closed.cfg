CONSTANTS
  invoice = invoice
  hook = hook
  NoPayment = NoPayment
  Payments = {invoice}
  Handlers = {hook}
  ForOrder = {invoice}
  Rail <- MCRail
  IssueBound = 1
  SlipBound = 0
SPECIFICATION Spec
INVARIANTS
  ClosedPaymentIsFlagged
CHECK_DEADLOCK FALSE
