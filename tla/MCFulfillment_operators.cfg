SPECIFICATION Spec
CONSTANTS
  p1 = p1
  p2 = p2
  o1 = o1
  o2 = o2
  i1 = i1
  i2 = i2
  t1 = t1
  t2 = t2
  ann = ann
  None = None
  Procs = {p1, p2}
  Orders = {o1}
  Users = {ann}
  Buyer <- MCBuyer
  Items = {i1}
  Texts = {t1, t2}
  Catalogues <- ByHand
  Attempts = 2
  Faults = FALSE
SYMMETRY Symmetry
PROPERTIES
  PayloadIsFinal
