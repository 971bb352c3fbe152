CONSTANTS
  Components = {"tron", "thirds", "payments", "rivals", "subs", "queue", "rerun", "promos", "referral", "settings", "tags", "posts", "prices"}
  Sweeps = {s1, s2}
  Processes = {p1, p2}
  OneProcess = {p1}
  bill = bill
  order = order
  NoOrder = NoOrder
  Transfers <- ThreeTransfers
  Amounts = {3, 4, 10}
  Invoices = {bill}
  Orders = {order}
  OrderOf <- MCOrderOf
  Ask <- MCAsk
  CentsToUsdt6 = 3
  TagUnit = 1
  OpeningBalance = 1
  SpendBound = 2
  FaultBound = 1
  stars = stars
  starsTopup = starsTopup
  Payments = {crypto1, crypto2, stars, cryptoTopup, starsTopup}
  ForOrder = {crypto1, crypto2, stars}
  Rail <- MCRail
  IssueBound = 1
  SlipBound = 1
  NoPayment = NoPayment
  Checkouts = {checkout1, checkout2}
  Renewals = {renewal1, renewal2}
  DurationDays = 1
  LastDay = 1
  Purse = 1
  DropBound = 0
  NoPeriod = NoPeriod
  Buys = {buy, manual}
  Manual = {manual}
  Attempts = 2
  ShockBound = 2
  NoBuy = NoBuy
  Requests = {key1, key2, key3}
  MaxUses = 1
  NoRequest = NoRequest
  Buyouts = {key1, key2, key3}
  NoBuyout = NoBuyout
  Values = 2
  MissBound = 2
  Issuers = {key1, key2}
  Tags = {t1, t2}
  Hold = 3
  Patience = 1
  EndOfTime = 5
  NoTag = NoTag
  ClickBound = 2
  StumbleBound = 1
  Plans <- MCPlans
  Quantities = {1, 3}
  Codes <- MCCodes
  StarRates <- MCRates
  AmountTags = {1, 99}
  Nothing = Nothing
SYMMETRY Symmetry
SPECIFICATION ShopSpec
INVARIANTS
  ShopTypeOK
  
  BoughtIsCovered
  ReclaimIsBacked
  RemainderIsRecognised
  BuyerHasPaid
  TopupsAreExact
  FlagMeansNoPurchase
  RenewalChargedOnce
  
  
  TagsAreUnique
  AskedIsOwed
PROPERTIES
  SettledIsFinal
CHECK_DEADLOCK FALSE
