CONSTANTS
  Components = {"tron", "payments", "subs", "queue", "rerun", "settings", "posts"}
  Sweeps = {s1}
  Processes = {p1, p2}
  OneProcess = {p1}
  bill = bill
  order = order
  NoOrder = NoOrder
  Transfers <- TwoTransfers
  Amounts = {4, 5}
  Invoices = {bill, topup}
  Orders = {order}
  OrderOf <- MCOrderOf
  Ask <- MCAsk
  CentsToUsdt6 = 3
  TagUnit = 1
  OpeningBalance = 0
  SpendBound = 0
  FaultBound = 1
  stars = stars
  starsTopup = starsTopup
  Payments = {crypto1, cryptoTopup}
  ForOrder = {crypto1}
  Rail <- MCRail
  IssueBound = 1
  SlipBound = 1
  NoPayment = NoPayment
  Checkouts = {checkout}
  Renewals = {renewal1, renewal2}
  DurationDays = 1
  LastDay = 2
  Purse = 1
  DropBound = 1
  NoPeriod = NoPeriod
  Buys = {buy, manual}
  Manual = {manual}
  Attempts = 2
  ShockBound = 2
  NoBuy = NoBuy
  Requests = {key1, key2, key3}
  MaxUses = 1
  NoRequest = NoRequest
  Buyouts = {key1, key2, key3}
  NoBuyout = NoBuyout
  Values = 2
  MissBound = 2
  Issuers = {key1}
  Tags = {t1, t2}
  Hold = 3
  Patience = 1
  EndOfTime = 4
  NoTag = NoTag
  ClickBound = 2
  StumbleBound = 1
  Plans <- OnePlan
  Quantities = {1, 3}
  Codes <- OneCode
  StarRates <- MCRates
  AmountTags = {1, 99}
  Nothing = Nothing
SPECIFICATION FairShopSpec
PROPERTIES
  EveryTransferIsSettled
  MissedWebhookIsMadeGood
  LapsedIsClosed
  PaidIsServed
  SettlesOnRow
  ArmedPostIsSettled
CHECK_DEADLOCK FALSE
