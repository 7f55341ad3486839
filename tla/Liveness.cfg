SPECIFICATION FairSpec
CONSTANTS
  a = a
  Students = {a}
  Teachers = {t1}
  Sessions = {s1}
  Offers = {o1, o2}
  Null = Null
  Owner <- OneStudent
  Price <- FlatPrice
  BudgetCap = 30
  InitialBalance <- Rich
  OpeningBlocks = 2
  BlockLength = 1
  OfferTtl = 1
  Grace = 0
  NoShowWindow = 0
  FeePercents = {15}
  Handlers = {h1}
  Cron = Cron
  Matchers = {h1}
  Patchers = {}
  MaxFaults = 1
  TopUpPackages = {}
  MaxTopUp = 60
  Lag = 0
  MaxNow = 4
PROPERTIES OffersResolve LocksRelease SessionsEnd
CHECK_DEADLOCK FALSE
