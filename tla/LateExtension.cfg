SPECIFICATION Spec
CONSTANTS
  a = a
  Students = {a}
  Teachers = {t1}
  Sessions = {s1}
  Offers = {o1}
  Null = Null
  Owner <- OneStudent
  Price <- FlatPrice
  BudgetCap = 30
  InitialBalance <- Rich
  OpeningBlocks = 2
  BlockLength = 1
  OfferTtl = 1
  Grace = 0
  NoShowWindow = 0
  FeePercents = {15}
  Handlers = {h1, h2}
  Cron = Cron
  Matchers = {}
  Patchers = {}
  MaxFaults = 0
  TopUpPackages = {}
  MaxTopUp = 60
  Lag = 0
  MaxNow = 2
SYMMETRY Symmetric
PROPERTIES AutoEndIsDue
CHECK_DEADLOCK FALSE
