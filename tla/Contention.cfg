SPECIFICATION Spec
CONSTANTS
  a = a
  Students = {a}
  Teachers = {t1}
  Sessions = {s1, s2}
  Offers = {o1, o2}
  Null = Null
  Owner <- OneStudent
  Price <- FlatPrice
  BudgetCap = 20
  InitialBalance <- Rich
  OpeningBlocks = 2
  BlockLength = 1
  OfferTtl = 1
  Grace = 0
  NoShowWindow = 0
  FeePercents = {15}
  Handlers = {h1, h2}
  Cron = Cron
  Matchers = {h1, h2}
  Patchers = {}
  MaxFaults = 1
  TopUpPackages = {}
  MaxTopUp = 60
  Lag = 0
  MaxNow = 2
SYMMETRY Symmetric
INVARIANTS LockBacked CountersMatch
PROPERTIES KeepsTheDesks
CHECK_DEADLOCK FALSE
