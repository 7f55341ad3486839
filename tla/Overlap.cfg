SPECIFICATION Spec
CONSTANTS
  a = a
  Students = {a}
  Teachers = {t1, t2}
  Sessions = {s1}
  Offers = {o1, o2}
  Null = Null
  Owner <- OneStudent
  Price <- FlatPrice
  BudgetCap = 20
  InitialBalance <- Rich
  OpeningBlocks = 2
  BlockLength = 1
  OfferTtl = 1
  Grace = 0
  NoShowWindow = 0
  FeePercents = {15}
  Handlers = {h1, h2}
  Cron = Cron
  Matchers = {h1, h2}
  Patchers = {}
  MaxFaults = 0
  TopUpPackages = {}
  MaxTopUp = 60
  Lag = 0
  MaxNow = 2
SYMMETRY Symmetric
PROPERTIES SweepsAreHarmless
CHECK_DEADLOCK FALSE
