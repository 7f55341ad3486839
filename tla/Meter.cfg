SPECIFICATION Spec
CONSTANTS
  a = a
  Students = {a}
  Teachers = {t1}
  Sessions = {s1}
  Offers = {o1}
  Null = Null
  Owner <- OneStudent
  Price <- FlatPrice
  BudgetCap = 40
  InitialBalance <- Tight
  OpeningBlocks = 2
  BlockLength = 1
  OfferTtl = 9
  Grace = 1
  NoShowWindow = 1
  FeePercents = {0, 15}
  Handlers = {h1, h2}
  Cron = Cron
  Matchers = {}
  Patchers = {}
  MaxFaults = 0
  TopUpPackages = {20}
  MaxTopUp = 50
  Lag = 1
  MaxNow = 5
SYMMETRY Symmetric
INVARIANTS TypeOK MeterPaid SessionReconciles BooksBalance
PROPERTIES ClosedIsFinal KeepsTheContract
CHECK_DEADLOCK FALSE
