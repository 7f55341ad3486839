SPECIFICATION TabsSpec
CONSTANTS
  Teachers = {t1}
  Tabs = {tabA, tabB}
  Away = 4
  WarnAfter = 3
  Grace = 1
  MaxNow = 6
  MaxMoves = 5
  MaxFaults = 1
  Leaves = {algebra}
  Subjects = {maths}
  Levels = {l1}
  Prices = {p1, p2}
  FormMoves = 2
  FormFaults = 1
  WalletMoves = 2
  WalletFaults = 2
INVARIANTS WarnedOncePerBeat DepartureNoticed OnlyTypedIsSent StepsAreEarned WalletIsCurrent
PROPERTIES SweepTakesTheIdle IdleIsTakenAway
CHECK_DEADLOCK FALSE
