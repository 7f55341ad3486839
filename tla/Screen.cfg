SPECIFICATION BrowserSpec
CONSTANTS
  Requests = {r1, r2}
  MaxExpiries = 1
  MaxFaults = 1
  MaxBlocks = 3
  MaxMoves = 2
  Offers = {o1, o2}
  NoOffer = NoOffer
  ModalMoves = 2
  ModalFaults = 1
  PillMoves = 3
  PillFaults = 1
  Bands = {bandA, bandB}
  Loads = {l1, l2, l3}
  NoList = NoList
  ListMoves = 3
INVARIANTS OneRotation OnePressOneBlock OfferReachesItsTeacher HeaderIsCurrent OneOfferAtATime ListIsForTheUrl
PROPERTIES UnauthorizedTwice RequestsSettle EndFrameLeadsAway RoomIsRejoined
CHECK_DEADLOCK FALSE
