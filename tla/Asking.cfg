SPECIFICATION Spec
CONSTANTS
  Questions = {q1, q2}
  Images = {img}
  Leaves = {leafA}
  Unclassified = Unclassified
  Null = Null
  Teachers = {t1}
  MaxRequests = 3
  MaxIntakeFaults = 1
  Lookers = {m1, m2}
  Fits <- Everybody
INVARIANTS ImagesStayHome LateAnswersAreDropped OneAggregate FailuresAreEvicted ListKnowsItsRejections
PROPERTIES RetopicsOnlyInFlight EveryRequestAnswers
CHECK_DEADLOCK FALSE
