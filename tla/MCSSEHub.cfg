\* Broadcasts overlap as they may; ring and channel may overflow.
SPECIFICATION Spec
CONSTANTS
  Publisher = {p1, p2, p3}
  Client = {c1}
  Topic <- BothTopics
  Wants <- WantsFiltered
  RingSize = 2
  ChanSize = 1
  MaxConn = 3
SYMMETRY Symmetry
INVARIANTS NoLoss ReplayAsStored MatchIsMeaning
CHECK_DEADLOCK FALSE
