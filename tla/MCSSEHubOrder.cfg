\* Two broadcasts overlap.
SPECIFICATION Spec
CONSTANTS
  Publisher = {p1, p2}
  Client = {c1}
  Topic <- BeadTopics
  Wants <- WantsFiltered
  RingSize = 2
  ChanSize = 2
  MaxConn = 1
INVARIANT ReplaySorted
CHECK_DEADLOCK FALSE
