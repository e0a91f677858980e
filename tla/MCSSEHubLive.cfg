\* Overlapping broadcasts; the client may stop reading, leave and come back.
SPECIFICATION PublisherSpec
CONSTANTS
  Publisher = {p1, p2, p3}
  Client = {c1}
  Topic <- BeadTopics
  Wants <- WantsFiltered
  RingSize = 2
  ChanSize = 1
  MaxConn = 2
PROPERTIES PublisherFinishes Delivered
CHECK_DEADLOCK FALSE
