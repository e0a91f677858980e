\* Three concurrent requests, any statement failing with or without effect.
SPECIFICATION Spec
CONSTANTS
  b1 = b1
  b2 = b2
  l1 = l1
  l2 = l2
  k1 = k1
  v1 = v1
  v2 = v2
  a1 = a1
  a2 = a2
  Bead = {b1, b2}
  Label = {l1, l2}
  Key = {k1}
  Value = {v1, v2}
  Actor = {a1, a2}
  AdviceBead = {b1}
  InitLabels = {l1}
  Request = {r1, r2, r3}
  Nil = Nil
  Nobody = Nobody
  Unset = Unset
  Keep = Keep
  Calls <- AllCalls
SYMMETRY RequestSymmetry
CONSTRAINT OneScenario
INVARIANTS TypeOK ClosedConsistent WriteBackIsFresh UpdateTookEffect NoOrphans DeletedOnce
PROPERTIES GoneForGood
