\* Serial Stops against every other kind of request; ClearGate itself succeeds.
SPECIFICATION Spec
CONSTANTS
  Stops = {s1, s2, s3}
  Yields = {y1, y2}
  Satisfies = {a1}
  Clears = {c1}
  Touches = {t1}
  Overlap = FALSE
  MayFail <- AnyButClear
  Unread = Unread
SYMMETRY Symmetry
INVARIANT OneStopPerYield
PROPERTY Turnstile
