\* Two Stops of the agent handled at once, nothing fails.
SPECIFICATION Spec
CONSTANTS
  Stops = {s1, s2}
  Yields = {y1}
  Satisfies = {}
  Clears = {}
  Touches = {}
  Overlap = TRUE
  MayFail <- NoFailure
  Unread = Unread
INVARIANT OneStopPerMark
