\* A formula is created, assigned, and its assignment cleared.
SPECIFICATION Spec
CONSTANTS
  File <- MCFiles
  Planner = {polecat}
  Terminal = {t1}
  MaxFormulaEdits = 3
  Leave = Leave  Clear = Clear  NoFileGiven = NoFileGiven  NoFormula = NoFormula
INVARIANT ClearedIsNobodys
CHECK_DEADLOCK FALSE
