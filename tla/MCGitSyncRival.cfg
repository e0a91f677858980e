\* A rival may push what a sync does not pull: after its pull, or before one that fails.
SPECIFICATION SyncSpec
CONSTANTS
  MaxExports = 2
  MaxVersion = 0
  MaxRivals = 1
  MaxRestarts = 0
  NoData = NoData
PROPERTY CalmSyncSucceeds
CHECK_DEADLOCK FALSE
