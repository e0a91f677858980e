\* One agent with two events under way at a time, against the reaper; a shared
\* branch, restarts, failures of any command.
SPECIFICATION BackgroundSpec
CONSTANTS
  Actor = {a1}
  Emitter = {e1, e2}
  DeadThreshold = 3
  EvictAfter = 3
  EvictEphemeral = 1
  Ephemeral = 2
  MaxWait = 2
  Absent = Absent
  MaxExports = 4
  MaxVersion = 1
  MaxRivals = 2
  MaxRestarts = 1
  NoData = NoData
INVARIANT DeadMeansSilent
PROPERTIES NotMarkedEarly ReportedOncePerDeath NotForgottenEarly SilentIsEvicted
  NilMeansPushed OriginOnlyGrows LoneSyncSucceeds
CHECK_DEADLOCK FALSE
