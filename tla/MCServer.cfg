\* Hooks, bus, notifications, graph, start and stop of the server: see README, section 3.
SPECIFICATION Spec
CONSTANTS
  rig1 = rig1  grouped = grouped  local = local  foreign = foreign  Advice = {grouped, local, foreign}
  LabelsOf <- MCLabelsOf  OnFailure <- MCOnFailure  Unusable = {}  Ungrouped = Ungrouped
  Automatic <- MCAutomatic  Added <- MCAdded  Excluded <- MCExcluded
  BusHandler = {h1, h2}  HandlerPriority <- MCPriority  Emitter = {r1}  Nobody = Nobody  NoEmit = NoEmit
  BusType <- MCTypes  BusActor = {}  NoActor = NoActor  Asks <- MCAsks  NoFilter = NoFilter
  BusCap = 1  ClientCap = 1  MaxPublished = 3  MaxFaults = 1
  ChannelCap = 1  MaxUpdates = 4  MaxOutages = 2
  Caller = {c1, c2}  Browser = {b1}  StreamClient = {s1}
  epic1 = epic1  task1 = task1  dec1 = dec1  ann = ann  Row = {epic1, task1, dec1}  About <- MCAbout
  Anything = Anything  Unlimited = Unlimited  ExcludedTypes = {"message"}  Asking <- MCAsking
  GraphLimit = 2  NoOne = NoOne  InitialLinks <- MCInitialLinks  Linkable <- MCLinkable  MaxWrites = 2
INVARIANTS BlockersHeeded StreamsAsAsked NeverSendsOnClosed GraphIsWhole TypeOK
PROPERTIES LastChangeShown GracefulShutdown
CHECK_DEADLOCK FALSE
