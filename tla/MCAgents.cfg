\* Commands of agents, the ready query and validated fields: see README, section 3.
SPECIFICATION Spec
CONSTANTS
  ann = ann  bob = bob  tab3 = tab3
  task1 = task1  jack1 = jack1  proj = proj
  Agent = {ann, bob}  Session = {tab1, tab2, tab3}
  Actor <- MCActor  AgentProject <- MCAgentProject  TypeOf <- MCTypeOf
  Bead = {task1, jack1, epic1}  Initial = {task1, epic1}
  Project = {other}  NoProject = NoProject  ListLimit = 1  MaxCommands = 3
  Referenced = {task1, jack1}  NoAgent = NoAgent  NoRow = NoRow  Idle = Idle
  Runner = {run1, run2}  Change = {log1, log2}  MaxChanges = 2  MaxExtensions = 2
  MaxTTL = 3  MaxSingle = 1  TTL <- Durations  NoJack = NoJack  Resting = Resting
  Responder = {q1, q2}  Patch <- MCPatch  NoRequest = NoRequest  Missing = Missing
  s1 = s1  s2 = s2  s3 = s3  v = v  Var = {v}  Step = {s1, s2, s3}
  Needs <- MCNeeds  Order <- MCOrder  When <- MCWhen  VarDef <- MCVarDef  Given <- MCGiven
  Always = Always  Unset = Unset  Root = Root  Outer = Outer  Gone = Gone  Limit = 2  None = None
  narrow = narrow  Types = {"decision", "custom"}  Override = {narrow, Malformed}
  Definitions <- MCDefinitions  FieldsGiven <- MCFieldsGiven  Malformed = Malformed
  NotAnObject = NotAnObject  Editor = {e1, e2}  NotStored = NotStored  NoBead = NoBead  NoEdit = NoEdit
  Name = {near}  Shell = {sh1, sh2}  MaxFileCommands = 3  NoName = NoName  Garbled = Garbled  NoRemote = NoRemote
  Piece <- MCPiece  Flags <- MCFlags  Bodies <- MCBodies  Alias <- MCAlias  Nothing = Nothing  NotSet = NotSet
  File <- MCFiles  Planner = {bob}  Terminal = {t1, t2}  MaxFormulaEdits = 3  Leave = Leave  Clear = Clear
  NoFileGiven = NoFileGiven  NoFormula = NoFormula
INVARIANTS TypeOK OneClaim JackKeepsRecord ClosedHasOutcome
  EndedMeansDone ReadyIsExact StepsInOrder FieldsConform
  ActiveIsWhole FilterAsAsked FormulaIsOneFile
CHECK_DEADLOCK FALSE
