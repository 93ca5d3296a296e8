SPECIFICATION ComponentsSpec
CONSTANTS
  AgentIds = {q1, q2, q3}
  EditIds = {e1, e2}
  ChatIds = {h1}
  Folders = {f1}
  NoFolder = NoFolder
  AgentLimit = 2
  PromptLimit = 1
  Modes = {"jsonl", "monitored"}
  OutputLimit = 2
  MaxLines = 3
  Calls = {1, 2, 3}
  ServerKeys = {1, 2, 3}
  PoolLimit = 2
  McpCalls = {1, 2, 3}
  McpKeys = {1, 2}
  NoCall = NoCall
  McpLimit = 1
  MaxAttempt = 2
  MaxCalls = 2
  Threshold = 3
  Attempts = 3
  Specs = {p1, p2, p3}
  Named = {p3}
  Texts = {t1, t2}
  Blank = Blank
  Tokens = {t1, t2}
  NoFile = NoFile
  WatchAttempts = 2
  MaxEvents = 8
  PageSize = 2
  Directories = {d1, d2}
  Contents = {c1, c2}
  NoContent = NoContent
  MaxRevision = 2
  Homes = {d1, d2}
  UnsavedTexts = {1, 2}
  Oversized = {2}
  MaxSyncs = 2
  MaxSwitches = 1
  MaxTabs = 2
  MaxTyped = 2
  SyncCalls = {l1, l2}
  Callers = {e1, e2}
  MaxRequests = 3
  MaxMessages = 2
  MaxStreamed = 4
  MaxTurns = 1
  RuleTexts = {"rules", "others"}
  SkillCatalogs <- TwoCatalogs
  ContractTexts = {{}, {"git"}}
  ResumeRuns = {"same", "fresh"}
  MaxSelected = 1
  SessionAttempts = 2
  MaxRoots = 2
  TraceSessions = {1, 2}
  ToolIds = {"a"}
  JournalLimit <- OneJournal
  TraceLimit = 1
  ShownLimit = 2
  MaxShows = 2
INVARIANTS
  RegistriesAgree
  CallsLeaveNothing
  ServersShared
  BackendSpared
  MarkedDraftsWereTested
  StaleToolsStop
  SavesReplaceTheirBase
  UnsavedTextIsKept
  ServerHoldsOpenedText
  AnswersFindTheirCaller
  StreamsAreWhole
  AttemptsShareGovernance
  ReadersSeeTheJournal
PROPERTIES
  ConnectionsAreKept
  WaitersTellTheEnd
CHECK_DEADLOCK FALSE
