SPECIFICATION MCSpec
CONSTANTS
  Mountable = {"shell", "requests", "settings", "dates", "cockpit", "timeline", "conversations", "explorer", "workshop", "hub", "config", "data", "find", "token", "message", "claude", "mission"}
  r1 = r1
  r2 = r2
  s1 = s1
  s2 = s2
  todo1 = todo1
  message1 = message1
  message2 = message2
  ra = ra
  rb = rb
  LongQuery = {"q1", "q2"}
  ShellResults <- TwoAnswers
  NoTarget = NoTarget
  Id = {r1, r2}
  Model = {"opus"}
  ModelOf <- AllOpus
  RequestHits = {r1}
  NoRequest = NoRequest
  Asked = Asked
  Failed = Failed
  Ending = Ending
  Deleting = Deleting
  MaxRequestGestures = 5
  Window = {"w1", "w2"}
  DeleteWord = {"", "DELETE", "delete"}
  Older <- OlderSettings
  MaxInputs = 2
  Offset = 0
  NoDate = NoDate
  FirstInstant = 100
  MaxTicks = 4
  MaxClicks = 3
  MaxReloads = 1
  Session = {"s1", "s2", "s3"}
  Todos <- TodosOfSession
  CockpitQuery = {"", "one", "two"}
  Matches <- CockpitMatches
  NoSession = NoSession
  MaxCockpitSteps = 5
  Conversations <- TimelineRows
  Messages <- TimelineMessages
  TimelineWord = {"fix", "user"}
  Today = 100
  NoneSelected = NoneSelected
  MaxTimelineSteps = 8
  Conversation <- ThreeConversations
  FoundConversations <- FoundByText
  ShortQuery <- FoundByLetter
  Thread <- OneThread
  NoConversation = NoConversation
  NoContent = NoContent
  MaxConversationSteps = 6
  ExplorerSession = {s1, s2}
  Row = {todo1, message1, message2}
  SessionOf <- SessionOfRow
  TabOf <- TabOfRow
  LinkTab <- LinkTabOfRow
  First <- FirstFound
  PaletteQuery = {"", "qq", "zz"}
  PaletteHits <- PaletteFinds
  NoPayload = NoPayload
  MaxExplorerGestures = 4
  MaxChanges = 1
  Extension <- WorkshopExtensions
  WorkshopSearch <- FmtSearch
  NoExtension = NoExtension
  MaxRelated = 2
  MaxWorkshopSteps = 3
  Installed <- FourInstalled
  Market <- TwoMarkets
  HubSearch = {"", "fix"}
  Nothing = Nothing
  MaxHubSteps = 6
  Configured <- TwoConfigured
  ConfigPlugin = {"fmt@store"}
  NoDrawer = NoDrawer
  MaxConfigSteps = 4
  TodoFile = {"a1", "a2"}
  Contents <- TodoContents
  PlanFile = {"p1"}
  Terms <- DataTerms
  FindHits <- FixHits
  ShortText = {"f"}
  Limit = 2
  NoData = NoData
  MaxDataSteps = 6
  TokenRange = {ra, rb}
  Daily <- TwoRanges
  ProjectTotals <- FiveProjects
  TokenConversations <- FourConversations
  HasHourly = {ra}
  SlicesShown = 2
  AlertsShown = 0
  MaxTokenSteps = 8
  Threads <- AllThreads
  SimpleFiles = 1
  NoContentYet = NoContentYet
  MaxReads = 3
  ClaudeFiles <- ClaudeDirs
  NoAnswerYet = NoAnswerYet
  MaxClaudeSteps = 5
  World <- ConversationWorld
  TodoWorld <- TodosWorld
  PlanWorld <- PlansWorld
  LocaleRank <- TextRank
  Day = 2
  FeedConversations = 2
  FeedTodos = 1
  FeedPlans = 1
  FeedLength = 4
  TableRows = 3
  LastTime = 4
  NoRow = NoRow
  Undefined = Undefined
  MaxMissionSteps = 6
CHECK_DEADLOCK FALSE
INVARIANTS PagesTypeOK NoDayToCome WeekOfSelected FocusIsSelected DrawerIsOfPath SelectionInRange TodosAreOfSession FilteredIsMarked FilterIsShown ComparesTwoLoaded PageShownExists FiguresAgree ShownInFull FeedHoldsNewest
PROPERTIES ClearedListIsNew DeletionWasTyped 
