SPECIFICATION BladesSpec
CONSTANTS
  Managers = {m1, m2}
  Early = {m1}
  Reserved = Reserved
  Other = Other
  BufferSize = 2
  MaxInputs = 3
  AppSettings = AppSettings
  ConnectionStrings = ConnectionStrings
  SlotConfigNames = SlotConfigNames
  NumTables = 2
  Configs = {AppSettings, ConnectionStrings, SlotConfigNames}
  Uses <- TwoTables
  Compared = {SlotConfigNames}
  MaxEdits = 3
  MaxTokens = 3
  MaxInputsSent = 2
  MaxFailures = 2
  MaxReads = 3
  Space = Space
  KeyC = KeyC
  Chars = {Space, KeyC}
  KeyNames <- TypedKeys
  Files <- TwoFiles
  MaxText = 3
  MaxHistory = 2
  MaxTabs = 2
  Names = {n1, n2}
  MaxChanges = 3
  MaxLoads = 2
  App1 = App1
  App2 = App2
  App3 = App3
  FunctionApps = {App1, App2, App3}
  SubOf <- Subscriptions
  Terms <- TypedTerms
  ChosenSubs <- ChosenSubscriptions
  MaxBatch = 1
  AppsNode = AppsNode
  NoApp = NoApp
  MaxActs = 3
INVARIANTS
  EverythingFound
CHECK_DEADLOCK FALSE
