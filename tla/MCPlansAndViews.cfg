SPECIFICATION SubjectsSpec
CONSTANTS
  DeployedAt = 2
  MaxRange = 2
  MaxRewind = 2
  IndexHorizon = 6
  IndexCases <- IndexInstances
  FormAmounts = {0, 1, 2}
  FormEdits = 4
  SentHashes = {h1, h2}
  RefreshLimit = 2
  TabReloads = 1
  StreamTabs = {t1, t2}
  TabSockets = 2
  StreamMaxClients = 2
  MissedPings = 2
  StreamCuts = 3
  WAD = 4
  BPS = 10
  COLLAR_INITIAL = 4
  COLLAR_STEP = 1
  CrossJobs <- CrossInstances
  MAX_CROSS_EXECUTIONS = 4
  SolverFeeBps = 3
  ClearingJobs <- ClearingInstances
  QuoteQ = 16
  QuoteWord = 4
  QuoteWrap = 256
  QuoteFeeUnit = 10
  MaxTickCrossings = 2
  MaxLoopSteps = 8
  QuoteJobs <- QuoteInstances
  TickPrice <- TickPrices
  ClockDay = 60
  ClockMarks <- Marks
  ClockOffsets <- Offsets
  ClockDurations <- Durations
  ClockGuard = 3
  ClockWindow = 2
  ClockSearch = 64
  ClockSpans = 3
  ClockCalendars <- Calendars
  ClockSeconds <- Seconds
  ClockAsks = 2
  ClockApart = 6
  ReceiptJobs <- ReceiptInstances
  PageSize = 2
  ListedBatches = {1, 2, 3, 4, 5, 6}
  ListedFirst = {2, 3, 5}
  MandateTerms <- MandateGrants
  AgentIntents <- AgentSigns
  EasternDay <- EasternDays
  MaxDuration = 5
  MandatePrices = {1, 2}
  MandateHorizon = 3
  MaxMandates = 2
  PreflightJobs <- PlansTried
  PlanTokens = {"quote", "base"}
  CapSettings <- CapsTried
  OtherCharges <- OthersCharge
  VenueExtras = {0, 2}
  DayLength = 4
  PlanWindow = 1
  PlanDeadline = 2
  PreflightHorizon = 5
  ShareOfFee = 5
  ShareOfNotional = 4
  Asks = {1, 2, 3}
  AskedFrom <- Clients
  AskedFor <- AskingFor
  FaucetAssets <- ToppedUp
  Targets <- ToppedUpTo
  FaucetCases <- Purses
  PerAddress = 1
  PerIp = 1
  Hour = 2
  ReceiptWait = 1
  FaucetHorizon = 2
  TapeCases <- Bells
  TapeAnswers <- Answers
  OpenRefWindow = 3
  OpenRefMinUpdates = 2
  MaxOpenRefRounds = 3
  TapeStaleness = 4
  TapeExtension = 1
  TapeExtensions = 1
  TapeBefore = 1
  TapeAfter = 5
INVARIANTS IndexAgrees QuoteMatchesForm PlanAlwaysBuilds ClearingHolds RoundTripNeverProfits
  WindowsAgree ReceiptTrue MandateHolds PreflightHolds FaucetHolds ReferenceKept
PROPERTIES IndexerCatchesUp TabCatchesUp
CHECK_DEADLOCK FALSE
