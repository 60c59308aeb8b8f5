SPECIFICATION ServicesSpec
CONSTANTS
  SolverBatches = {1, 2}
  SolutionWindow = 1
  FinalizeDeadline = 2
  MaxTracked = 1
  SolverHorizon = 6
  SolverCrashes = 1
  SolverCases <- SolverInstances
  KeeperFreezeAt = 1
  KeeperCrossAt = 2
  KeeperReferenceAt = 3
  KeeperExtension = 1
  KeeperMaxExtensions = 1
  KeeperChallenge = 1
  KeeperReleaseAfter = 5
  KeeperCrashes = 1
  KeeperChallenges = 1
  KeeperCases <- KeeperInstances
  BatchSeconds = 2
  NoBatchAt = {3}
  KeptSeconds = 1
  MaxTrackedBatches = 1
  LogRange = 1
  MaxLogChunks = 2
  ReceiptWait = 1
  LifecycleHorizon = 5
  LifecycleCases <- LifecycleInstances
  TopicAt <- TopicValues
  PathCases <- PathInstances
  PathWindows = {3, 6}
  LongestWindow = 3
  PathSolutionWindow = 1
  PathDeadline = 2
  ValidFor = 6
  StaleStamp = 1
  PathCrosses = {5, 12}
  PathFreeze = 2
  AfterCross = 2
  SlackBlocks = 4
  PathBalance = 3
  PathHorizon = 9
INVARIANTS StoreKept ListenersUpToDate PromisesKept CardsRight
PROPERTIES TasksEnd KeeperFinishes OutcomesAccounted OpenedAreClosed ButtonsComeBack
CHECK_DEADLOCK FALSE
