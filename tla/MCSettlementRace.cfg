SPECIFICATION Spec
CONSTANTS
  alice = alice
  bob = bob
  usdg = usdg
  nvda = nvda
  uni = uni
  Self = Self
  Treasury = Treasury
  NoAdapter = NoAdapter
  NoBest = NoBest
  Solvers = {s1, s2}
  Owners = {alice, bob}
  Tokens = {usdg, nvda}
  Adapters = {uni}
  Batches = {1}
  Solutions <- RaceSolutions
  InitialBalances <- OneEach
  OraclePrices <- AtOne
  BatchDuration <- Durations
  MaxDeviationBps <- Deviations
  Calendars <- OpenDay
  CapChoices <- WideCaps
  Multipliers = {1, 2}
  Spreads = {3}
  Disturbances = {{"guardian", "exit", "issuer"}, {"auction"}}
  AuctionVolumes = {5}
  MaxAuctionWins = 1
  BondAmounts = {0, 10}
  MinBonds = {10}
  MIN_BOND_FLOOR = 10
  MaxBonded = 10
  MaxSlashes = 0
  MaxTime = 6
  UNBOND_COOLDOWN = 3
  SLASH_FAILED_FINALIZE_BPS = 1
  REGISTRY_BPS = 10
  SOLUTION_WINDOW = 1
  FINALIZE_DEADLINE = 1
  MAX_SOLUTIONS_PER_SOLVER = 2
  PAUSE_DURATION = 3
  SECONDS_PER_DAY = 3
  WAD = 1
  BPS = 10
  FEE_CAP_SHARE_BPS = 2
  FEE_CAP_NOTIONAL_BPS = 3
  MIN_SAVINGS_BPS = 1
  SOLVER_SHARE_OF_FEE_BPS = 7
PROPERTIES ImplementsLifecycle BondOutlivesDuty
CHECK_DEADLOCK FALSE
