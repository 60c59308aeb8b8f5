SPECIFICATION ClaimsSpec
CONSTANTS
  alice = alice
  bob = bob
  usdg = usdg
  nvda = nvda
  uni = uni
  Self = Self
  Treasury = Treasury
  NoAdapter = NoAdapter
  NoBest = NoBest
  Solvers = {s1}
  Owners = {alice, bob}
  Tokens = {usdg, nvda}
  Adapters = {uni}
  Batches = {1}
  Solutions <- FundsSolutions
  InitialBalances <- OneEach
  OraclePrices <- AtOne
  BatchDuration <- Durations
  MaxDeviationBps <- Deviations
  Calendars <- OpenDay
  CapChoices <- WideCaps
  Multipliers = {1}
  Spreads = {3}
  Disturbances = {{"owner"}}
  AuctionVolumes = {5}
  MaxAuctionWins = 0
  BondAmounts = {10}
  MinBonds = {10}
  MIN_BOND_FLOOR = 10
  MaxBonded = 10
  MaxSlashes = 0
  MaxTime = 5
  UNBOND_COOLDOWN = 5
  SLASH_FAILED_FINALIZE_BPS = 1
  REGISTRY_BPS = 10
  SOLUTION_WINDOW = 1
  FINALIZE_DEADLINE = 1
  MAX_SOLUTIONS_PER_SOLVER = 2
  PAUSE_DURATION = 3
  SECONDS_PER_DAY = 3
  WAD = 1
  BPS = 10
  FEE_CAP_SHARE_BPS = 2
  FEE_CAP_NOTIONAL_BPS = 3
  MIN_SAVINGS_BPS = 1
  SOLVER_SHARE_OF_FEE_BPS = 7
PROPERTY UnwindBurnsOffender
CHECK_DEADLOCK FALSE
