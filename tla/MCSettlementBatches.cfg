SPECIFICATION GroupSpec
CONSTANTS
  alice = alice
  bob = bob
  usdg = usdg
  nvda = nvda
  uni = uni
  Self = Self
  Treasury = Treasury
  NoAdapter = NoAdapter
  NoBest = NoBest
  Solvers = {s1}
  Owners = {alice, bob}
  Tokens = {usdg, nvda}
  Adapters = {uni}
  Batches = {2, 3}
  Solutions <- FundsSolutions
  InitialBalances <- TwoEach
  OraclePrices <- AtOne
  BatchDuration <- Durations
  MaxDeviationBps <- Deviations
  Calendars <- AllDays
  CapChoices <- AllCaps
  Multipliers = {1}
  Spreads = {3, 4}
  Disturbances = {{"owner"}, {"venue", "oracle", "calendar"}, {"governor"}, {"auction", "exit"}}
  AuctionVolumes = {5}
  MaxAuctionWins = 1
  BondAmounts = {10}
  MinBonds = {10, 20}
  MIN_BOND_FLOOR = 10
  MaxBonded = 10
  MaxSlashes = 1
  MaxTime = 6
  UNBOND_COOLDOWN = 5
  SLASH_FAILED_FINALIZE_BPS = 1
  REGISTRY_BPS = 10
  SOLUTION_WINDOW = 1
  FINALIZE_DEADLINE = 1
  MAX_SOLUTIONS_PER_SOLVER = 1
  PAUSE_DURATION = 3
  SECONDS_PER_DAY = 5
  WAD = 1
  BPS = 10
  FEE_CAP_SHARE_BPS = 2
  FEE_CAP_NOTIONAL_BPS = 3
  MIN_SAVINGS_BPS = 1
  SOLVER_SHARE_OF_FEE_BPS = 7
CONSTRAINT GroupBound
INVARIANTS RegistrySolvent TypeOK OwnersWhole SettledAsSigned CustodyEmpty ScoresMatchOutcomes DayAccountsAgree
CHECK_DEADLOCK FALSE
