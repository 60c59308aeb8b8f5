SPECIFICATION Spec
CONSTANTS
  alice = alice
  bob = bob
  carol = carol
  s1 = s1
  s2 = s2
  usdg = usdg
  nvda = nvda
  opening = opening
  closing = closing
  tomorrow = tomorrow
  Auctions = {opening}
  AuctionToken <- TokenOfAuction
  AuctionKind <- Kinds
  CrossAt <- Times
  AuctionDay <- DayOf
  Intents <- CrossIntents
  Tokens = {usdg, nvda}
  Quote = usdg
  Owners = {alice, bob}
  Solvers = {s1, s2}
  House = House
  Treasury = Treasury
  Challengers = {s2}
  InitialBalances <- Purse
  Prices = {2, 4}
  Multipliers = {1}
  NoCommitment = NoCommitment
  NoSolver = NoSolver
  NoRound = NoRound
  BOND = 2
  AUCTION_WINDOW = 2
  FREEZE_OFFSET = 1
  CROSS_DELAY_OPEN = 1
  EXTENSION_PERIOD = 1
  MAX_EXTENSIONS = 1
  CHALLENGE_WINDOW = 0
  CHALLENGE_REWARD_BPS = 5
  PRINT_MIN_VOLUME = 2
  PRINT_MIN_PARTICIPANTS = 2
  PRINT_SCALE = 10
  QUOTE_UNIT = 1
  MAX_AUCTION_INTENTS = 2
  MAX_CROSS_EXECUTIONS = 3
  PAUSE_DURATION = 2
  Disturbances = {{bob}, {"oracle", "governor"}}
  MaxTime = 6
  WAD = 2
  BPS = 10
  COLLAR_INITIAL = 5
  COLLAR_STEP = 3
ACTION_CONSTRAINT OwnersEarly
INVARIANTS OwnersWhole CrossStands LimitUpToRounding
CHECK_DEADLOCK FALSE
