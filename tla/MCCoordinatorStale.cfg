SPECIFICATION Spec
CONSTANTS
  alice = alice
  Idle = Idle
  NoFeed = NoFeed
  NoList = NoList
  Batches = {1, 4}
  Intents <- ThreeIntents
  Owners = {alice}
  InitialCover <- ThreeUnits
  Lookups = {r1}
  SOLUTION_WINDOW = 1
  FINALIZE_DEADLINE = 1
  STATUS_RETENTION = 0
  MaxAttempts = 2
  MaxPosts = 2
  Disturbances = {{"solver", "settle", "race"}}
  MaxTime = 4
  MaxScreening = 2
INVARIANT PendingCovered
CHECK_DEADLOCK FALSE
