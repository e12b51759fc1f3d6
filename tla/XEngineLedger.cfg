\* Three posts of two accounts compete for a day of two launches.
CONSTANTS
  ann = ann
  bob = bob
  p1 = p1
  p2 = p2
  h1 = h1
  h2 = h2
  Posts = {p1, p2, p3}
  Users = {ann, bob}
  Author <- OwnAuthor
  TradePosts = {}
  Handlers = {h1, h2}
  Resolvers = {}
  Tx = {t1, t2, t3}
  LastDay = 0
  MaxPerDay = 2
  MaxPerUserPerDay = 2
  MaxGasPerDay = 6
  EstimateGas = 2
  SeatGas = 0
  CreateGas = 1
  CooldownOn = FALSE
  MaxCrashes = 0
  MaxSwaps = 2
  Faults = {"reply_failure"}
  NoPost = NoPost
  NoTx = NoTx
SPECIFICATION Spec
SYMMETRY Interchangeable
INVARIANTS
  WithinDailyCap
  MarketIsRecorded
\* Every post settled and the last day reached: the engine may stop there.
CHECK_DEADLOCK FALSE
