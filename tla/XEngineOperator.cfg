\* An operator forces a post no handler is working on, again and again, and the
\* gas of every attempt is metered across a midnight, with the cooldown on.
CONSTANTS
  ann = ann
  bob = bob
  p1 = p1
  p2 = p2
  h1 = h1
  h2 = h2
  Posts = {p1}
  Users = {ann, bob}
  Author <- OwnAuthor
  TradePosts = {}
  Handlers = {h1, h2}
  Resolvers = {r1}
  Tx = {t1, t2, t3}
  LastDay = 1
  MaxPerDay = 3
  MaxPerUserPerDay = 3
  MaxGasPerDay = 8
  EstimateGas = 2
  SeatGas = 1
  CreateGas = 1
  CooldownOn = TRUE
  MaxCrashes = 1
  MaxSwaps = 2
  Faults = {"force_idle", "reply_failure"}
  NoPost = NoPost
  NoTx = NoTx
SPECIFICATION Spec
INVARIANTS
  OneMarketPerPost
  RowsTellTheTruth
  GasIsMetered
\* Every post settled and the last day reached: the engine may stop there.
CHECK_DEADLOCK FALSE
