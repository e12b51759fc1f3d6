\* One account, allowed one launch a day, asks for two. Every claim ends while
\* the process lives, and every recorded hash is resolved whoever dies.
CONSTANTS
  ann = ann
  bob = bob
  p1 = p1
  p2 = p2
  h1 = h1
  h2 = h2
  Posts = {p1, p2}
  Users = {ann}
  Author <- SameAuthor
  TradePosts = {}
  Handlers = {h1, h2}
  Resolvers = {r1}
  Tx = {t1, t2}
  LastDay = 0
  MaxPerDay = 2
  MaxPerUserPerDay = 1
  MaxGasPerDay = 4
  EstimateGas = 2
  SeatGas = 1
  CreateGas = 1
  CooldownOn = FALSE
  MaxCrashes = 1
  MaxSwaps = 2
  Faults = {"reply_failure"}
  NoPost = NoPost
  NoTx = NoTx
SPECIFICATION FairSpec
INVARIANTS
  WithinUserCap
PROPERTIES
  ClaimsEnd
  PendingResolves
\* Every post settled and the last day reached: the engine may stop there.
CHECK_DEADLOCK FALSE
