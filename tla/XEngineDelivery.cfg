\* Two launch posts and a trade, delivered in any order and number, with a
\* crash, lost responses, failing seats and refused replies.
CONSTANTS
  ann = ann
  bob = bob
  p1 = p1
  p2 = p2
  h1 = h1
  h2 = h2
  Posts = {p1, p2, p3}
  Users = {ann}
  Author <- SameAuthor
  TradePosts = {p3}
  Handlers = {h1, h2}
  Resolvers = {}
  Tx = {t1, t2}
  LastDay = 0
  MaxPerDay = 2
  MaxPerUserPerDay = 2
  MaxGasPerDay = 4
  EstimateGas = 2
  SeatGas = 1
  CreateGas = 1
  CooldownOn = FALSE
  MaxCrashes = 1
  MaxSwaps = 2
  Faults = {"lost_reply", "seat_failure", "reply_failure"}
  NoPost = NoPost
  NoTx = NoTx
SPECIFICATION Spec
SYMMETRY Interchangeable
INVARIANTS
  TypeOK
  ReleasedMeansUnsent
  OneSwapPerPost
PROPERTIES
  KeepsThePromise
\* Every post settled and the last day reached: the engine may stop there.
CHECK_DEADLOCK FALSE
