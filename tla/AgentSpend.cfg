\* Two launches and a buy on two days, one launch a day, with a crash: a day
\* that holds two of the amounts asked for, and no more.
CONSTANTS
  Launches = {l1, l2}
  Buys = {b1}
  Amounts = {1, 2}
  EthPerDay = 3
  EthPerLaunch = 1
  EthPerTrade = 2
  LaunchesPerDay = 1
  LastDay = 1
  MaxCrashes = 1
SPECIFICATION Spec
SYMMETRY Interchangeable
INVARIANTS
  TypeOK
  LedgerWithinLimits
  BooksBalance
  ChargedHasLanded
PROPERTIES
  SettledOnce
\* Every call may be done.
CHECK_DEADLOCK FALSE
