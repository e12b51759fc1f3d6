\* Fees of 3 of which 1 is the platform's in every 10 wei: the roundings of the
\* split and of the buyback's own fee happen at these amounts.
SPECIFICATION Spec
CONSTANTS
  m1 = m1
  m2 = m2
  m3 = m3
  Markets <- MCMarkets
  Captured <- MCCaptured
  Codeless <- MCCodeless
  TotalPpm = 3
  PlatformPpm = 1
  Denominator = 10
  MinBoost = 4
  Legs = {14}
  Gifts = {1}
  Refunds = {0, 2}
  MaxInflows = 3
INVARIANT Solvent
INVARIANT CutoffExact
INVARIANT MirrorInStep
PROPERTY KeepsPromise
CHECK_DEADLOCK FALSE
