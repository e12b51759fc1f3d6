SPECIFICATION FairSpec
CONSTANTS
  NJobs = 2
  EngineOne <- SecondIsEngineOne
  Edits = {e1}
  Capacity = 1
  MaxBuilds = 1
  MaxCrashes = 1
  MaxFaults = 1
  Overtaken <- NoJob
INVARIANT TypeOK
INVARIANT OnlyCrossedBuildTwice
INVARIANT NothingStranded
INVARIANT ApprovalBinds
INVARIANT EditsKept
CHECK_DEADLOCK FALSE
PROPERTY QueueDrains
