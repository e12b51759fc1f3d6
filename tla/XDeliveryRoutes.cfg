\* The poller beside the poll route, a webhook delivery and a restart.
CONSTANTS
  LastPost = 3
  Addressed <- AllButTheSecond
  Batch = 3
  Passes = {poller, route}
  Poller = poller
  Hooks = {hook}
  MaxRestarts = 1
SPECIFICATION Spec
INVARIANTS
  OnlyOverlapSwallows
