\* One poller, restarts and outages: what is not finished is read again, and
\* finished at last.
CONSTANTS
  LastPost = 3
  Addressed <- AllButTheSecond
  Batch = 3
  Passes = {poller}
  Poller = poller
  Hooks = {}
  MaxRestarts = 1
SPECIFICATION FairSpec
INVARIANTS
  TypeOK
  NothingSwallowed
PROPERTIES
  OldPostsStayUnanswered
  
