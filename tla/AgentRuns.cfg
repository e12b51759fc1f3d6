\* Two schedulers and a request of the owner share one agent: cycles, the
\* reaper, a recovery, an approval, the switch and a crash.
CONSTANTS
  Schedulers = {s1, s2}
  Owners = {o1}
  NoOne = NoOne
  NoTime = NoTime
  Lease = 2
  Interval = 1
  LongestWait = 2
  MaxRuns = 3
  MaxNow = 3
  MaxCrashes = 1
SPECIFICATION Spec
INVARIANTS
  TypeOK
  OneAtATime
  LeaseCoversWork
PROPERTIES
  ClosedStaysClosed
  LeasesEnd
\* The clock may have run out and every row be closed.
CHECK_DEADLOCK FALSE
