-------------------------- MODULE AgentRunsProofs --------------------------
(***************************************************************************)
(* Theorems about AgentRuns.  Nothing bounds a cycle or a recovery, so what *)
(* carries them is the order in which leases lapse: whoever is at work, the *)
(* lease that is there lapses no sooner than the one it took (LeaseInv).  A *)
(* step that finds the lease lapsed therefore finds no one in time; and one *)
(* that finds it dropped finds in time only callers that were robbed of it  *)
(* (FreeMeansRobbed).                                                       *)
(***************************************************************************)
EXTENDS AgentRuns, TLAPS

\* The lease that is there lapses no sooner than the one a caller at work took;
\* and until then it is that one, unless the caller was robbed of it.
LeaseInv ==
  \A c \in Callers :
    pc[c] \in Leased =>
      /\ began[c] <= now
      /\ holder # NoOne => began[c] + Lease <= expires
      /\ InTime(c) /\ c \notin robbed => holder = c

\* The row of a cycle is its own, and running until it was taken for dead, which
\* it is not before its lease lapses.
RowInv ==
  \A c \in Callers :
    pc[c] \in Cycling =>
      /\ runs[slot[c]] \in {"running", "interrupted"}
      /\ InTime(c) => runs[slot[c]] = "running"
      /\ \A d \in Callers \ {c} : pc[d] \in Cycling => slot[d] # slot[c]

Inv == TypeOK /\ LeaseInv /\ RowInv

\* What ClosedStaysClosed says of a step.
ClosedStep ==
  \A s \in Slots :
    runs[s] \in Closed /\ runs'[s] # runs[s]
      => runs[s] = "interrupted" /\ runs'[s] = "finished" /\ EndsTooLate(s)

-----------------------------------------------------------------------------
(* What the helpers give.                                                   *)

\* Every moment of the clock is a slot, and so is every moment it can be
\* followed by.
LEMMA SlotsOfTime ==
  ASSUME NEW t \in Times
  PROVE  /\ t \in Nat /\ t \in Slots
         /\ t + Interval \in Slots
         /\ \A w \in Backoffs : t + w \in Slots
BY RunsAssumption DEF Times, Slots, Backoffs

\* A cycle waits for its interval or longer.
LEMMA IntervalWaits == Interval \in Backoffs
BY RunsAssumption DEF Backoffs

\* The moments of a caller at work, and of the lease if there is one.
LEMMA Moments ==
  ASSUME TypeOK, NEW c \in Callers
  PROVE  /\ now \in Nat /\ began[c] \in Nat /\ Lease \in Nat
         /\ holder # NoOne => expires \in Nat /\ expires # NoTime
         /\ holder = NoOne => expires = NoTime
BY SlotsOfTime, RunsAssumption DEF TypeOK

\* Who is in time finds a lease that lapses later than now, if there is one.
LEMMA InTimeRuns ==
  ASSUME TypeOK, LeaseInv, NEW c \in Callers, InTime(c), holder # NoOne
  PROVE  expires \in Nat /\ expires # NoTime /\ now < expires
<1>1. began[c] + Lease <= expires /\ now < began[c] + Lease
  BY DEF LeaseInv, InTime
<1> QED BY <1>1, Moments

\* Where the lease has lapsed no one is in time, and where it is free, whoever
\* is in time was robbed.
LEMMA FreeMeansRobbed ==
  ASSUME TypeOK, LeaseInv, NEW c \in Callers, InTime(c)
  PROVE  /\ ~Abandoned
         /\ LeaseIsFree => holder = NoOne /\ c \in robbed
<1>1. holder # NoOne => expires \in Nat /\ expires # NoTime /\ now < expires
  BY InTimeRuns
<1>2. ~Abandoned
  BY <1>1, Moments DEF Abandoned
<1>3. LeaseIsFree => holder = NoOne
  BY <1>1, Moments DEF LeaseIsFree
<1>4. c \notin robbed => holder = c
  BY DEF LeaseInv, InTime
<1>5. c # NoOne
  BY RunsAssumption
<1> QED BY <1>2, <1>3, <1>4, <1>5

\* Interrupting what runs, where no one is in time, leaves the rows as RowInv
\* has them, and what is closed closed.
LEMMA InterruptKeeps ==
  ASSUME TypeOK, NEW s \in Slots
  PROVE  /\ Interrupted(s) \in Open \cup Closed
         /\ runs[s] \in Closed => Interrupted(s) = runs[s]
         /\ runs[s] \in {"running", "interrupted"} => Interrupted(s) = "interrupted"
         /\ runs[s] = "none" => Interrupted(s) = "none"
BY DEF TypeOK, Interrupted, Open, Closed

LEMMA ReturnTypes ==
  ASSUME TypeOK, NEW c \in Callers, Return(c)
  PROVE  /\ pc' \in [Callers -> Awaits]
         /\ slot' \in [Callers -> Slots]
         /\ began' \in [Callers -> Times]
<1>1. 0 \in Slots /\ 0 \in Times /\ "idle" \in Awaits
  BY RunsAssumption DEF Slots, Times, Awaits
<1> QED BY <1>1 DEF TypeOK, Return

LEMMA TakeTypes ==
  ASSUME TypeOK, NEW c \in Callers, TakeLease(c)
  PROVE  /\ holder' \in Callers \cup {NoOne}
         /\ expires' \in Nat \cup {NoTime}
         /\ (holder' = NoOne <=> expires' = NoTime)
<1>1. now \in Nat
  BY SlotsOfTime DEF TypeOK
<1> QED BY <1>1, RunsAssumption DEF TakeLease

\* The end of a cycle: it closes its own row, and whoever else is in time has
\* been robbed by then.
LEMMA FinishKeeps ==
  ASSUME Inv, NEW c \in Callers, pc[c] \in Cycling,
         NEW wait \in Backoffs, FinishRun(c, wait),
         proposed' \subseteq Slots, UNCHANGED executions
  PROVE  Inv' /\ ClosedStep
<1> USE DEF Inv
<1>0. /\ pc[c] \in Leased /\ slot[c] \in Slots
      /\ runs[slot[c]] \in {"running", "interrupted"}
      /\ InTime(c) => runs[slot[c]] = "running"
  BY DEF TypeOK, RowInv, Leased
<1>a. /\ runs' = [runs EXCEPT ![slot[c]] = "finished"]
      /\ nextRun' = began[c] + wait /\ DropLease /\ Return(c)
      /\ robbed' = (robbed \cup {d \in Callers : d = holder /\ pc[d] \in Leased}) \ {c}
      /\ UNCHANGED <<enabled, now, crashes>>
  BY DEF FinishRun
<1>b. /\ pc'[c] = "idle"
      /\ \A d \in Callers \ {c} : /\ pc'[d] = pc[d] /\ slot'[d] = slot[d]
                                  /\ began'[d] = began[d]
  BY <1>a DEF Return, TypeOK
<1>1. began[c] + wait \in Slots
  BY SlotsOfTime DEF TypeOK
<1>2. runs' \in [Slots -> Open \cup Closed]
  BY <1>0, <1>a DEF TypeOK, Closed
<1>3. TypeOK'
  <2>1. robbed' \subseteq {d \in Callers : pc'[d] \in Leased}
    BY <1>a, <1>b DEF TypeOK
  <2> QED BY <1>1, <1>2, <1>a, <2>1, ReturnTypes DEF TypeOK, DropLease
<1>4. LeaseInv'
  <2> SUFFICES ASSUME NEW d \in Callers, pc'[d] \in Leased
               PROVE  /\ began'[d] <= now'
                      /\ holder' = NoOne
                      /\ ~((InTime(d))' /\ d \notin robbed')
    BY DEF LeaseInv
  <2>1. d # c /\ pc[d] \in Leased /\ began'[d] = began[d] /\ now' = now
    BY <1>a, <1>b DEF Leased, Cycling
  <2>2. (InTime(d))' => InTime(d)
    BY <1>b, <2>1 DEF InTime
  <2>3. InTime(d) /\ d \notin robbed => holder = d
    BY <2>1 DEF LeaseInv
  <2> QED BY <1>a, <2>1, <2>2, <2>3 DEF LeaseInv, DropLease
<1>5. RowInv'
  <2> SUFFICES ASSUME NEW d \in Callers, pc'[d] \in Cycling
               PROVE  /\ runs'[slot'[d]] \in {"running", "interrupted"}
                      /\ (InTime(d))' => runs'[slot'[d]] = "running"
                      /\ \A e \in Callers \ {d} :
                           pc'[e] \in Cycling => slot'[e] # slot'[d]
    BY DEF RowInv
  <2>1. /\ d # c /\ pc[d] \in Cycling /\ slot'[d] = slot[d] /\ slot[d] \in Slots
        /\ began'[d] = began[d] /\ now' = now
    BY <1>a, <1>b DEF Cycling, TypeOK
  <2>2. slot[d] # slot[c]
    BY <2>1 DEF RowInv
  <2>3. runs'[slot[d]] = runs[slot[d]]
    BY <1>0, <1>a, <2>1, <2>2 DEF TypeOK
  <2>4. (InTime(d))' => InTime(d)
    BY <1>b, <2>1 DEF InTime
  <2>5. \A e \in Callers \ {d} : pc'[e] \in Cycling => slot'[e] # slot'[d]
    <3> SUFFICES ASSUME NEW e \in Callers \ {d}, pc'[e] \in Cycling
                 PROVE  slot'[e] # slot[d]
      BY <2>1
    <3>1. e # c /\ pc[e] \in Cycling /\ slot'[e] = slot[e]
      BY <1>b DEF Cycling
    <3> QED BY <2>1, <3>1 DEF RowInv
  <2> QED BY <2>1, <2>3, <2>4, <2>5 DEF RowInv
<1>6. ClosedStep
  <2> SUFFICES ASSUME NEW s \in Slots, runs[s] \in Closed, runs'[s] # runs[s]
               PROVE  /\ runs[s] = "interrupted" /\ runs'[s] = "finished"
                      /\ EndsTooLate(s)
    BY DEF ClosedStep
  <2>1. s = slot[c] /\ runs'[s] = "finished"
    BY <1>0, <1>a DEF TypeOK
  <2>2. runs[s] = "interrupted" /\ ~InTime(c)
    BY <1>0, <2>1 DEF Closed
  <2> QED BY <1>b, <2>1, <2>2 DEF EndsTooLate
<1> QED BY <1>3, <1>4, <1>5, <1>6

\* The beginning of a cycle: it found the lease free, so that whoever else is in
\* time was robbed, and in that case it interrupts nothing.
LEMMA AcquireKeeps ==
  ASSUME Inv, NEW c \in Callers, pc[c] \notin Leased,
         NEW at \in Slots, Acquire(c, at)
  PROVE  Inv' /\ ClosedStep
<1> USE DEF Inv
<1>a. /\ LeaseIsFree /\ runs[at] = "none" /\ TakeLease(c)
      /\ runs' = [s \in Slots |->
                    IF s = at THEN "running"
                    ELSE IF holder # NoOne THEN Interrupted(s) ELSE runs[s]]
      /\ pc' = [pc EXCEPT ![c] = "thinking"]
      /\ slot' = [slot EXCEPT ![c] = at]
      /\ began' = [began EXCEPT ![c] = now]
      /\ UNCHANGED <<robbed, enabled, nextRun, proposed, executions, now, crashes>>
  BY DEF Acquire, autonomy, decisions
<1>b. /\ pc'[c] = "thinking" /\ slot'[c] = at /\ began'[c] = now
      /\ \A d \in Callers \ {c} : /\ pc'[d] = pc[d] /\ slot'[d] = slot[d]
                                  /\ began'[d] = began[d]
      /\ holder' = c /\ c # NoOne /\ expires' = now + Lease
  BY <1>a, RunsAssumption DEF TypeOK, TakeLease
<1>1. runs' \in [Slots -> Open \cup Closed]
  BY <1>a, InterruptKeeps DEF TypeOK, Open
<1>2. TypeOK'
  <2>1. "thinking" \in Awaits /\ "thinking" \in Leased
    BY DEF Awaits, Leased, Cycling
  <2> QED BY <1>a, <1>1, <2>1, TakeTypes DEF TypeOK
<1>3. \A d \in Callers \ {c} : (InTime(d))' => InTime(d)
  BY <1>a, <1>b DEF InTime
<1>4. LeaseInv'
  <2> SUFFICES ASSUME NEW d \in Callers, pc'[d] \in Leased
               PROVE  /\ began'[d] <= now'
                      /\ began'[d] + Lease <= expires'
                      /\ (InTime(d))' /\ d \notin robbed' => holder' = d
    BY DEF LeaseInv
  <2>1. CASE d = c
    BY <1>a, <1>b, <2>1, Moments
  <2>2. CASE d # c
    <3>1. began'[d] = began[d] /\ pc[d] \in Leased /\ now' = now
      BY <1>a, <1>b, <2>2
    <3>2. began[d] <= now /\ began[d] + Lease <= now + Lease
      BY <3>1, Moments DEF LeaseInv
    <3>3. InTime(d) => d \in robbed
      BY <1>a, FreeMeansRobbed
    <3> QED BY <1>a, <1>b, <1>3, <2>2, <3>1, <3>2, <3>3
  <2> QED BY <2>1, <2>2
<1>5. RowInv'
  <2> SUFFICES ASSUME NEW d \in Callers, pc'[d] \in Cycling
               PROVE  /\ runs'[slot'[d]] \in {"running", "interrupted"}
                      /\ (InTime(d))' => runs'[slot'[d]] = "running"
                      /\ \A e \in Callers \ {d} :
                           pc'[e] \in Cycling => slot'[e] # slot'[d]
    BY DEF RowInv
  <2>0. \A e \in Callers \ {c} : pc[e] \in Cycling => slot[e] \in Slots /\ slot[e] # at
    BY <1>a DEF RowInv, TypeOK
  <2>1. CASE d = c
    <3>1. runs'[slot'[d]] = "running"
      BY <1>a, <1>b, <2>1
    <3> QED BY <1>b, <2>0, <2>1, <3>1
  <2>2. CASE d # c
    <3>1. /\ pc[d] \in Cycling /\ slot'[d] = slot[d]
          /\ slot[d] \in Slots /\ slot[d] # at
      BY <1>b, <2>0, <2>2
    <3>2. runs[slot[d]] \in {"running", "interrupted"}
      BY <3>1 DEF RowInv
    <3>3. runs'[slot[d]] \in {"running", "interrupted"}
      BY <1>a, <3>1, <3>2, InterruptKeeps
    <3>4. (InTime(d))' => runs'[slot[d]] = "running"
      <4> SUFFICES ASSUME (InTime(d))' PROVE runs'[slot[d]] = "running"
        OBVIOUS
      <4>1. InTime(d) /\ holder = NoOne
        BY <1>a, <1>3, <2>2, FreeMeansRobbed
      <4>2. runs[slot[d]] = "running"
        BY <3>1, <4>1 DEF RowInv
      <4> QED BY <1>a, <3>1, <4>1, <4>2
    <3>5. \A e \in Callers \ {d} : pc'[e] \in Cycling => slot'[e] # slot[d]
      BY <1>b, <3>1 DEF RowInv
    <3> QED BY <3>1, <3>3, <3>4, <3>5
  <2> QED BY <2>1, <2>2
<1>6. ClosedStep
  BY <1>a, InterruptKeeps DEF ClosedStep, Closed
<1> QED BY <1>2, <1>4, <1>5, <1>6

\* A step of a caller that takes, drops and finishes nothing: it moves between
\* awaits that need no lease, or from thinking to acting.
LEMMA MoveKeeps ==
  ASSUME Inv, NEW c \in Callers, NEW await \in Awaits, GoTo(c, await),
         UNCHANGED <<autonomy, lease, runs, now, crashes>>,
         proposed' \subseteq Slots, executions' \in [Slots -> Nat],
         \/ pc[c] \notin Leased /\ await \notin Leased
         \/ pc[c] = "thinking" /\ await = "acting"
  PROVE  Inv'
<1> USE DEF Inv, autonomy, lease, GoTo
<1>1. TypeOK'
  BY DEF TypeOK, Leased, Cycling
<1>2. LeaseInv'
  BY DEF TypeOK, LeaseInv, InTime, Leased, Cycling
<1>3. RowInv'
  BY DEF TypeOK, RowInv, InTime, Leased, Cycling
<1> QED BY <1>1, <1>2, <1>3

\* Nor does a caller that goes home from an await that needs no lease.
LEMMA ReturnKeeps ==
  ASSUME Inv, NEW c \in Callers, pc[c] \notin Leased, Return(c),
         UNCHANGED <<robbed, autonomy, lease, runs, executions, now, crashes>>,
         proposed' \subseteq Slots
  PROVE  Inv'
<1> USE DEF Inv, autonomy, lease
<1>1. /\ pc'[c] = "idle"
      /\ \A d \in Callers \ {c} : /\ pc'[d] = pc[d] /\ slot'[d] = slot[d]
                                  /\ began'[d] = began[d]
  BY DEF Return, TypeOK
<1>2. TypeOK'
  BY <1>1, ReturnTypes DEF TypeOK
<1>3. LeaseInv'
  BY <1>1 DEF LeaseInv, InTime, Leased, Cycling
<1>4. RowInv'
  BY <1>1 DEF RowInv, InTime, Leased, Cycling
<1> QED BY <1>2, <1>3, <1>4

-----------------------------------------------------------------------------
(* Every step.                                                              *)

LEMMA RunsInit == Init => Inv
<1> SUFFICES ASSUME Init PROVE Inv
  OBVIOUS
<1>1. 0 \in Times /\ 0 \in Slots /\ Interval \in Slots
  BY RunsAssumption DEF Times, Slots
<1>2. TypeOK
  BY <1>1 DEF Init, TypeOK, Open, Awaits
<1>3. LeaseInv /\ RowInv
  BY DEF Init, LeaseInv, RowInv, Leased, Cycling
<1> QED BY <1>2, <1>3 DEF Inv

LEMMA CycleKeeps ==
  ASSUME Inv, NEW c \in Callers, CycleStep(c)
  PROVE  Inv' /\ ClosedStep
<1>0. proposed \subseteq Slots /\ slot[c] \in Slots
  BY DEF Inv, TypeOK
<1>1. CASE Decline(c)
  <2>1. /\ pc[c] \in Cycling /\ FinishRun(c, Interval)
        /\ proposed' \subseteq Slots /\ UNCHANGED executions
    BY <1>0, <1>1 DEF Decline, At, decisions, Cycling
  <2> QED BY <2>1, FinishKeeps, IntervalWaits
<1>2. CASE Propose(c)
  <2>1. /\ pc[c] \in Cycling /\ FinishRun(c, Interval)
        /\ proposed' \subseteq Slots /\ UNCHANGED executions
    BY <1>0, <1>2 DEF Propose, At, Cycling
  <2> QED BY <2>1, FinishKeeps, IntervalWaits
<1>3. CASE Act(c)
  <2>1. /\ GoTo(c, "acting") /\ pc[c] = "thinking" /\ "acting" \in Awaits
        /\ UNCHANGED <<autonomy, lease, runs, now, crashes>>
        /\ UNCHANGED <<proposed, executions>>
    BY <1>3 DEF Act, At, Awaits, Leased, Cycling, decisions
  <2>2. proposed' \subseteq Slots /\ executions' \in [Slots -> Nat]
    BY <2>1 DEF Inv, TypeOK
  <2>3. Inv'
    BY <2>1, <2>2, MoveKeeps
  <2> QED BY <2>1, <2>3 DEF ClosedStep
<1>4. CASE Acted(c)
  <2>1. /\ pc[c] \in Cycling /\ FinishRun(c, Interval)
        /\ proposed' \subseteq Slots /\ UNCHANGED executions
    BY <1>0, <1>4 DEF Acted, At, decisions, Cycling
  <2> QED BY <2>1, FinishKeeps, IntervalWaits
<1>5. CASE CycleThrows(c)
  <2>1. PICK wait \in Backoffs : FinishRun(c, wait)
    BY <1>5 DEF CycleThrows
  <2>2. /\ pc[c] \in Cycling
        /\ proposed' \subseteq Slots /\ UNCHANGED executions
    BY <1>0, <1>5 DEF CycleThrows, decisions
  <2> QED BY <2>1, <2>2, FinishKeeps
<1> QED BY <1>1, <1>2, <1>3, <1>4, <1>5 DEF CycleStep

\* The reaper finds a lease that lapsed, and so no one in time.
LEMMA ReapKeeps ==
  ASSUME Inv, NEW c \in Callers, Reap(c)
  PROVE  Inv' /\ ClosedStep
<1> USE DEF Inv
<1>a. /\ Abandoned /\ DropLease
      /\ runs' = [s \in Slots |-> Interrupted(s)] /\ nextRun' = now + Interval
      /\ UNCHANGED <<enabled, proposed, executions, now, pc, slot, began, robbed, crashes>>
  BY DEF Reap, decisions, callers
<1>1. now + Interval \in Slots
  BY SlotsOfTime DEF TypeOK
<1>2. TypeOK'
  BY <1>a, <1>1, InterruptKeeps DEF TypeOK, DropLease
<1>3. \A d \in Callers : ~InTime(d) /\ ~(InTime(d))'
  BY <1>a, FreeMeansRobbed DEF InTime
<1>4. LeaseInv'
  BY <1>a, <1>3 DEF LeaseInv, DropLease
<1>5. RowInv'
  BY <1>a, <1>3, InterruptKeeps DEF RowInv, TypeOK
<1>6. ClosedStep
  BY <1>a, InterruptKeeps DEF ClosedStep
<1> QED BY <1>2, <1>4, <1>5, <1>6

LEMMA SchedulerKeeps ==
  ASSUME Inv, NEW c \in Schedulers, SchedulerStep(c)
  PROVE  Inv' /\ ClosedStep
<1>0. c \in Callers
  BY DEF Callers
<1>1. CASE Reap(c)
  BY <1>0, <1>1, ReapKeeps
<1>2. CASE FindDue(c)
  <2>1. /\ GoTo(c, "due") /\ "due" \in Awaits
        /\ pc[c] \notin Leased /\ "due" \notin Leased
        /\ UNCHANGED <<autonomy, lease, runs, now, crashes>>
        /\ UNCHANGED <<proposed, executions>>
    BY <1>2 DEF FindDue, At, Awaits, Leased, Cycling, decisions
  <2>2. proposed' \subseteq Slots /\ executions' \in [Slots -> Nat]
    BY <2>1 DEF Inv, TypeOK
  <2>3. Inv'
    BY <1>0, <2>1, <2>2, MoveKeeps
  <2> QED BY <2>1, <2>3 DEF ClosedStep
<1>3. CASE Skip(c)
  <2>1. /\ pc[c] \notin Leased /\ Return(c)
        /\ UNCHANGED <<robbed, autonomy, lease, runs, executions, now, crashes>>
        /\ proposed' \subseteq Slots
    BY <1>3 DEF Skip, At, Leased, Cycling, decisions, Inv, TypeOK
  <2>2. Inv'
    BY <1>0, <2>1, ReturnKeeps
  <2> QED BY <2>1, <2>2 DEF ClosedStep
<1>4. CASE WorkerStarts(c)
  <2>1. (IF nextRun = NoTime THEN now ELSE nextRun) \in Slots
    BY SlotsOfTime DEF Inv, TypeOK
  <2>2. pc[c] \notin Leased
    BY <1>4 DEF WorkerStarts, At, Leased, Cycling
  <2> QED BY <1>0, <1>4, <2>1, <2>2, AcquireKeeps DEF WorkerStarts
<1> QED BY <1>1, <1>2, <1>3, <1>4 DEF SchedulerStep

LEMMA RecoverKeeps ==
  ASSUME Inv, NEW c \in Callers, RecoverTreasury(c)
  PROVE  Inv'
<1> USE DEF Inv
<1>0. pc[c] \notin Leased
  BY DEF RecoverTreasury, At, Leased, Cycling
<1>1. CASE LeaseIsFree
  <2>1. /\ enabled' = FALSE /\ nextRun' = NoTime /\ TakeLease(c)
        /\ pc' = [pc EXCEPT ![c] = "sweeping"]
        /\ began' = [began EXCEPT ![c] = now]
        /\ UNCHANGED <<slot, robbed, runs, proposed, executions, now, crashes>>
    BY <1>1 DEF RecoverTreasury, decisions
  <2>2. /\ pc'[c] = "sweeping" /\ began'[c] = now
        /\ \A d \in Callers \ {c} : pc'[d] = pc[d] /\ began'[d] = began[d]
        /\ holder' = c /\ c # NoOne /\ expires' = now + Lease
    BY <2>1, RunsAssumption DEF TypeOK, TakeLease
  <2>3. TypeOK'
    <3>1. "sweeping" \in Awaits /\ "sweeping" \in Leased
      BY DEF Awaits, Leased
    <3> QED BY <2>1, <3>1, TakeTypes DEF TypeOK
  <2>4. \A d \in Callers \ {c} : (InTime(d))' => InTime(d)
    BY <2>1, <2>2 DEF InTime
  <2>5. LeaseInv'
    <3> SUFFICES ASSUME NEW d \in Callers, pc'[d] \in Leased
                 PROVE  /\ began'[d] <= now'
                        /\ began'[d] + Lease <= expires'
                        /\ (InTime(d))' /\ d \notin robbed' => holder' = d
      BY DEF LeaseInv
    <3>1. CASE d = c
      BY <2>1, <2>2, <3>1, Moments
    <3>2. CASE d # c
      <4>1. began'[d] = began[d] /\ pc[d] \in Leased /\ now' = now
        BY <2>1, <2>2, <3>2
      <4>2. began[d] <= now /\ began[d] + Lease <= now + Lease
        BY <4>1, Moments DEF LeaseInv
      <4>3. InTime(d) => d \in robbed
        BY <1>1, FreeMeansRobbed
      <4> QED BY <2>1, <2>2, <2>4, <3>2, <4>1, <4>2, <4>3
    <3> QED BY <3>1, <3>2
  <2>6. RowInv'
    <3>1. \A d \in Callers : pc'[d] \in Cycling => d # c /\ pc[d] \in Cycling
      BY <2>2 DEF Cycling
    <3> QED BY <2>1, <2>4, <3>1 DEF RowInv
  <2> QED BY <2>3, <2>5, <2>6
<1>2. CASE ~LeaseIsFree
  <2>1. /\ enabled' = FALSE /\ nextRun' = NoTime
        /\ UNCHANGED <<holder, expires, pc, slot, began, robbed, runs, proposed,
                       executions, now, crashes>>
    BY <1>2 DEF RecoverTreasury, decisions, lease, callers
  <2> QED BY <2>1 DEF TypeOK, LeaseInv, RowInv, InTime
<1> QED BY <1>1, <1>2

\* A recovery that ends drops its own lease, and no one else's.
LEMMA RecoveredKeeps ==
  ASSUME Inv, NEW c \in Callers, Recovered(c)
  PROVE  Inv'
<1> USE DEF Inv
<1>a. /\ pc[c] \in Leased /\ Return(c) /\ robbed' = robbed \ {c}
      /\ IF holder = c THEN DropLease ELSE UNCHANGED <<holder, expires>>
      /\ UNCHANGED <<enabled, nextRun, runs, proposed, executions, now, crashes>>
  BY DEF Recovered, At, Leased, autonomy, decisions, lease
<1>b. /\ pc'[c] = "idle"
      /\ \A d \in Callers \ {c} : /\ pc'[d] = pc[d] /\ slot'[d] = slot[d]
                                  /\ began'[d] = began[d]
  BY <1>a DEF Return, TypeOK
<1>1. TypeOK'
  <2>1. robbed' \subseteq {d \in Callers : pc'[d] \in Leased}
    BY <1>a, <1>b DEF TypeOK
  <2> QED BY <1>a, <2>1, ReturnTypes DEF TypeOK, DropLease
<1>2. LeaseInv'
  <2> SUFFICES ASSUME NEW d \in Callers, pc'[d] \in Leased
               PROVE  /\ began'[d] <= now'
                      /\ holder' # NoOne => began'[d] + Lease <= expires'
                      /\ (InTime(d))' /\ d \notin robbed' => holder' = d
    BY DEF LeaseInv
  <2>1. d # c /\ pc[d] \in Leased /\ began'[d] = began[d]
    BY <1>b DEF Leased, Cycling
  <2>2. (InTime(d))' /\ d \notin robbed' => holder = d
    BY <1>a, <1>b, <2>1 DEF LeaseInv, InTime
  <2> QED BY <1>a, <2>1, <2>2 DEF LeaseInv, DropLease
<1>3. RowInv'
  BY <1>a, <1>b DEF RowInv, InTime, Cycling
<1> QED BY <1>1, <1>2, <1>3

LEMMA OwnerKeeps ==
  ASSUME Inv, NEW c \in Owners, OwnerStep(c)
  PROVE  Inv' /\ ClosedStep
<1>0. c \in Callers /\ slot[c] \in Slots
  BY DEF Callers, Inv, TypeOK
<1>1. CASE OwnerStarts(c)
  <2>1. now \in Slots /\ pc[c] \notin Leased
    BY <1>1, SlotsOfTime DEF Inv, TypeOK, OwnerStarts, At, Leased, Cycling
  <2> QED BY <1>0, <1>1, <2>1, AcquireKeeps DEF OwnerStarts
<1>2. CASE \E s \in Slots : Approve(c, s)
  <2>1. /\ pc[c] \notin Leased /\ "approving" \notin Leased
        /\ pc' = [pc EXCEPT ![c] = "approving"]
        /\ \E s \in Slots : slot' = [slot EXCEPT ![c] = s]
        /\ UNCHANGED <<began, robbed, autonomy, lease, runs, decisions, now, crashes>>
    BY <1>2 DEF Approve, At, Leased, Cycling
  <2>2. TypeOK'
    BY <1>0, <2>1 DEF Inv, TypeOK, Awaits, autonomy, lease, decisions
  <2>3. LeaseInv'
    BY <1>0, <2>1 DEF Inv, TypeOK, LeaseInv, InTime, lease
  <2>4. RowInv'
    <3>1. \A d \in Callers : pc'[d] \in Cycling =>
            d # c /\ pc[d] \in Cycling /\ slot'[d] = slot[d] /\ began'[d] = began[d]
      BY <1>0, <2>1 DEF Inv, TypeOK, Leased
    <3>2. \A d \in Callers : pc'[d] \in Cycling /\ (InTime(d))' => InTime(d)
      BY <2>1, <3>1 DEF InTime, Leased
    <3> QED BY <2>1, <3>1, <3>2 DEF Inv, RowInv
  <2> QED BY <2>1, <2>2, <2>3, <2>4 DEF Inv, ClosedStep
<1>3. CASE BalanceThrows(c)
  <2>1. /\ pc[c] \notin Leased /\ Return(c)
        /\ UNCHANGED <<robbed, autonomy, lease, runs, executions, now, crashes>>
        /\ proposed' \subseteq Slots
    BY <1>3 DEF BalanceThrows, At, Leased, Cycling, decisions, Inv, TypeOK
  <2>2. Inv'
    BY <1>0, <2>1, ReturnKeeps
  <2> QED BY <2>1, <2>2 DEF ClosedStep
<1>4. CASE Execute(c)
  <2>1. /\ GoTo(c, "executing") /\ "executing" \in Awaits
        /\ pc[c] \notin Leased /\ "executing" \notin Leased
        /\ UNCHANGED <<autonomy, lease, runs, proposed, now, crashes>>
        /\ executions' = [executions EXCEPT ![slot[c]] = @ + 1]
    BY <1>4 DEF Execute, At, Awaits, Leased, Cycling
  <2>2. proposed' \subseteq Slots /\ executions' \in [Slots -> Nat]
    BY <1>0, <2>1 DEF Inv, TypeOK
  <2>3. Inv'
    BY <1>0, <2>1, <2>2, MoveKeeps
  <2> QED BY <2>1, <2>3 DEF ClosedStep
<1>5. CASE CloseProposal(c)
  <2>1. /\ pc[c] \notin Leased /\ Return(c)
        /\ UNCHANGED <<robbed, autonomy, lease, runs, executions, now, crashes>>
        /\ proposed' \subseteq Slots
    BY <1>5 DEF CloseProposal, Leased, Cycling, Inv, TypeOK
  <2>2. Inv'
    BY <1>0, <2>1, ReturnKeeps
  <2> QED BY <2>1, <2>2 DEF ClosedStep
<1>6. CASE RecoverTreasury(c)
  <2>1. UNCHANGED runs
    BY <1>6 DEF RecoverTreasury
  <2> QED BY <1>0, <1>6, <2>1, RecoverKeeps DEF ClosedStep
<1>7. CASE Recovered(c)
  <2>1. UNCHANGED runs
    BY <1>7 DEF Recovered
  <2> QED BY <1>0, <1>7, <2>1, RecoveredKeeps DEF ClosedStep
<1> QED BY <1>1, <1>2, <1>3, <1>4, <1>5, <1>6, <1>7 DEF OwnerStep

\* The invariant is inductive, and a step opens or closes again only what
\* ClosedStaysClosed lets it.
LEMMA RunsStep ==
  ASSUME Inv, [Next]_vars
  PROVE  Inv' /\ ClosedStep
<1>0. UNCHANGED runs => ClosedStep
  BY DEF ClosedStep
<1>1. ASSUME NEW on \in BOOLEAN, SetEnabled(on)
      PROVE  Inv' /\ UNCHANGED runs
  <2>1. now + Interval \in Slots
    BY SlotsOfTime DEF Inv, TypeOK
  <2> QED BY <1>1, <2>1
    DEF SetEnabled, Inv, TypeOK, LeaseInv, RowInv, InTime, lease, decisions, callers
<1>2. ASSUME NEW s \in Slots, RejectDecision(s)
      PROVE  Inv' /\ UNCHANGED runs
  BY <1>2 DEF RejectDecision, Inv, TypeOK, LeaseInv, RowInv, InTime,
              autonomy, lease, callers
<1>3. CASE TimePasses
  <2>1. /\ now' = now + 1 /\ now < MaxNow
        /\ UNCHANGED <<enabled, nextRun, holder, expires, runs, proposed,
                       executions, pc, slot, began, robbed, crashes>>
    BY <1>3 DEF TimePasses, autonomy, lease, decisions, callers
  <2>2. TypeOK'
    BY <2>1, RunsAssumption DEF Inv, TypeOK, Times
  <2>3. \A c \in Callers : (InTime(c))' => InTime(c)
    BY <2>1, Moments DEF Inv, InTime
  <2>4. LeaseInv'
    BY <2>1, <2>3, Moments DEF Inv, LeaseInv
  <2>5. RowInv'
    BY <2>1, <2>3 DEF Inv, RowInv
  <2> QED BY <1>0, <2>1, <2>2, <2>4, <2>5 DEF Inv
<1>4. ASSUME NEW dead \in SUBSET Callers, Crash(dead)
      PROVE  Inv' /\ UNCHANGED runs
  <2>1. 0 \in Slots /\ 0 \in Times /\ "idle" \in Awaits
    BY RunsAssumption DEF Slots, Times, Awaits
  <2>2. /\ robbed' = robbed \ dead /\ crashes' = crashes + 1
        /\ pc' = [c \in Callers |-> IF c \in dead THEN "idle" ELSE pc[c]]
        /\ slot' = [c \in Callers |-> IF c \in dead THEN 0 ELSE slot[c]]
        /\ began' = [c \in Callers |-> IF c \in dead THEN 0 ELSE began[c]]
        /\ UNCHANGED <<enabled, nextRun, holder, expires, runs, proposed,
                       executions, now>>
    BY <1>4 DEF Crash, autonomy, lease, decisions
  <2>3. TypeOK'
    BY <2>1, <2>2 DEF Inv, TypeOK
  <2>4. \A c \in Callers :
          pc'[c] \in Leased => /\ pc[c] \in Leased /\ pc'[c] = pc[c]
                               /\ slot'[c] = slot[c] /\ began'[c] = began[c]
                               /\ c \notin robbed' => c \notin robbed
    BY <2>2 DEF Leased, Cycling
  <2>5. LeaseInv'
    BY <2>2, <2>4 DEF Inv, LeaseInv, InTime
  <2>6. RowInv'
    <3>1. \A c \in Callers : pc'[c] \in Cycling => pc'[c] \in Leased
      BY DEF Leased
    <3> QED BY <2>2, <2>4, <3>1 DEF Inv, RowInv, InTime
  <2> QED BY <2>2, <2>3, <2>5, <2>6 DEF Inv
<1>5. CASE UNCHANGED vars
  BY <1>0, <1>5
  DEF vars, Inv, TypeOK, LeaseInv, RowInv, InTime, autonomy, lease, decisions, callers
<1> QED
  BY <1>0, <1>1, <1>2, <1>3, <1>4, <1>5, CycleKeeps, SchedulerKeeps, OwnerKeeps DEF Next

-----------------------------------------------------------------------------
(* Theorems.                                                                *)

\* Types: the schedule is a moment, a lease has both its holder and its expiry
\* or neither (agent_autonomy), and every caller is at an await of its own.
THEOREM RunsTypeCorrect == Spec => []TypeOK
<1>1. Inv => TypeOK
  BY DEF Inv
<1> QED BY <1>1, RunsInit, RunsStep, PTL DEF Spec

\* "Two cycles running at once" is impossible (acquireRun), and a recovery never
\* shares the agent with a cycle, whatever the number of schedulers and requests
\* and however long others have outlived their leases, for as long as a caller's
\* own would last and no one's end has robbed it of it.
THEOREM CyclesAreAlone == Spec => []OneAtATime
<1>1. Inv => OneAtATime
  BY DEF Inv, LeaseInv, InTime, OneAtATime
<1> QED BY <1>1, RunsInit, RunsStep, PTL DEF Spec

\* Until the lease it took would lapse, a caller at work holds a lease that
\* runs, if it was not robbed of it, and its row is a running one even if it was
\* (acquireRun, finishRun).
THEOREM WorkIsLeased == Spec => []LeaseCoversWork
<1>1. Inv => LeaseCoversWork
  <2> SUFFICES ASSUME Inv, NEW c \in Callers, InTime(c)
               PROVE  /\ c \notin robbed => holder = c /\ ~LeaseIsFree
                      /\ pc[c] \in Cycling => runs[slot[c]] = "running"
    BY DEF LeaseCoversWork
  <2>1. c \notin robbed => holder = c /\ ~LeaseIsFree
    BY FreeMeansRobbed DEF Inv, LeaseInv, InTime
  <2> QED BY <2>1 DEF Inv, RowInv
<1> QED BY <1>1, RunsInit, RunsStep, PTL DEF Spec

\* What was interrupted or finished is never run again, and closed again only by
\* the end of the cycle it belongs to, which outlived its lease (acquireRun).
THEOREM DeadRunsStayDead == Spec => ClosedStaysClosed
<1>1. Inv /\ [Next]_vars
        => [\A s \in Slots :
              runs[s] \in Closed /\ runs'[s] # runs[s]
                => runs[s] = "interrupted" /\ runs'[s] = "finished" /\ EndsTooLate(s)]_vars
  BY RunsStep DEF ClosedStep
<1>2. Inv /\ [Next]_vars => Inv'
  BY RunsStep
<1> QED BY <1>1, <1>2, RunsInit, PTL DEF Spec, ClosedStaysClosed

=============================================================================
