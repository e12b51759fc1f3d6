----------------------------- MODULE AgentRuns -----------------------------
(***************************************************************************)
(* One agent, one cycle at a time.                                          *)
(*                                                                          *)
(* The runs of one agent in apps/agen/src/app/lib/agents: the lease and the *)
(* run rows of store.ts, the cycle of runner.ts, the scheduler's tick, the  *)
(* owner's run-now, switch, approvals and recovery of the treasury.         *)
(*                                                                          *)
(* Rows of different agents never meet, so one agent is enough; the others  *)
(* of a tick's batch are the time a due agent may spend waiting its turn.   *)
(* A caller is a running request or a scheduler, and what it does between   *)
(* two awaits is one step.  There may be several schedulers: "the lease     *)
(* means correctness does not depend on" there being one (scheduler.ts).    *)
(* Time is counted in coarse units, all of them within a day.  Nothing in   *)
(* the code ends a cycle or a recovery when its lease lapses, and nothing   *)
(* renews a lease: they may take any time, and outlive it.                  *)
(***************************************************************************)
EXTENDS Naturals, FiniteSets

CONSTANTS Schedulers,  \* the processes that tick
          Owners,      \* requests of the owner that may be running
          NoOne,       \* lease_holder IS NULL
          NoTime,      \* lease_expires_at or next_run_at IS NULL
          Lease,       \* AUTONOMY_LEASE_SECONDS
          Interval,    \* interval_seconds
          LongestWait, \* MAX_BACKOFF_SECONDS, or the interval where that is longer
          MaxRuns,     \* max_runs_per_day
          MaxNow,      \* bound: the clock
          MaxCrashes   \* bound: process deaths

Callers == Owners \cup Schedulers

\* What backoffSeconds can return: never less than the interval.
Backoffs == Interval .. LongestWait

ASSUME RunsAssumption ==
  /\ Schedulers \cap Owners = {}
  /\ NoOne \notin Callers
  /\ NoTime \notin Nat
  /\ Lease \in Nat
  /\ Interval \in Nat \ {0}
  /\ LongestWait \in Nat /\ Interval <= LongestWait
  /\ MaxRuns \in Nat /\ MaxNow \in Nat /\ MaxCrashes \in Nat

VARIABLES enabled,     \* agent_autonomy: enabled
          nextRun,     \* next_run_at
          holder,      \* lease_holder
          expires,     \* lease_expires_at
          runs,        \* agent_runs: status by scheduled_for, "none" where there is no row
          proposed,    \* agent_decisions: the runs whose decision is still proposed
          executions,  \* calls of executeDecision that approvals made for that decision
          now,         \* Date.now()
          pc,          \* the await each caller is at
          slot,        \* the run or the proposal it works on
          began,       \* when its cycle or its recovery began
          robbed,      \* history: those at work whose lease another's end dropped
          crashes

autonomy  == <<enabled, nextRun>>
lease     == <<holder, expires>>
decisions == <<proposed, executions>>
callers   == <<pc, slot, began, robbed>>
vars      == <<autonomy, lease, runs, decisions, now, callers, crashes>>

Times == 0 .. MaxNow

\* scheduled_for: a moment that has come, or one that was to come.
Slots == 0 .. MaxNow + LongestWait

Open   == {"none", "running"}
Closed == {"finished", "interrupted"}

\* What takes the lease: a cycle, thinking or acting, and a recovery.
Cycling == {"thinking", "acting"}
Leased  == Cycling \cup {"sweeping"}

Awaits == Leased \cup {"idle", "due", "approving", "executing"}

TypeOK ==
  /\ enabled \in BOOLEAN
  /\ nextRun \in Slots \cup {NoTime}
  /\ holder \in Callers \cup {NoOne}
  /\ expires \in Nat \cup {NoTime}
  /\ holder = NoOne <=> expires = NoTime
  /\ runs \in [Slots -> Open \cup Closed]
  /\ proposed \subseteq Slots
  /\ executions \in [Slots -> Nat]
  /\ now \in Times
  /\ pc \in [Callers -> Awaits]
  /\ slot \in [Callers -> Slots]
  /\ began \in [Callers -> Times]
  /\ robbed \subseteq {c \in Callers : pc[c] \in Leased}
  /\ crashes \in Nat

Init ==
  /\ enabled \in BOOLEAN
  /\ nextRun = IF enabled THEN Interval ELSE NoTime
  /\ holder = NoOne
  /\ expires = NoTime
  /\ runs = [s \in Slots |-> "none"]
  /\ proposed = {}
  /\ executions = [s \in Slots |-> 0]
  /\ now = 0
  /\ pc = [c \in Callers |-> "idle"]
  /\ slot = [c \in Callers |-> 0]
  /\ began = [c \in Callers |-> 0]
  /\ robbed = {}
  /\ crashes = 0

At(c, await) == pc[c] = await

GoTo(c, await) ==
  /\ pc' = [pc EXCEPT ![c] = await]
  /\ UNCHANGED <<slot, began, robbed>>

Return(c) ==
  /\ pc' = [pc EXCEPT ![c] = "idle"]
  /\ slot' = [slot EXCEPT ![c] = 0]
  /\ began' = [began EXCEPT ![c] = 0]

-----------------------------------------------------------------------------
(* The lease.                                                               *)

\* A bug to catch: a lease that expires this very second is taken for lapsed
\* one second early.
LapsesEarly == expires # NoTime => expires <= now + 1

\* What acquireRun and acquireLease ask of the lease they find.
LeaseIsFree == expires # NoTime => expires <= now

TakeLease(c) ==
  /\ holder' = c
  /\ expires' = now + Lease

\* A bug to catch: the expiry is cleared and the holder forgotten.
DropExpiry ==
  /\ expires' = NoTime
  /\ UNCHANGED holder

DropLease ==
  /\ holder' = NoOne
  /\ expires' = NoTime

\* Every row still running when its holder is found gone is interrupted.
Interrupted(s) == IF runs[s] = "running" THEN "interrupted" ELSE runs[s]

-----------------------------------------------------------------------------
(* The scheduler's tick.                                                    *)

\* A bug to catch: the reaper takes any lease it finds for an abandoned one.
AnyoneAbandoned == holder # NoOne /\ expires # NoTime

\* A bug to catch: the reaper leaves the next cycle to find the lapsed lease.
NobodyAbandoned == FALSE

\* What the reaper looks for.
Abandoned == holder # NoOne /\ expires # NoTime /\ expires <= now


\* reapAbandonedRuns closes the run and moves the schedule past the dead slot;
\* the same tick then finds the agent not due.
Reap(c) ==
  /\ At(c, "idle")
  /\ Abandoned
  /\ runs' = [s \in Slots |-> Interrupted(s)]
  /\ nextRun' = now + Interval
  /\ DropLease
  /\ UNCHANGED <<enabled, decisions, now, callers, crashes>>

\* dueAgents, and the wait behind the agents of the batch that are due longer.
FindDue(c) ==
  /\ At(c, "idle")
  /\ ~Abandoned
  /\ enabled
  /\ nextRun # NoTime
  /\ nextRun <= now
  /\ LeaseIsFree
  /\ GoTo(c, "due")
  /\ UNCHANGED <<autonomy, lease, runs, decisions, now, crashes>>

\* RUN_IN_PROGRESS, RUN_ALREADY_RECORDED, or one of NOT_ELIGIBLE.
Skip(c) ==
  /\ At(c, "due")
  /\ Return(c)
  /\ UNCHANGED <<robbed, autonomy, lease, runs, decisions, now, crashes>>

-----------------------------------------------------------------------------
(* A cycle: runAgentCycle.                                                  *)

\* RUN_BUDGET_EXHAUSTED: every run counts, however it ended.
WithinBudget == Cardinality({s \in Slots : runs[s] # "none"}) < MaxRuns

\* assertCycleAllowed and acquireRun, one synchronous stretch.  A refusal rolls
\* everything back, so it is no step at all.
Acquire(c, at) ==
  /\ enabled
  /\ WithinBudget
  /\ LeaseIsFree
  /\ runs[at] = "none"
  /\ runs' = [s \in Slots |->
                IF s = at THEN "running"
                ELSE IF holder # NoOne THEN Interrupted(s) ELSE runs[s]]
  /\ TakeLease(c)
  /\ pc' = [pc EXCEPT ![c] = "thinking"]
  /\ slot' = [slot EXCEPT ![c] = at]
  /\ began' = [began EXCEPT ![c] = now]
  /\ UNCHANGED <<robbed, autonomy, decisions, now, crashes>>

\* A worker replays the slot of the schedule as it is by now.
WorkerStarts(c) ==
  /\ At(c, "due")
  /\ Acquire(c, IF nextRun = NoTime THEN now ELSE nextRun)

\* For an owner, now is its own slot.
OwnerStarts(c) ==
  /\ At(c, "idle")
  /\ Acquire(c, now)

\* finishRun: neither the row nor the lease is asked whether it is still ours,
\* so the end of a cycle drops the lease of whoever holds it by then.
FinishRun(c, wait) ==
  /\ runs' = [runs EXCEPT ![slot[c]] = "finished"]
  /\ nextRun' = began[c] + wait
  /\ DropLease
  /\ robbed' = (robbed \cup {d \in Callers : d = holder /\ pc[d] \in Leased}) \ {c}
  /\ Return(c)
  /\ UNCHANGED <<enabled, now, crashes>>

\* Nothing to do, observe mode, or a market the agent has made before.
Decline(c) ==
  /\ At(c, "thinking")
  /\ FinishRun(c, Interval)
  /\ UNCHANGED decisions

\* Approve mode: the decision waits for the owner.
Propose(c) ==
  /\ At(c, "thinking")
  /\ proposed' = proposed \cup {slot[c]}
  /\ FinishRun(c, Interval)
  /\ UNCHANGED executions

\* Autonomous mode: the decision is recorded and carried out.
Act(c) ==
  /\ At(c, "thinking")
  /\ GoTo(c, "acting")
  /\ UNCHANGED <<autonomy, lease, runs, decisions, now, crashes>>

Acted(c) ==
  /\ At(c, "acting")
  /\ FinishRun(c, Interval)
  /\ UNCHANGED decisions

\* The catch of runAgentCycle: the run is closed, the schedule backs off.
CycleThrows(c) ==
  /\ pc[c] \in Cycling
  /\ \E wait \in Backoffs : FinishRun(c, wait)
  /\ UNCHANGED decisions

-----------------------------------------------------------------------------
(* The owner: the switch, approvals, recovery.                              *)

\* setAgentAutonomy: switching on schedules from now, even what was on.
SetEnabled(on) ==
  /\ enabled' = on
  /\ nextRun' = IF on THEN now + Interval ELSE NoTime
  /\ UNCHANGED <<lease, runs, decisions, now, callers, crashes>>

\* approveDecision checks the proposal, and then waits for the balance.
Approve(c, s) ==
  /\ At(c, "idle")
  /\ s \in proposed
  /\ pc' = [pc EXCEPT ![c] = "approving"]
  /\ slot' = [slot EXCEPT ![c] = s]
  /\ UNCHANGED <<began, robbed, autonomy, lease, runs, decisions, now, crashes>>

\* The balance could not be read: the proposal stands.
BalanceThrows(c) ==
  /\ At(c, "approving")
  /\ Return(c)
  /\ UNCHANGED <<robbed, autonomy, lease, runs, decisions, now, crashes>>

Execute(c) ==
  /\ At(c, "approving")
  /\ executions' = [executions EXCEPT ![slot[c]] = @ + 1]
  /\ GoTo(c, "executing")
  /\ UNCHANGED <<autonomy, lease, runs, proposed, now, crashes>>

\* The decision is executed; or the world refused the payload, or the
\* execution threw, and it is failed.  Either way it is proposed no more.
CloseProposal(c) ==
  /\ pc[c] \in {"approving", "executing"}
  /\ proposed' = proposed \ {slot[c]}
  /\ Return(c)
  /\ UNCHANGED <<robbed, autonomy, lease, runs, executions, now, crashes>>

RejectDecision(s) ==
  /\ s \in proposed
  /\ proposed' = proposed \ {s}
  /\ UNCHANGED <<autonomy, lease, runs, executions, now, callers, crashes>>

\* A bug to catch: a recovery that does not ask for the lease.
RecoverAnyway(c) ==
  /\ At(c, "idle")
  /\ enabled' = FALSE
  /\ nextRun' = NoTime
  /\ TakeLease(c)
  /\ pc' = [pc EXCEPT ![c] = "sweeping"]
  /\ began' = [began EXCEPT ![c] = now]
  /\ UNCHANGED <<slot, robbed, runs, decisions, now, crashes>>

\* recoverTreasury: the switch goes off whether or not the lease is free.
RecoverTreasury(c) ==
  /\ At(c, "idle")
  /\ enabled' = FALSE
  /\ nextRun' = NoTime
  /\ IF LeaseIsFree
       THEN /\ TakeLease(c)
            /\ pc' = [pc EXCEPT ![c] = "sweeping"]
            /\ began' = [began EXCEPT ![c] = now]
            /\ UNCHANGED <<slot, robbed>>
       ELSE UNCHANGED <<lease, callers>>
  /\ UNCHANGED <<runs, decisions, now, crashes>>

\* releaseLease, only the holder's own.
Recovered(c) ==
  /\ At(c, "sweeping")
  /\ IF holder = c THEN DropLease ELSE UNCHANGED lease
  /\ robbed' = robbed \ {c}
  /\ Return(c)
  /\ UNCHANGED <<autonomy, runs, decisions, now, crashes>>

-----------------------------------------------------------------------------
(* The clock and the process.                                               *)

\* However long a cycle or a recovery has taken by then.
TimePasses ==
  /\ now < MaxNow
  /\ now' = now + 1
  /\ UNCHANGED <<autonomy, lease, runs, decisions, callers, crashes>>

\* A process takes with it the scheduler and the requests that run in it.
Crash(dead) ==
  /\ crashes < MaxCrashes
  /\ crashes' = crashes + 1
  /\ pc' = [c \in Callers |-> IF c \in dead THEN "idle" ELSE pc[c]]
  /\ slot' = [c \in Callers |-> IF c \in dead THEN 0 ELSE slot[c]]
  /\ began' = [c \in Callers |-> IF c \in dead THEN 0 ELSE began[c]]
  /\ robbed' = robbed \ dead
  /\ UNCHANGED <<autonomy, lease, runs, decisions, now>>

CycleStep(c) ==
  \/ Decline(c)
  \/ Propose(c)
  \/ Act(c)
  \/ Acted(c)
  \/ CycleThrows(c)

SchedulerStep(c) ==
  \/ Reap(c)
  \/ FindDue(c)
  \/ Skip(c)
  \/ WorkerStarts(c)

OwnerStep(c) ==
  \/ OwnerStarts(c)
  \/ \E s \in Slots : Approve(c, s)
  \/ BalanceThrows(c)
  \/ Execute(c)
  \/ CloseProposal(c)
  \/ RecoverTreasury(c)
  \/ Recovered(c)

Next ==
  \/ \E c \in Callers : CycleStep(c)
  \/ \E c \in Schedulers : SchedulerStep(c)
  \/ \E c \in Owners : OwnerStep(c)
  \/ \E on \in BOOLEAN : SetEnabled(on)
  \/ \E s \in Slots : RejectDecision(s)
  \/ TimePasses
  \/ \E dead \in SUBSET Callers : Crash(dead)

\* The timer of the scheduler that holds the claim is chained for ever, and
\* every await of a cycle or a recovery ends.  The owner and the crashes have no
\* fairness.
Fairness ==
  /\ WF_vars(\E c \in Schedulers : SchedulerStep(c))
  /\ \A c \in Callers : WF_vars(CycleStep(c))
  /\ \A c \in Owners : WF_vars(Recovered(c))
  /\ WF_vars(TimePasses)

Spec == Init /\ [][Next]_vars /\ Fairness

-----------------------------------------------------------------------------
(* Safety.                                                                  *)

\* The caller is at work, and the lease it took has not lapsed.
InTime(c) == pc[c] \in Leased /\ now < began[c] + Lease

\* "Two things must be impossible: two cycles running at once" (store.ts,
\* acquireRun), and a recovery is one more that cannot share the agent.  For as
\* long as the lease they took would last it is: but a cycle that outlives its
\* own drops, when it ends, the lease of another, and that other is excepted.
OneAtATime ==
  \A c, d \in Callers \ robbed : InTime(c) /\ InTime(d) => c = d

\* "Neither can outlive the other" (store.ts, finishRun): until the lease it
\* took would lapse, a caller at work holds it, unless it was robbed of it, and
\* the row of its run, robbed or not, is a running one.
LeaseCoversWork ==
  \A c \in Callers :
    InTime(c) => /\ c \notin robbed => holder = c /\ ~LeaseIsFree
                 /\ pc[c] \in Cycling => runs[slot[c]] = "running"

\* "A proposal cannot be approved twice" (autonomy.test.ts).
ProposalRunsOnce == \A s \in Slots : executions[s] <= 1

-----------------------------------------------------------------------------
(* What a step may never do.                                                *)

\* The cycle of this row outlived its lease, and ends in this step.
EndsTooLate(s) ==
  \E c \in Callers : /\ pc[c] \in Cycling /\ pc'[c] = "idle"
                     /\ slot[c] = s
                     /\ ~InTime(c)

\* An interrupted cycle "is never silently retried" (store.ts, acquireRun), nor
\* is what was closed closed again, whoever comes and goes meanwhile, but in one
\* way: a cycle that was taken for dead and was not writes its own end over it.
ClosedStaysClosed ==
  [][\A s \in Slots :
       runs[s] \in Closed /\ runs'[s] # runs[s]
         => runs[s] = "interrupted" /\ runs'[s] = "finished" /\ EndsTooLate(s)]_vars

-----------------------------------------------------------------------------
(* Liveness.                                                                *)

\* "Without this an agent wedges permanently" (store.ts, reapAbandonedRuns): a
\* lease does not stay after it has lapsed, though its holder be dead or late.
\* The reaper drops it, or a cycle or a recovery puts its own in its place.  A
\* lease that lapses only after the bound of the clock is not asked for.
LeasesEnd == expires \in Times ~> expires \notin Times

=============================================================================
