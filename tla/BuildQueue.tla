----------------------------- MODULE BuildQueue -----------------------------
(***************************************************************************)
(* The build queue of one Node process (apps/agen/src/app/lib/queue.ts),   *)
(* the requests that feed it (builds.ts), the file store under it          *)
(* (market-compiler/src/store.ts) and the part of the pipeline that reads  *)
(* and writes jobs (market-compiler/src/pipeline.ts, engine/pipeline.ts).  *)
(*                                                                         *)
(* Node runs one continuation at a time: an action is the code between two *)
(* awaits.  A request that has read a job and has yet to write it holds a  *)
(* copy of what it read, and everything else runs meanwhile.  A job is a   *)
(* whole-record file, written to one scratch path per job and process and  *)
(* then renamed, so two writers of one job share the scratch file.         *)
(***************************************************************************)
EXTENDS Naturals, Sequences, FiniteSets

CONSTANTS NJobs,       \* bound: jobs submitted, numbered in order of creation
          EngineOne,   \* the jobs stamped for the engine-v1 pipeline
          Edits,       \* bound: the edit requests creators make, each once
          Capacity,    \* AGEN_MAX_CONCURRENT_BUILDS
          MaxBuilds,   \* bound: executions at once, more than Capacity
          MaxCrashes,  \* bound: restarts of the process
          MaxFaults,   \* bound: reads, writes and listings of files that fail
          Overtaken    \* bound: the jobs in line or executing that the scan may
                       \* read and find out of both when it has read the rest

Jobs == 1..NJobs
Slots == 1..MaxBuilds

ASSUME QueueAssumption ==
  /\ NJobs \in Nat \ {0} /\ EngineOne \subseteq Jobs
  /\ Capacity \in Nat \ {0} /\ MaxBuilds \in Nat
  /\ MaxCrashes \in Nat /\ MaxFaults \in Nat
  /\ IsFiniteSet(Edits) /\ Overtaken \subseteq Jobs

VARIABLES
  disk,       \* job |-> its record in the store, or Nothing
  scratch,    \* job |-> what its scratch file holds, or Nothing
  waiting,    \* the queue entries, first in first out
  running,    \* the ids of the jobs being executed
  builds,     \* slot |-> an execution in progress, or FreeSlot
  recovered,  \* this process has started its scan for interrupted builds
  recovery,   \* that scan: pc, the files to read, what was read, the jobs to requeue
  arriving,   \* submissions whose job is not on disk yet
  edits,      \* edit request |-> pc, the job and the record it writes
  approval,   \* an approval between its read and its write
  crashes,
  faults,
  crossed,    \* history: jobs two requests held across an await at once
  threw,      \* history: edits accepted before an execution of their job threw
  dropped     \* history: unfinished jobs let go for a swallowed error or the list's limit

vars == <<disk, scratch, waiting, running, builds, recovered,
          recovery, arriving, edits, approval, crashes, faults,
          crossed, threw, dropped>>
files == <<disk, scratch>>
queue == <<waiting, running, builds>>
requests == <<recovered, recovery, arriving, edits, approval>>
bounds == <<crashes, faults>>
history == <<crossed, threw, dropped>>

Nothing == [stage |-> "nothing"]
FreeSlot == [pc |-> "free"]
Stages == {"prompt_received", "building", "awaiting_clarification",
           "deployment_ready", "failed"}

(* spec: the specification is not null; edits: the decisions folded into   *)
(* it; signed: the specification an approval is for, as a set of at most   *)
(* one; old: an unfinished job's updatedAt is more than                    *)
(* RESUME_WITHIN_SECONDS ago; ms: it was written in milliseconds, as the   *)
(* engine-v1 pipeline and approvals do.                                    *)
Record == [stage: Stages, spec: BOOLEAN, edits: SUBSET Edits,
           signed: SUBSET (SUBSET Edits), old: BOOLEAN, ms: BOOLEAN]

(* A bug to catch: a job begins in a stage nobody knows.                   *)
newJobUnstaged == [stage |-> "queued", spec |-> FALSE, edits |-> {},
                   signed |-> {}, old |-> FALSE, ms |-> FALSE]

newJob == [stage |-> "prompt_received", spec |-> FALSE, edits |-> {},
           signed |-> {}, old |-> FALSE, ms |-> FALSE]

isTerminal(rec) == rec.stage \in {"deployment_ready", "failed"}

(* Neither finished nor waiting on its creator.                            *)
Unfinished(rec) ==
  rec # Nothing /\ ~isTerminal(rec) /\ rec.stage # "awaiting_clarification"

(* A bug to catch: an approval outlives the build it was for.              *)
restartSigned(rec) == [rec EXCEPT !.stage = "prompt_received", !.old = FALSE, !.ms = FALSE]

restartJob(rec) ==
  [rec EXCEPT !.stage = "prompt_received", !.signed = {}, !.old = FALSE, !.ms = FALSE]

(* What recoverInterrupted compares with its cutoff in seconds: a time in  *)
(* milliseconds is above every cutoff.                                     *)
TouchedRecently(rec) == rec.ms \/ ~rec.old

Pending == [job: Jobs, kind: {"build", "answers", "edit"},
            decisions: SUBSET Edits, rec: Record]
entry(j, rec) == [job |-> j, kind |-> "build", decisions |-> {}, rec |-> rec]

Waits(j) == \E i \in DOMAIN waiting : waiting[i].job = j
BuildsOf(j) == {s \in Slots : builds[s].pc # "free" /\ builds[s].entry.job = j}
Queued(j) == j \in running \/ Waits(j)

IdleRecovery == [pc |-> "idle", names |-> {}, todo |-> {}, read |-> [j \in Jobs |-> Nothing]]
IdleRequest == [pc |-> "idle", job |-> 1, rec |-> Nothing]
OverRequest == [IdleRequest EXCEPT !.pc = "over"]

(* A request that has read job j and has not written it yet.               *)
HeldByEdit(j) == \E e \in Edits : edits[e].pc \in {"put", "move"} /\ edits[e].job = j
HeldByApproval(j) == approval.pc # "idle" /\ approval.job = j
Held(j) == HeldByEdit(j) \/ HeldByApproval(j) \/ j \in recovery.todo

(* The edits of job j that were answered ok.                               *)
Accepted(j) == {e \in Edits : edits[e].pc = "queued" /\ edits[e].job = j}
-----------------------------------------------------------------------------
Init ==
  /\ disk = [j \in Jobs |-> Nothing] /\ scratch = [j \in Jobs |-> Nothing]
  /\ waiting = <<>> /\ running = {} /\ builds = [s \in Slots |-> FreeSlot]
  /\ recovered = FALSE /\ recovery = IdleRecovery /\ arriving = 0
  /\ edits = [e \in Edits |-> IdleRequest] /\ approval = IdleRequest
  /\ crashes = 0 /\ faults = 0 /\ crossed = {} /\ threw = {} /\ dropped = {}

(* The file system fails n times, or does what it was asked.               *)
Faults(n) == faults + n <= MaxFaults /\ faults' = faults + n /\ UNCHANGED crashes
Fault == Faults(1)
NoFault == UNCHANGED bounds

(* writeOne: the whole record to the job's scratch file, then the rename.   *)
(* Either may fail, and then the write throws.  The rename publishes what   *)
(* the file holds now; it finds none when another writer of the job has     *)
(* renamed it away.  The scratch file of a failed rename is unlinked, or    *)
(* stays if that fails too.  (The unlink may come so late that it takes the *)
(* scratch file of another writer: that one's rename fails, as it may here.) *)
WriteScratch(j, rec) ==
  scratch' = [scratch EXCEPT ![j] = rec] /\ UNCHANGED disk /\ NoFault
WriteFails == UNCHANGED files /\ Fault
Rename(j) ==
  /\ scratch[j] # Nothing
  /\ disk' = [disk EXCEPT ![j] = scratch[j]]
  /\ scratch' = [scratch EXCEPT ![j] = Nothing]
  /\ NoFault
RenameFails(j) ==
  /\ UNCHANGED disk
  /\ \/ scratch[j] = Nothing /\ UNCHANGED scratch /\ NoFault
     \/ scratch[j] # Nothing /\ scratch' = [scratch EXCEPT ![j] = Nothing] /\ Fault
     \/ scratch[j] # Nothing /\ UNCHANGED scratch /\ Faults(2)

-----------------------------------------------------------------------------
(* What an execution begins with: runBuild with the opening write of the    *)
(* restarted job, decideBuild with its read.  Engine v1 has one entry point *)
(* for builds and answers, resumes from the entry's copy and writes nothing *)
(* before its first stage.                                                  *)
execute(item) ==
  IF item.job \in EngineOne
  THEN [entry |-> item, mem |-> [item.rec EXCEPT !.stage = "prompt_received"],
        then |-> "work", pc |-> "work"]
  ELSE [entry |-> item, mem |-> restartJob(item.rec), then |-> "work",
        pc |-> IF item.kind = "build" THEN "put" ELSE "decide"]

(* pump over the line w, the ids r and the slots b: entry n is taken when   *)
(* fewer than Capacity ids run before it, and nothing is awaited.  The ids  *)
(* are a set: taking a job that is running already does not make it larger. *)
(* The execution of the n-th entry goes to the n-th free slot.              *)
PumpFrom(w, r, b) ==
  LET jobs(n) == r \cup {w[i].job : i \in 1..n}
      taken == Cardinality({n \in 1..Len(w) :
                              \A m \in 0..(n - 1) : Cardinality(jobs(m)) < Capacity})
      rank(s) == Cardinality({t \in 1..s : b[t].pc = "free"})
  IN /\ taken <= rank(MaxBuilds)
     /\ waiting' = SubSeq(w, taken + 1, Len(w))
     /\ running' = jobs(taken)
     /\ builds' = [s \in Slots |->
          IF b[s].pc = "free" /\ rank(s) <= taken THEN execute(w[rank(s)]) ELSE b[s]]

(* The push and the pump after it.                                          *)
Enqueue(item) ==
  /\ PumpFrom(Append(waiting, item), running, builds)
  /\ dropped' = dropped \ {item.job}

(* startBuild.  The first one of a process scans for interrupted builds    *)
(* and submits when the scan is over; a later one submits at once, even    *)
(* while the scan is still running.  A submission beyond NJobs is not       *)
(* followed further than its scan.                                          *)
Room == Cardinality({j \in Jobs : disk[j] = Nothing})
Arrive == arriving' = IF arriving < Room THEN arriving + 1 ELSE arriving
StartBuild ==
  /\ IF recovered
     THEN arriving < Room /\ Arrive /\ UNCHANGED <<recovered, recovery>>
     ELSE /\ recovered' = TRUE
          /\ recovery' = [recovery EXCEPT !.pc = "list"]
          /\ UNCHANGED arriving
  /\ UNCHANGED <<files, queue, edits, approval, bounds, history>>

(* submit: the job is on disk before it is in line.                        *)
Submit ==
  /\ arriving > 0
  /\ \E j \in Jobs :
       /\ disk[j] = Nothing /\ \A k \in Jobs : k < j => disk[k] # Nothing
       /\ disk' = [disk EXCEPT ![j] = newJob]
       /\ Enqueue(entry(j, newJob))
  /\ arriving' = arriving - 1
  /\ UNCHANGED <<scratch, recovered, recovery, edits, approval, bounds, crossed, threw>>

(* The job could not be written: the request is answered with an error.    *)
SubmitFails ==
  /\ arriving > 0 /\ arriving' = arriving - 1
  /\ Fault
  /\ UNCHANGED <<files, queue, recovered, recovery, edits, approval, history>>

(* Of those jobs the ones that nobody will move now.                        *)
LetGo(jobs) == {j \in jobs : Unfinished(disk[j]) /\ ~Queued(j)}

(* recoverInterrupted: readdir.  Its error is swallowed as an empty store.  *)
RecoverList ==
  /\ recovery.pc = "list"
  /\ \/ /\ recovery' = [recovery EXCEPT !.pc = "read", !.names = {j \in Jobs : disk[j] # Nothing}]
        /\ UNCHANGED <<arriving, dropped>> /\ NoFault
     \/ /\ Fault
        /\ recovery' = IdleRecovery /\ Arrive
        /\ dropped' = dropped \cup LetGo(Jobs)
  /\ UNCHANGED <<files, queue, recovered, edits, approval, crossed, threw>>

(* Neither finished nor waiting, and recent: what the filter asks of a copy. *)
Interrupted(rec) == Unfinished(rec) /\ TouchedRecently(rec)

(* The files are read at once, so in any order; one that cannot be read is  *)
(* left out.  Of the others only those matter later that are interrupted    *)
(* and not still queued then.                                               *)
RecoverRead(j) ==
  /\ recovery.pc = "read" /\ j \in recovery.names
  /\ \/ /\ recovery' = [recovery EXCEPT !.names = @ \ {j},
             !.read[j] = IF Interrupted(disk[j]) /\ (Queued(j) => j \in Overtaken)
                         THEN disk[j] ELSE Nothing]
        /\ UNCHANGED dropped /\ NoFault
     \/ /\ Fault
        /\ recovery' = [recovery EXCEPT !.names = @ \ {j}]
        /\ dropped' = dropped \cup LetGo({j})
  /\ UNCHANGED <<files, queue, recovered, arriving, edits, approval, crossed, threw>>

(* list(200) answers the newest of what was read.  The store holds other    *)
(* jobs as well, finished ones too, so any number of these may be beyond it. *)
Copies == {j \in Jobs : recovery.read[j] # Nothing}
Listings == {listed \in SUBSET Copies :
               \A j \in listed, k \in Copies : k > j => k \in listed}

(* A bug to catch: a build that never left the line is not an interrupted one. *)
StaleStarted(listed) ==
  {j \in listed : ~Queued(j) /\ recovery.read[j].stage # "prompt_received"}

Stale(listed) == {j \in listed : ~Queued(j)}

(* The filter, when the last file has been read: of the copies as they were *)
(* read and the queue as it is now.                                         *)
RecoverFilter ==
  /\ recovery.pc = "read" /\ recovery.names = {}
  /\ \E listed \in Listings :
       LET stale == Stale(listed) IN
       /\ IF stale = {}
          THEN recovery' = IdleRecovery /\ Arrive
          ELSE /\ recovery' = [pc |-> "put", names |-> {}, todo |-> stale,
                               read |-> [j \in Jobs |->
                                           IF j \in stale THEN recovery.read[j] ELSE Nothing]]
               /\ UNCHANGED arriving
       /\ crossed' = crossed \cup {j \in stale : \/ HeldByEdit(j) \/ HeldByApproval(j)
                                                 \/ disk[j] # recovery.read[j]}
       /\ dropped' = dropped \cup LetGo(Copies \ listed)
  /\ UNCHANGED <<files, queue, recovered, edits, approval, bounds, threw>>

(* The list is newest first.                                                *)
Newest(j) == j \in recovery.todo /\ \A k \in recovery.todo : k <= j

(* After the write, its error swallowed, the entry is pushed.  pump runs     *)
(* once, after the last of them.                                            *)
Requeue(j) ==
  LET item == entry(j, restartJob(recovery.read[j]))
      left == recovery.todo \ {j}
  IN IF left = {}
     THEN /\ Enqueue(item)
          /\ recovery' = IdleRecovery /\ Arrive
     ELSE /\ waiting' = Append(waiting, item) /\ dropped' = dropped \ {j}
          /\ recovery' = [recovery EXCEPT !.pc = "put", !.todo = left]
          /\ UNCHANGED <<running, builds, arriving>>

RecoverPut ==
  /\ recovery.pc = "put"
  /\ \E j \in Jobs :
       /\ Newest(j)
       /\ \/ /\ WriteScratch(j, restartJob(recovery.read[j]))
             /\ recovery' = [recovery EXCEPT !.pc = "move"]
             /\ UNCHANGED <<queue, arriving, dropped>>
          \/ WriteFails /\ Requeue(j)
  /\ UNCHANGED <<recovered, edits, approval, crossed, threw>>

RecoverMove ==
  /\ recovery.pc = "move"
  /\ \E j \in Jobs : Newest(j) /\ (Rename(j) \/ RenameFails(j)) /\ Requeue(j)
  /\ UNCHANGED <<recovered, edits, approval, crossed, threw>>

(* A bug to catch: an impatient second click.                               *)
AnswerAgain(j) ==
  /\ disk[j].stage = "awaiting_clarification"
  /\ Enqueue([job |-> j, kind |-> "answers", decisions |-> {}, rec |-> disk[j]])
  /\ crossed' = IF Held(j) THEN crossed \cup {j} ELSE crossed
  /\ UNCHANGED <<files, requests, bounds, threw>>

(* answer: the check and the push are in one continuation after the read.   *)
Answer(j) ==
  /\ disk[j].stage = "awaiting_clarification"
  /\ ~Queued(j)
  /\ Enqueue([job |-> j, kind |-> "answers", decisions |-> {}, rec |-> disk[j]])
  /\ crossed' = IF Held(j) THEN crossed \cup {j} ELSE crossed
  /\ UNCHANGED <<files, requests, bounds, threw>>

(* edit: the check follows the read, the push follows the write.            *)
EditRead(e, j) ==
  /\ edits[e].pc = "idle"
  /\ disk[j] # Nothing /\ disk[j].spec
  /\ ~Queued(j)
  /\ edits' = [edits EXCEPT ![e] = [pc |-> "put", job |-> j, rec |-> restartJob(disk[j])]]
  /\ crossed' = IF Held(j) THEN crossed \cup {j} ELSE crossed
  /\ UNCHANGED <<files, queue, recovered, recovery, arriving, approval,
                 bounds, threw, dropped>>

Refuse(e) == edits' = [edits EXCEPT ![e] = OverRequest]

EditPut(e) ==
  /\ edits[e].pc = "put"
  /\ \/ /\ WriteScratch(edits[e].job, edits[e].rec)
        /\ edits' = [edits EXCEPT ![e].pc = "move"]
     \/ WriteFails /\ Refuse(e)
  /\ UNCHANGED <<queue, recovered, recovery, arriving, approval, history>>

EditMove(e) ==
  LET j == edits[e].job IN
  /\ edits[e].pc = "move"
  /\ \/ /\ Rename(j)
        /\ Enqueue([job |-> j, kind |-> "edit", decisions |-> {e}, rec |-> edits[e].rec])
        /\ edits' = [edits EXCEPT ![e] = [@ EXCEPT !.pc = "queued", !.rec = Nothing]]
     \/ /\ RenameFails(j) /\ Refuse(e)
        /\ UNCHANGED <<queue, dropped>>
  /\ UNCHANGED <<recovered, recovery, arriving, approval, crossed, threw>>

(* approveBuild: the whole record as it was read, with the signature over   *)
(* the specification it was read with.                                      *)
ApproveRead(j) ==
  /\ approval.pc = "idle"
  /\ disk[j].stage = "deployment_ready"
  /\ approval' = [pc |-> "put", job |-> j,
                  rec |-> [disk[j] EXCEPT !.signed = {disk[j].edits}, !.old = FALSE, !.ms = TRUE]]
  /\ crossed' = IF Held(j) THEN crossed \cup {j} ELSE crossed
  /\ UNCHANGED <<files, queue, recovered, recovery, arriving, edits, bounds, threw, dropped>>

ApprovePut ==
  /\ approval.pc = "put"
  /\ \/ /\ WriteScratch(approval.job, approval.rec)
        /\ approval' = [approval EXCEPT !.pc = "move"]
     \/ WriteFails /\ approval' = IdleRequest
  /\ UNCHANGED <<queue, recovered, recovery, arriving, edits, history>>

ApproveMove ==
  /\ approval.pc = "move"
  /\ Rename(approval.job) \/ RenameFails(approval.job)
  /\ approval' = IdleRequest
  /\ UNCHANGED <<queue, recovered, recovery, arriving, edits, history>>
-----------------------------------------------------------------------------
(* An execution.  mem is the pipeline's own copy of the job, saved whole;   *)
(* then is what follows the save in progress.                               *)
Goto(s, b) == builds' = [builds EXCEPT ![s] = b] /\ UNCHANGED <<waiting, running>>
Save(b, rec, then) == [b EXCEPT !.mem = rec, !.pc = "put", !.then = then]

failJob(rec) == [rec EXCEPT !.stage = "failed", !.old = FALSE, !.ms = FALSE]

(* execute's catch: the entry's copy of the job, marked failed.             *)
Throw(b) == Save(b, failJob(b.entry.rec), "gave_up")

(* A bug to catch: the job is resumed and the decision forgotten.           *)
DecideNothing(s) ==
  /\ builds[s].pc = "decide"
  /\ IF disk[builds[s].entry.job] # Nothing /\ disk[builds[s].entry.job].spec
     THEN /\ Goto(s, Save(builds[s], [disk[builds[s].entry.job] EXCEPT !.signed = {}], "start"))
          /\ UNCHANGED threw
     ELSE Goto(s, Throw(builds[s])) /\ threw' = threw \cup Accepted(builds[s].entry.job)
  /\ UNCHANGED <<files, requests, bounds, crossed, dropped>>

(* decideBuild: the job as it is on disk now, with the decision folded in.  *)
(* It throws where the file cannot be read.                                 *)
Decide(s) ==
  LET b == builds[s]  j == b.entry.job  rec == disk[j] IN
  /\ b.pc = "decide"
  /\ \/ /\ rec # Nothing /\ rec.spec
        /\ Goto(s, Save(b, [rec EXCEPT !.signed = {},
                              !.edits = @ \cup b.entry.decisions], "start"))
        /\ UNCHANGED threw /\ NoFault
     \/ /\ IF rec # Nothing /\ rec.spec THEN Fault ELSE NoFault
        /\ Goto(s, Throw(b)) /\ threw' = threw \cup Accepted(j)
  /\ UNCHANGED <<files, requests, crossed, dropped>>

(* A bug to catch: nobody looks at the line when a build ends.              *)
FinishQuietly(s) ==
  /\ running' = running \ {builds[s].entry.job}
  /\ builds' = [builds EXCEPT ![s] = FreeSlot]
  /\ UNCHANGED waiting

(* execute's finally: the id leaves running and pump runs again.            *)
Finish(s) == PumpFrom(waiting, running \ {builds[s].entry.job},
                      [builds EXCEPT ![s] = FreeSlot])

(* A save that throws inside runBuild's try becomes a failed job saved from *)
(* the same copy; every other one escapes to execute, whose own last write  *)
(* swallows its error.                                                      *)
Caught(b) == b.entry.job \notin EngineOne /\ b.then \in {"work", "end"}
             /\ b.mem.stage # "prompt_received"
SaveFailed(s, b) ==
  LET j == b.entry.job IN
  \/ /\ b.then = "gave_up"
     /\ Finish(s) /\ UNCHANGED threw
     /\ dropped' = dropped \cup {k \in {j} : Unfinished(disk[k])}
  \/ /\ b.then # "gave_up" /\ Caught(b)
     /\ Goto(s, Save(b, failJob(b.mem), "fail"))
     /\ UNCHANGED <<threw, dropped>>
  \/ /\ b.then # "gave_up" /\ ~Caught(b)
     /\ Goto(s, Throw(b)) /\ threw' = threw \cup Accepted(j)
     /\ UNCHANGED dropped

(* The pipeline up to its next save: it records the specification and its   *)
(* progress, or stops with a question, a market ready to deploy or a        *)
(* failure it has explained.  It touches its own copy only, so it is one    *)
(* step with the scratch write it ends in.  The saves it makes at one stage *)
(* are taken as one, those after it opens deployment_ready included.        *)
(* Engine v1 keeps no specification here and stamps its saves in            *)
(* milliseconds.                                                            *)
Outcomes(rec) == IF rec.stage = "building"
                 THEN {"awaiting_clarification", "deployment_ready", "failed"}
                 ELSE {"building", "failed"}
Work(s) ==
  LET b == builds[s]
      v1 == b.entry.job \in EngineOne
      saved(stage) == [b.mem EXCEPT !.stage = stage, !.old = FALSE, !.ms = v1,
                                    !.spec = @ \/ (stage = "building" /\ ~v1)]
  IN
  /\ b.pc = "work"
  /\ \E stage \in Outcomes(b.mem) :
       LET next == [b EXCEPT !.mem = saved(stage), !.pc = "move",
                             !.then = IF stage = "building" THEN "work" ELSE "end"] IN
       \/ /\ WriteScratch(b.entry.job, saved(stage))
          /\ Goto(s, next)
          /\ UNCHANGED <<threw, dropped>>
       \/ WriteFails /\ SaveFailed(s, next)
  /\ UNCHANGED <<requests, crossed>>

(* A defect between two saves.  runBuild turns it into a failure like any   *)
(* other; the engine-v1 pipeline lets it escape to execute.                 *)
Defect(s) ==
  /\ builds[s].pc = "work"
  /\ builds[s].entry.job \in EngineOne
  /\ Goto(s, Throw(builds[s]))
  /\ threw' = threw \cup Accepted(builds[s].entry.job)
  /\ UNCHANGED <<files, requests, bounds, crossed, dropped>>

BuildPut(s) ==
  /\ builds[s].pc = "put"
  /\ \/ /\ WriteScratch(builds[s].entry.job, builds[s].mem)
        /\ Goto(s, [builds[s] EXCEPT !.pc = "move"])
        /\ UNCHANGED <<threw, dropped>>
     \/ WriteFails /\ SaveFailed(s, builds[s])
  /\ UNCHANGED <<requests, crossed>>

BuildMove(s) ==
  LET b == builds[s]  j == b.entry.job IN
  /\ b.pc = "move"
  /\ \/ /\ Rename(j) /\ b.then \in {"end", "fail", "gave_up"}
        /\ Finish(s) /\ UNCHANGED <<threw, dropped>>
     \/ /\ Rename(j) /\ b.then = "start"
        /\ Goto(s, Save(b, restartJob(b.mem), "work"))
        /\ UNCHANGED <<threw, dropped>>
     \/ /\ Rename(j) /\ b.then = "work"
        /\ Goto(s, [b EXCEPT !.pc = "work"])
        /\ UNCHANGED <<threw, dropped>>
     \/ RenameFails(j) /\ SaveFailed(s, b)
  /\ UNCHANGED <<requests, crossed>>

(* The process dies and another starts: the queue, the requests in flight   *)
(* and the scratch files are gone, the jobs are on disk.  It may be down,   *)
(* or left without a visitor, for longer than RESUME_WITHIN_SECONDS.        *)
Crash ==
  /\ crashes < MaxCrashes /\ crashes' = crashes + 1
  /\ \E long \in BOOLEAN :
       disk' = [j \in Jobs |-> IF Unfinished(disk[j]) /\ long
                               THEN [disk[j] EXCEPT !.old = TRUE] ELSE disk[j]]
  /\ scratch' = [j \in Jobs |-> Nothing]
  /\ waiting' = <<>> /\ running' = {} /\ builds' = [s \in Slots |-> FreeSlot]
  /\ recovered' = FALSE /\ recovery' = IdleRecovery
  /\ arriving' = 0 /\ approval' = IdleRequest
  /\ edits' = [e \in Edits |->
       IF \/ edits[e].pc \in {"put", "move"}
          \/ /\ edits[e].pc = "queued"
             /\ disk[edits[e].job] = Nothing \/ e \notin disk[edits[e].job].edits
       THEN OverRequest ELSE edits[e]]
  /\ threw' = {} /\ dropped' = {}
  /\ UNCHANGED <<faults, crossed>>

Build(s) == Decide(s) \/ Work(s) \/ Defect(s) \/ BuildPut(s) \/ BuildMove(s)
Recover ==
  \/ RecoverList \/ RecoverFilter \/ RecoverPut \/ RecoverMove
  \/ \E j \in Jobs : RecoverRead(j)
Edit(e) == EditPut(e) \/ EditMove(e)
Approve == ApprovePut \/ ApproveMove

Next ==
  \/ StartBuild \/ Submit \/ SubmitFails \/ Recover \/ Approve \/ Crash
  \/ \E j \in Jobs : Answer(j) \/ ApproveRead(j)
  \/ \E e \in Edits, j \in Jobs : EditRead(e, j)
  \/ \E e \in Edits : Edit(e)
  \/ \E s \in Slots : Build(s)

(* Every write and every pipeline step that has begun resolves, one way or  *)
(* the other: model calls and compiles time out, file writes return.        *)
Fairness == WF_vars(Recover) /\ \A s \in Slots : WF_vars(Build(s))

Spec == Init /\ [][Next]_vars
FairSpec == Spec /\ Fairness
-----------------------------------------------------------------------------
(***************************************************************************)
(* Properties                                                              *)
(***************************************************************************)
Execution == [entry: Pending, mem: Record,
              pc: {"decide", "work", "put", "move"},
              then: {"start", "work", "end", "fail", "gave_up"}]
Request == [pc: {"idle", "put", "move", "queued", "over"}, job: Jobs,
            rec: Record \cup {Nothing}]

(* Every variable holds a value of its kind, in the queue, the files and    *)
(* the requests in flight.                                                  *)
TypeOK ==
  /\ disk \in [Jobs -> Record \cup {Nothing}]
  /\ scratch \in [Jobs -> Record \cup {Nothing}]
  /\ waiting \in Seq(Pending) /\ running \subseteq Jobs
  /\ builds \in [Slots -> Execution \cup {FreeSlot}]
  /\ recovered \in BOOLEAN
  /\ recovery \in [pc: {"idle", "list", "read", "put", "move"}, names: SUBSET Jobs,
                   todo: SUBSET Jobs, read: [Jobs -> Record \cup {Nothing}]]
  /\ arriving \in 0..NJobs
  /\ edits \in [Edits -> Request] /\ approval \in Request
  /\ crashes \in 0..MaxCrashes /\ faults \in 0..MaxFaults
  /\ crossed \subseteq Jobs /\ threw \subseteq Edits /\ dropped \subseteq Jobs

Entries(j) == {i \in DOMAIN waiting : waiting[i].job = j}
Loads(j) == Cardinality(Entries(j)) + Cardinality(BuildsOf(j))

(* "A double submission from an impatient click must not start the remainder *)
(* of a build twice" (queue.ts, answer): a job is in line or executing once. *)
(* The code does not keep this of two edits at once; the next one is what    *)
(* it does keep.                                                             *)
OneBuildPerJob == \A j \in Jobs : Loads(j) <= 1

(* The only way to break it is two requests that held the job across an     *)
(* await at the same time; otherwise running names the executions exactly,  *)
(* so its size is their number and Capacity bounds the builds.              *)
OnlyCrossedBuildTwice ==
  \A j \in Jobs \ crossed :
    Loads(j) <= 1 /\ (j \in running <=> BuildsOf(j) # {})

(* The scan for interrupted builds is still to pick the job up.             *)
ScanHas(j) ==
  \/ ~recovered \/ recovery.pc = "list"
  \/ recovery.pc = "read" /\ j \in recovery.names
  \/ recovery.pc = "read" /\ recovery.read[j] # Nothing
  \/ j \in recovery.todo

(* "A job on disk that no worker is running is a job the next process can    *)
(* pick up" (queue.ts).  A job that is neither finished nor waiting on its  *)
(* creator has somebody who will move it, whatever saves have failed: an    *)
(* entry, an execution, the scan for interrupted builds; or it was too old  *)
(* for that.  Only four errors leave it to the next process, all of them    *)
(* swallowed: the scan could not list, or not read the job, or had 200      *)
(* newer ones, or the last save of an execution that threw failed.          *)
NothingStranded ==
  \A j \in Jobs \ (crossed \cup dropped) :
    Unfinished(disk[j])
      => Waits(j) \/ BuildsOf(j) # {} \/ ScanHas(j) \/ ~TouchedRecently(disk[j])

(* builds.ts approveBuild: an approval is of the specification it is stored *)
(* with, on a build that finished, whatever was written over what.          *)
ApprovalBinds ==
  \A j \in Jobs : disk[j] # Nothing =>
    /\ disk[j].signed \subseteq {disk[j].edits}
    /\ disk[j].signed # {} => disk[j].stage = "deployment_ready"

(* An edit a request has answered ok for is in the specification on disk,   *)
(* or in the line or an execution that will fold it in, unless requests     *)
(* crossed on the job, an execution of the job threw after that, or the     *)
(* process died before the edit was folded in.                              *)
EditsKept ==
  \A e \in Edits :
    LET j == edits[e].job IN
    (edits[e].pc = "queued" /\ j \notin crossed /\ e \notin threw)
      => \/ e \in disk[j].edits
         \/ \E i \in Entries(j) : e \in waiting[i].decisions
         \/ \E s \in BuildsOf(j) : e \in builds[s].entry.decisions

(* "Only jobs touched recently" are picked up after a restart (queue.ts,     *)
(* recoverInterrupted).  Not so of engine v1, whose times are milliseconds.  *)
OnlyRecentResumed ==
  [][\A j \in recovery'.todo \ recovery.todo : ~disk[j].old]_vars

(* A job that is in line or executing is out of both in the end, if only    *)
(* because the process died: the bound never starves an entry.              *)
QueueDrains == \A j \in Jobs : []<>(~Queued(j) /\ BuildsOf(j) = {})
=============================================================================
