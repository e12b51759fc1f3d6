-------------------------- MODULE BuildQueueProofs --------------------------
(***************************************************************************)
(* BuildQueue, for every number of jobs, capacity and set of edits.        *)
(*                                                                         *)
(* First the types, and that an approval never sits on a record it was not *)
(* given for: the invariant follows the records wherever they are copied;  *)
(* what is stored or about to be stored is Sound, and what the queue and   *)
(* the executions carry is unsigned.                                       *)
(*                                                                         *)
(* Then what is kept of a job no two requests crossed on, whatever reads   *)
(* and writes fail: it is executed once at a time, it is let go by four    *)
(* errors only, and no edit of it is lost unless an execution throws.  The *)
(* invariant JobsFit says of such a job whose hands it is in (one request, *)
(* the line or one execution), and that what they hold is no older than    *)
(* the disk.                                                               *)
(***************************************************************************)
EXTENDS BuildQueue, FiniteSetTheorems, TLAPS

Sound == {rec \in Record : /\ rec.signed \subseteq {rec.edits}
                           /\ rec.signed # {} => rec.stage = "deployment_ready"}
Unsigned == {rec \in Record : rec.signed = {}}

UnsignedPending == [job: Jobs, kind: {"build", "answers", "edit"},
                    decisions: SUBSET Edits, rec: Unsigned]
UnsignedExecution == [entry: UnsignedPending, mem: Unsigned,
                      pc: {"decide", "work", "put", "move"},
                      then: {"start", "work", "end", "fail", "gave_up"}]

FilesOK == /\ disk \in [Jobs -> Sound \cup {Nothing}]
           /\ scratch \in [Jobs -> Sound \cup {Nothing}]
QueueOK == /\ waiting \in Seq(UnsignedPending)
           /\ running \subseteq Jobs
           /\ builds \in [Slots -> UnsignedExecution \cup {FreeSlot}]
RecoveryOK ==
  /\ recovered \in BOOLEAN
  /\ recovery \in [pc: {"idle", "list", "read", "put", "move"}, names: SUBSET Jobs,
                   todo: SUBSET Jobs, read: [Jobs -> Sound \cup {Nothing}]]
  /\ \A j \in recovery.todo : recovery.read[j] \in Sound
  /\ recovery.pc \in {"put", "move"} <=> recovery.todo # {}
  /\ ~recovered => recovery.pc = "idle"
  /\ \A j \in Jobs : recovery.read[j] # Nothing => Unfinished(recovery.read[j])
  /\ arriving \in 0..NJobs
EditsOK ==
  /\ edits \in [Edits -> [pc: {"idle", "put", "move", "queued", "over"},
                          job: Jobs, rec: Unsigned \cup {Nothing}]]
  /\ \A e \in Edits : edits[e].pc \in {"put", "move"} => edits[e].rec \in Unsigned
ApprovalOK ==
  /\ approval \in [pc: {"idle", "put", "move", "queued", "over"},
                   job: Jobs, rec: Sound \cup {Nothing}]
  /\ approval.pc \in {"put", "move"} => approval.rec \in Sound
BoundsOK == crashes \in 0..MaxCrashes /\ faults \in 0..MaxFaults
HistoryOK == crossed \subseteq Jobs /\ threw \subseteq Edits /\ dropped \subseteq Jobs

IInv ==
  /\ FilesOK /\ QueueOK /\ RecoveryOK /\ EditsOK /\ ApprovalOK
  /\ BoundsOK /\ HistoryOK
-----------------------------------------------------------------------------
LEMMA Kinds ==
  /\ Unsigned \subseteq Sound /\ Sound \subseteq Record
  /\ Nothing \notin Record
  /\ newJob \in Unsigned
BY DEF Unsigned, Sound, Record, Nothing, newJob, Stages

LEMMA Restarted == \A rec \in Record : restartJob(rec) \in Unsigned
BY DEF restartJob, Unsigned, Record, Stages

LEMMA Failed == \A rec \in Unsigned : failJob(rec) \in Unsigned
BY DEF failJob, Unsigned, Record, Stages

LEMMA Executed ==
  \A item \in UnsignedPending : execute(item) \in UnsignedExecution
<1> SUFFICES ASSUME NEW item \in UnsignedPending
             PROVE  execute(item) \in UnsignedExecution
  OBVIOUS
<1>1. item.rec \in Unsigned
  BY DEF UnsignedPending
<1>2. restartJob(item.rec) \in Unsigned
  BY <1>1, Kinds, Restarted
<1>3. [item.rec EXCEPT !.stage = "prompt_received"] \in Unsigned
  BY <1>1 DEF Unsigned, Record, Stages
<1> QED BY <1>2, <1>3 DEF execute, UnsignedExecution

LEMMA FreeIsNoExecution == FreeSlot \notin UnsignedExecution
BY DEF FreeSlot, UnsignedExecution

\* What pump leaves behind, whatever line and slots it starts from.
LEMMA PumpTypes ==
  ASSUME NEW w \in Seq(UnsignedPending), NEW r \in SUBSET Jobs,
         NEW b \in [Slots -> UnsignedExecution \cup {FreeSlot}],
         PumpFrom(w, r, b)
  PROVE  QueueOK'
<1> DEFINE jobs(n) == r \cup {w[i].job : i \in 1..n}
           takes == {n \in 1..Len(w) : \A m \in 0..(n - 1) : Cardinality(jobs(m)) < Capacity}
           taken == Cardinality(takes)
           frees(s) == {t \in 1..s : b[t].pc = "free"}
           rank(s) == Cardinality(frees(s))
<1>0. Len(w) \in Nat
  OBVIOUS
<1>1. taken \in 0..Len(w)
  <2>1. IsFiniteSet(1..Len(w)) /\ Cardinality(1..Len(w)) = Len(w)
    <3>1. 1 \in Int /\ Len(w) \in Int /\ Len(w) - 1 + 1 = Len(w)
      BY <1>0
    <3>2. Cardinality(1..Len(w)) = IF 1 > Len(w) THEN 0 ELSE Len(w) - 1 + 1
      BY <3>1, FS_Interval
    <3> QED BY <1>0, <3>1, <3>2, FS_Interval
  <2>2. takes \subseteq 1..Len(w)
    OBVIOUS
  <2> QED BY <2>1, <2>2, FS_Subset, FS_CardinalityType
<1>2. \A s \in Slots : b[s].pc = "free" => rank(s) \in Nat \ {0}
  <2> SUFFICES ASSUME NEW s \in Slots, b[s].pc = "free"
               PROVE  rank(s) \in Nat \ {0}
    OBVIOUS
  <2>1. s \in Nat /\ s \in 1..s
    BY QueueAssumption DEF Slots
  <2>2. IsFiniteSet(frees(s))
    BY <2>1, FS_Interval, FS_Subset
  <2>3. s \in frees(s)
    BY <2>1
  <2> QED BY <2>2, <2>3, FS_EmptySet, FS_CardinalityType
<1>3. /\ waiting' = SubSeq(w, taken + 1, Len(w))
      /\ running' = jobs(taken)
      /\ builds' = [s \in Slots |->
           IF b[s].pc = "free" /\ rank(s) <= taken THEN execute(w[rank(s)]) ELSE b[s]]
  BY DEF PumpFrom
<1> HIDE DEF takes, taken, frees, rank
<1>4. waiting' \in Seq(UnsignedPending)
  BY <1>0, <1>1, <1>3
<1>5. running' \subseteq Jobs
  <2>1. ASSUME NEW i \in 1..taken PROVE w[i].job \in Jobs
    <3>1. i \in 1..Len(w)
      BY <1>0, <1>1
    <3>2. w[i] \in UnsignedPending
      BY <3>1
    <3> QED BY <3>2 DEF UnsignedPending
  <2> QED BY <2>1, <1>3
<1>6. ASSUME NEW s \in Slots
      PROVE  builds'[s] \in UnsignedExecution \cup {FreeSlot}
  <2>1. CASE b[s].pc = "free" /\ rank(s) <= taken
    <3>1. rank(s) \in 1..Len(w)
      BY <1>0, <1>1, <1>2, <2>1
    <3>2. w[rank(s)] \in UnsignedPending
      BY <3>1
    <3> QED BY <3>2, <2>1, <1>3, Executed
  <2>2. CASE ~(b[s].pc = "free" /\ rank(s) <= taken)
    BY <2>2, <1>3
  <2> QED BY <2>1, <2>2
<1> QED BY <1>3, <1>4, <1>5, <1>6 DEF QueueOK

LEMMA EnqueueTypes ==
  ASSUME QueueOK, HistoryOK, NEW item \in UnsignedPending, Enqueue(item)
  PROVE  QueueOK' /\ dropped' \subseteq Jobs
<1>1. Append(waiting, item) \in Seq(UnsignedPending)
  BY DEF QueueOK
<1> QED BY <1>1, PumpTypes DEF QueueOK, HistoryOK, Enqueue

LEMMA FinishTypes ==
  ASSUME QueueOK, NEW s \in Slots, Finish(s)
  PROVE  QueueOK'
<1>1. [builds EXCEPT ![s] = FreeSlot] \in [Slots -> UnsignedExecution \cup {FreeSlot}]
  BY DEF QueueOK
<1>2. running \ {builds[s].entry.job} \subseteq Jobs
  BY DEF QueueOK
<1> QED BY <1>1, <1>2, PumpTypes DEF QueueOK, Finish

LEMMA GotoTypes ==
  ASSUME QueueOK, NEW s \in Slots, NEW b \in UnsignedExecution, Goto(s, b)
  PROVE  QueueOK'
BY DEF QueueOK, Goto

LEMMA SaveTypes ==
  ASSUME NEW b \in UnsignedExecution, NEW rec \in Unsigned,
         NEW then \in {"start", "work", "end", "fail", "gave_up"}
  PROVE  Save(b, rec, then) \in UnsignedExecution
BY DEF Save, UnsignedExecution

LEMMA ThrowTypes ==
  ASSUME NEW b \in UnsignedExecution
  PROVE  Throw(b) \in UnsignedExecution
<1>1. failJob(b.entry.rec) \in Unsigned
  BY Failed DEF UnsignedExecution, UnsignedPending
<1> QED BY <1>1, SaveTypes DEF Throw

LEMMA ScratchTypes ==
  ASSUME FilesOK, NEW j \in Jobs, NEW rec \in Sound, WriteScratch(j, rec)
  PROVE  FilesOK'
BY DEF FilesOK, WriteScratch

LEMMA RenameTypes ==
  ASSUME FilesOK, NEW j \in Jobs, Rename(j)
  PROVE  FilesOK'
BY DEF FilesOK, Rename

LEMMA RenameFailsTypes ==
  ASSUME FilesOK, NEW j \in Jobs, RenameFails(j)
  PROVE  FilesOK'
BY DEF FilesOK, RenameFails

\* What every use of the files leaves of the bounds.
LEMMA BoundTypes ==
  ASSUME BoundsOK,
         \/ NoFault \/ Fault \/ WriteFails
         \/ \E j \in Jobs, rec \in Record : WriteScratch(j, rec)
         \/ \E j \in Jobs : Rename(j) \/ RenameFails(j)
  PROVE  BoundsOK'
BY QueueAssumption DEF BoundsOK, NoFault, Fault, Faults, WriteFails, WriteScratch, Rename,
                       RenameFails, bounds

LEMMA ArriveTypes ==
  ASSUME arriving \in 0..NJobs, Arrive
  PROVE  arriving' \in 0..NJobs
<1>1. IsFiniteSet(Jobs) /\ Cardinality(Jobs) = NJobs
  BY QueueAssumption, FS_Interval DEF Jobs
<1>2. Room \in Nat /\ Room <= NJobs
  BY <1>1, FS_Subset, FS_CardinalityType DEF Room
<1> QED BY <1>2, QueueAssumption DEF Arrive

LEMMA Unchanged ==
  /\ FilesOK /\ UNCHANGED files => FilesOK'
  /\ QueueOK /\ UNCHANGED queue => QueueOK'
  /\ RecoveryOK /\ UNCHANGED <<recovered, recovery, arriving>> => RecoveryOK'
  /\ EditsOK /\ UNCHANGED edits => EditsOK'
  /\ ApprovalOK /\ UNCHANGED approval => ApprovalOK'
  /\ BoundsOK /\ UNCHANGED bounds => BoundsOK'
  /\ HistoryOK /\ UNCHANGED history => HistoryOK'
BY DEF FilesOK, QueueOK, RecoveryOK, EditsOK, ApprovalOK, BoundsOK, HistoryOK,
       files, queue, bounds, history
-----------------------------------------------------------------------------
LEMMA InitIInv == Init => IInv
<1> SUFFICES ASSUME Init PROVE IInv
  OBVIOUS
<1>1. 1 \in Jobs /\ 0 \in 0..NJobs /\ 0 \in 0..MaxCrashes /\ 0 \in 0..MaxFaults
  BY QueueAssumption DEF Jobs
<1>2. FilesOK /\ QueueOK /\ BoundsOK /\ HistoryOK
  BY <1>1 DEF Init, FilesOK, QueueOK, BoundsOK, HistoryOK
<1>3. RecoveryOK
  BY <1>1 DEF Init, RecoveryOK, IdleRecovery
<1>4. EditsOK /\ ApprovalOK
  BY <1>1 DEF Init, EditsOK, ApprovalOK, IdleRequest
<1> QED BY <1>2, <1>3, <1>4 DEF IInv

\* A job whose stage is asked about is on disk.
LEMMA OnDisk ==
  ASSUME FilesOK, NEW j \in Jobs, disk[j] # Nothing
  PROVE  disk[j] \in Sound
BY DEF FilesOK

\* A record that is not that of a finished build carries no approval.
LEMMA UnfinishedUnsigned ==
  \A rec \in Sound : rec.stage # "deployment_ready" => rec \in Unsigned
BY DEF Sound, Unsigned

LEMMA EntryTypes ==
  ASSUME NEW j \in Jobs, NEW rec \in Unsigned
  PROVE  entry(j, rec) \in UnsignedPending
BY DEF entry, UnsignedPending

LEMMA AcceptedEdits == \A j : Accepted(j) \subseteq Edits
BY DEF Accepted

LEMMA StepStartBuild == IInv /\ StartBuild => IInv'
<1> SUFFICES ASSUME IInv, StartBuild PROVE IInv'
  OBVIOUS
<1>1. RecoveryOK'
  <2>1. CASE recovered
    BY <2>1, ArriveTypes DEF IInv, RecoveryOK, StartBuild
  <2>2. CASE ~recovered
    BY <2>2 DEF IInv, RecoveryOK, StartBuild
  <2> QED BY <2>1, <2>2
<1> QED BY <1>1, Unchanged DEF IInv, StartBuild

LEMMA StepSubmit == IInv /\ Submit => IInv'
<1> SUFFICES ASSUME IInv, Submit PROVE IInv'
  OBVIOUS
<1>1. PICK j \in Jobs : /\ disk' = [disk EXCEPT ![j] = newJob]
                        /\ Enqueue(entry(j, newJob))
  BY DEF Submit
<1>2. FilesOK'
  BY <1>1, Kinds DEF IInv, FilesOK, Submit
<1>3. QueueOK' /\ dropped' \subseteq Jobs
  BY <1>1, Kinds, EntryTypes, EnqueueTypes DEF IInv
<1>4. arriving' \in 0..NJobs
  BY QueueAssumption DEF IInv, RecoveryOK, Submit
<1>5. RecoveryOK' /\ HistoryOK'
  BY <1>3, <1>4 DEF IInv, RecoveryOK, HistoryOK, Submit
<1> QED BY <1>2, <1>3, <1>5, Unchanged DEF IInv, Submit

LEMMA StepSubmitFails == IInv /\ SubmitFails => IInv'
<1> SUFFICES ASSUME IInv, SubmitFails PROVE IInv'
  OBVIOUS
<1>1. arriving' \in 0..NJobs
  BY QueueAssumption DEF IInv, RecoveryOK, SubmitFails
<1>2. RecoveryOK'
  BY <1>1 DEF IInv, RecoveryOK, SubmitFails
<1> QED BY <1>2, BoundTypes, Unchanged DEF IInv, SubmitFails

LEMMA StepRecoverList == IInv /\ RecoverList => IInv'
<1> SUFFICES ASSUME IInv, RecoverList PROVE IInv'
  OBVIOUS
<1>1. RecoveryOK'
  <2>1. CASE recovery' = [recovery EXCEPT !.pc = "read", !.names = {j \in Jobs : disk[j] # Nothing}]
             /\ UNCHANGED arriving
    BY <2>1 DEF IInv, RecoveryOK, RecoverList
  <2>2. CASE recovery' = IdleRecovery /\ Arrive
    <3>1. arriving' \in 0..NJobs
      BY <2>2, ArriveTypes DEF IInv, RecoveryOK
    <3> QED BY <2>2, <3>1 DEF IInv, RecoveryOK, RecoverList, IdleRecovery
  <2> QED BY <2>1, <2>2 DEF RecoverList
<1>2. HistoryOK'
  BY DEF IInv, HistoryOK, RecoverList, LetGo
<1>3. BoundsOK'
  BY BoundTypes DEF IInv, RecoverList
<1> QED BY <1>1, <1>2, <1>3, Unchanged DEF IInv, RecoverList

LEMMA StepRecoverRead == ASSUME IInv, NEW j \in Jobs, RecoverRead(j) PROVE IInv'
<1>1. RecoveryOK'
  <2>1. recovery.pc = "read" /\ recovery.todo = {} /\ UNCHANGED <<recovered, arriving>>
    BY DEF IInv, RecoveryOK, RecoverRead
  <2>2. PICK rec : rec = IF Interrupted(disk[j]) /\ (Queued(j) => j \in Overtaken)
                         THEN disk[j] ELSE Nothing
    OBVIOUS
  <2>3. rec \in Sound \cup {Nothing} /\ (rec # Nothing => Unfinished(rec))
    BY <2>2 DEF IInv, FilesOK, Interrupted
  <2>4. \/ recovery' = [recovery EXCEPT !.names = @ \ {j}, !.read[j] = rec]
        \/ recovery' = [recovery EXCEPT !.names = @ \ {j}]
    BY <2>2 DEF RecoverRead
  <2>5. PICK read : read = [recovery.read EXCEPT ![j] = rec]
    OBVIOUS
  <2>6. CASE recovery' = [recovery EXCEPT !.names = @ \ {j}, !.read[j] = rec]
    <3>1. /\ read \in [Jobs -> Sound \cup {Nothing}]
          /\ \A k \in Jobs : read[k] # Nothing => Unfinished(read[k])
      BY <2>3, <2>5 DEF IInv, RecoveryOK
    <3>2. recovery' = [recovery EXCEPT !.names = @ \ {j}, !.read = read]
      BY <2>5, <2>6 DEF IInv, RecoveryOK
    <3> QED BY <2>1, <3>1, <3>2 DEF IInv, RecoveryOK
  <2>7. CASE recovery' = [recovery EXCEPT !.names = @ \ {j}]
    BY <2>1, <2>7 DEF IInv, RecoveryOK
  <2> QED BY <2>4, <2>6, <2>7
<1>2. HistoryOK'
  BY DEF IInv, HistoryOK, RecoverRead, LetGo
<1>3. BoundsOK'
  BY BoundTypes DEF IInv, RecoverRead
<1> QED BY <1>1, <1>2, <1>3, Unchanged DEF IInv, RecoverRead

LEMMA StepRecoverFilter == IInv /\ RecoverFilter => IInv'
<1> SUFFICES ASSUME IInv, RecoverFilter PROVE IInv'
  OBVIOUS
<1>1. PICK listed \in Listings :
       /\ IF Stale(listed) = {}
          THEN recovery' = IdleRecovery /\ Arrive
          ELSE /\ recovery' = [pc |-> "put", names |-> {}, todo |-> Stale(listed),
                               read |-> [j \in Jobs |->
                                 IF j \in Stale(listed) THEN recovery.read[j] ELSE Nothing]]
               /\ UNCHANGED arriving
       /\ crossed' = crossed \cup {j \in Stale(listed) : \/ HeldByEdit(j) \/ HeldByApproval(j)
                                                         \/ disk[j] # recovery.read[j]}
       /\ dropped' = dropped \cup LetGo(Copies \ listed)
  BY DEF RecoverFilter
<1>2. \A j \in Stale(listed) : j \in Jobs /\ recovery.read[j] \in Sound
  BY DEF Listings, Copies, Stale, IInv, RecoveryOK
<1>3. RecoveryOK'
  <2>1. CASE Stale(listed) = {}
    <3>1. arriving' \in 0..NJobs
      BY <1>1, <2>1, ArriveTypes DEF IInv, RecoveryOK
    <3> QED BY <1>1, <3>1, <2>1 DEF IInv, RecoveryOK, RecoverFilter, IdleRecovery
  <2>2. CASE Stale(listed) # {}
    BY <1>1, <2>2, <1>2 DEF IInv, RecoveryOK, RecoverFilter
  <2> QED BY <2>1, <2>2
<1>4. HistoryOK'
  BY <1>1, <1>2 DEF IInv, HistoryOK, RecoverFilter, LetGo, Copies
<1> QED BY <1>3, <1>4, Unchanged DEF IInv, RecoverFilter

\* The entry of a job of the scan, and what its push leaves of the scan.
LEMMA RequeueTypes ==
  ASSUME IInv, NEW j \in Jobs, Newest(j), Requeue(j), UNCHANGED recovered
  PROVE  /\ restartJob(recovery.read[j]) \in Unsigned
         /\ entry(j, restartJob(recovery.read[j])) \in UnsignedPending
         /\ QueueOK' /\ RecoveryOK' /\ dropped' \subseteq Jobs
<1> DEFINE item == entry(j, restartJob(recovery.read[j]))
           left == recovery.todo \ {j}
<1>1. j \in recovery.todo
  BY DEF Newest
<1>2. restartJob(recovery.read[j]) \in Unsigned
  BY <1>1, Restarted, Kinds DEF IInv, RecoveryOK
<1>3. item \in UnsignedPending
  BY <1>2, EntryTypes
<1>4. CASE left = {}
  <2>1. Enqueue(item) /\ Arrive /\ recovery' = IdleRecovery
    BY <1>4 DEF Requeue
  <2>2. QueueOK' /\ dropped' \subseteq Jobs
    BY <2>1, <1>3, EnqueueTypes DEF IInv
  <2>3. arriving' \in 0..NJobs
    BY <2>1, ArriveTypes DEF IInv, RecoveryOK
  <2>4. RecoveryOK'
    BY <2>1, <2>3 DEF IInv, RecoveryOK, IdleRecovery
  <2> QED BY <1>2, <1>3, <2>2, <2>4
<1>5. CASE left # {}
  <2>1. /\ waiting' = Append(waiting, item) /\ dropped' = dropped \ {j}
        /\ recovery' = [recovery EXCEPT !.pc = "put", !.todo = left]
        /\ UNCHANGED <<running, builds, arriving>>
    BY <1>5 DEF Requeue
  <2>2. QueueOK' /\ dropped' \subseteq Jobs
    BY <2>1, <1>3 DEF IInv, QueueOK, HistoryOK
  <2>3. RecoveryOK'
    BY <2>1, <1>5 DEF IInv, RecoveryOK
  <2> QED BY <1>2, <1>3, <2>2, <2>3
<1> QED BY <1>4, <1>5

LEMMA StepRecoverPut == IInv /\ RecoverPut => IInv'
<1> SUFFICES ASSUME IInv, RecoverPut PROVE IInv'
  OBVIOUS
<1>1. PICK j \in Jobs :
        /\ Newest(j)
        /\ \/ /\ WriteScratch(j, restartJob(recovery.read[j]))
              /\ recovery' = [recovery EXCEPT !.pc = "move"]
              /\ UNCHANGED <<queue, arriving, dropped>>
           \/ WriteFails /\ Requeue(j)
  BY DEF RecoverPut
<1>2. restartJob(recovery.read[j]) \in Sound /\ restartJob(recovery.read[j]) \in Record
  BY <1>1, Restarted, Kinds DEF IInv, RecoveryOK, Newest
<1>3. FilesOK' /\ BoundsOK'
  BY <1>1, <1>2, ScratchTypes, BoundTypes, Unchanged DEF IInv, WriteFails
<1>4. QueueOK' /\ RecoveryOK' /\ dropped' \subseteq Jobs
  <2>1. CASE recovery' = [recovery EXCEPT !.pc = "move"] /\ UNCHANGED <<queue, arriving, dropped>>
    BY <1>1, <2>1, Unchanged DEF IInv, RecoveryOK, HistoryOK, RecoverPut
  <2>2. CASE Requeue(j)
    BY <1>1, <2>2, RequeueTypes DEF RecoverPut
  <2> QED BY <1>1, <2>1, <2>2
<1>5. HistoryOK'
  BY <1>4 DEF IInv, HistoryOK, RecoverPut
<1> QED BY <1>3, <1>4, <1>5, Unchanged DEF IInv, RecoverPut

LEMMA StepRecoverMove == IInv /\ RecoverMove => IInv'
<1> SUFFICES ASSUME IInv, RecoverMove PROVE IInv'
  OBVIOUS
<1>1. PICK j \in Jobs : Newest(j) /\ (Rename(j) \/ RenameFails(j)) /\ Requeue(j)
  BY DEF RecoverMove
<1>2. FilesOK' /\ BoundsOK'
  BY <1>1, RenameTypes, RenameFailsTypes, BoundTypes DEF IInv
<1>3. QueueOK' /\ RecoveryOK' /\ dropped' \subseteq Jobs
  BY <1>1, RequeueTypes DEF RecoverMove
<1>4. HistoryOK'
  BY <1>3 DEF IInv, HistoryOK, RecoverMove
<1> QED BY <1>2, <1>3, <1>4, Unchanged DEF IInv, RecoverMove

LEMMA StepAnswer == ASSUME IInv, NEW j \in Jobs, Answer(j) PROVE IInv'
<1>1. disk[j] \in Unsigned
  <2>1. disk[j] # Nothing
    BY DEF Answer, Nothing
  <2> QED BY <2>1, OnDisk, UnfinishedUnsigned DEF IInv, Answer
<1>2. [job |-> j, kind |-> "answers", decisions |-> {}, rec |-> disk[j]] \in UnsignedPending
  BY <1>1 DEF UnsignedPending
<1>3. QueueOK' /\ dropped' \subseteq Jobs
  BY <1>2, EnqueueTypes DEF IInv, Answer
<1>4. HistoryOK'
  BY <1>3 DEF IInv, HistoryOK, Answer
<1> QED BY <1>3, <1>4, Unchanged DEF IInv, Answer, requests

LEMMA StepEditRead ==
  ASSUME IInv, NEW e \in Edits, NEW j \in Jobs, EditRead(e, j) PROVE IInv'
<1>1. restartJob(disk[j]) \in Unsigned
  BY OnDisk, Kinds, Restarted DEF IInv, EditRead
<1>2. EditsOK'
  BY <1>1 DEF IInv, EditsOK, EditRead
<1>3. HistoryOK'
  BY DEF IInv, HistoryOK, EditRead
<1> QED BY <1>2, <1>3, Unchanged DEF IInv, EditRead

LEMMA RefuseTypes == ASSUME EditsOK, NEW e \in Edits, Refuse(e) PROVE EditsOK'
<1>1. 1 \in Jobs
  BY QueueAssumption DEF Jobs
<1> QED BY <1>1 DEF EditsOK, Refuse, OverRequest, IdleRequest

LEMMA StepEditPut == ASSUME IInv, NEW e \in Edits, EditPut(e) PROVE IInv'
<1>1. edits[e].job \in Jobs /\ edits[e].rec \in Sound /\ edits[e].rec \in Record
  BY Kinds DEF IInv, EditsOK, EditPut
<1>2. CASE WriteScratch(edits[e].job, edits[e].rec) /\ edits' = [edits EXCEPT ![e].pc = "move"]
  <2>1. FilesOK' /\ BoundsOK'
    BY <1>1, <1>2, ScratchTypes, BoundTypes DEF IInv
  <2>2. EditsOK'
    BY <1>1, <1>2 DEF IInv, EditsOK, EditPut
  <2> QED BY <2>1, <2>2, Unchanged DEF IInv, EditPut
<1>3. CASE WriteFails /\ Refuse(e)
  <2>1. FilesOK' /\ BoundsOK'
    BY <1>3, Unchanged, BoundTypes DEF IInv, WriteFails
  <2> QED BY <1>3, <2>1, RefuseTypes, Unchanged DEF IInv, EditPut
<1> QED BY <1>2, <1>3 DEF EditPut

LEMMA StepEditMove == ASSUME IInv, NEW e \in Edits, EditMove(e) PROVE IInv'
<1> DEFINE j == edits[e].job
           item == [job |-> j, kind |-> "edit", decisions |-> {e}, rec |-> edits[e].rec]
<1>1. j \in Jobs /\ item \in UnsignedPending
  BY DEF IInv, EditsOK, EditMove, UnsignedPending
<1>2. CASE /\ Rename(j) /\ Enqueue(item)
           /\ edits' = [edits EXCEPT ![e] = [@ EXCEPT !.pc = "queued", !.rec = Nothing]]
  <2>1. FilesOK' /\ BoundsOK'
    BY <1>1, <1>2, RenameTypes, BoundTypes DEF IInv
  <2>2. QueueOK' /\ dropped' \subseteq Jobs
    BY <1>1, <1>2, EnqueueTypes DEF IInv
  <2>3. EditsOK'
    BY <1>2 DEF IInv, EditsOK
  <2>4. HistoryOK'
    BY <2>2 DEF IInv, HistoryOK, EditMove
  <2> QED BY <2>1, <2>2, <2>3, <2>4, Unchanged DEF IInv, EditMove
<1>3. CASE RenameFails(j) /\ Refuse(e) /\ UNCHANGED <<queue, dropped>>
  <2>1. FilesOK' /\ BoundsOK'
    BY <1>1, <1>3, RenameFailsTypes, BoundTypes DEF IInv
  <2>2. HistoryOK'
    BY <1>3 DEF IInv, HistoryOK, EditMove
  <2> QED BY <1>3, <2>1, <2>2, RefuseTypes, Unchanged DEF IInv, EditMove
<1> QED BY <1>2, <1>3 DEF EditMove

LEMMA StepApproveRead == ASSUME IInv, NEW j \in Jobs, ApproveRead(j) PROVE IInv'
<1> DEFINE rec == [disk[j] EXCEPT !.signed = {disk[j].edits}, !.old = FALSE, !.ms = TRUE]
<1>1. disk[j] \in Sound
  BY OnDisk DEF IInv, ApproveRead, Nothing
<1>2. rec \in Sound
  BY <1>1 DEF ApproveRead, Sound, Record
<1>3. ApprovalOK'
  BY <1>2 DEF IInv, ApprovalOK, ApproveRead
<1>4. HistoryOK'
  BY DEF IInv, HistoryOK, ApproveRead
<1> QED BY <1>3, <1>4, Unchanged DEF IInv, ApproveRead

LEMMA IdleApproval == approval' = IdleRequest => ApprovalOK'
<1>1. 1 \in Jobs
  BY QueueAssumption DEF Jobs
<1> QED BY <1>1 DEF ApprovalOK, IdleRequest

LEMMA StepApprove == IInv /\ Approve => IInv'
<1> SUFFICES ASSUME IInv, Approve PROVE IInv'
  OBVIOUS
<1>1. approval.job \in Jobs
  BY DEF IInv, ApprovalOK
<1>2. CASE ApprovePut
  <2>1. approval.rec \in Sound /\ approval.rec \in Record
    BY <1>2, Kinds DEF IInv, ApprovalOK, ApprovePut
  <2>2. FilesOK' /\ BoundsOK'
    BY <1>1, <1>2, <2>1, ScratchTypes, BoundTypes, Unchanged DEF IInv, ApprovePut, WriteFails
  <2>3. ApprovalOK'
    BY <1>2, IdleApproval DEF IInv, ApprovalOK, ApprovePut
  <2> QED BY <2>2, <2>3, <1>2, Unchanged DEF IInv, ApprovePut
<1>3. CASE ApproveMove
  <2>1. FilesOK' /\ BoundsOK'
    BY <1>1, <1>3, RenameTypes, RenameFailsTypes, BoundTypes DEF IInv, ApproveMove
  <2>2. ApprovalOK'
    BY <1>3, IdleApproval DEF ApproveMove
  <2> QED BY <2>1, <2>2, <1>3, Unchanged DEF IInv, ApproveMove
<1> QED BY <1>2, <1>3 DEF Approve

\* What a slot that is at work holds.
LEMMA AtWork ==
  ASSUME QueueOK, NEW s \in Slots, builds[s].pc # "free"
  PROVE  /\ builds[s] \in UnsignedExecution
         /\ builds[s].entry \in UnsignedPending
         /\ builds[s].mem \in Unsigned
         /\ builds[s].entry.job \in Jobs
BY DEF QueueOK, FreeSlot, UnsignedExecution, UnsignedPending

LEMMA StepDecide == ASSUME IInv, NEW s \in Slots, Decide(s) PROVE IInv'
<1> DEFINE b == builds[s]
           j == b.entry.job
           folded == [disk[j] EXCEPT !.signed = {}, !.edits = @ \cup b.entry.decisions]
<1>1. b \in UnsignedExecution /\ b.entry \in UnsignedPending /\ j \in Jobs
  BY AtWork DEF IInv, Decide
<1>2. QueueOK'
  <2>1. CASE disk[j] # Nothing /\ Goto(s, Save(b, folded, "start"))
    <3>1. folded \in Unsigned
      <4>1. disk[j] \in Record
        BY <1>1, <2>1, OnDisk, Kinds DEF IInv
      <4> QED BY <1>1, <4>1 DEF Unsigned, Record, UnsignedPending
    <3>2. Goto(s, Save(b, folded, "start"))
      BY <2>1
    <3> HIDE DEF folded, b
    <3> QED BY <1>1, <3>1, <3>2, SaveTypes, GotoTypes DEF IInv
  <2>2. CASE Goto(s, Throw(b))
    BY <2>2, <1>1, ThrowTypes, GotoTypes DEF IInv
  <2> QED BY <2>1, <2>2 DEF Decide
<1>3. HistoryOK'
  BY AcceptedEdits DEF IInv, HistoryOK, Decide
<1>4. BoundsOK'
  BY BoundTypes DEF IInv, Decide
<1> QED BY <1>2, <1>3, <1>4, Unchanged DEF IInv, Decide, requests

\* Where a save that failed leads, for any copy the execution was saving.
LEMMA SaveFailedTypes ==
  ASSUME IInv, NEW s \in Slots, NEW b \in UnsignedExecution, SaveFailed(s, b)
  PROVE  QueueOK' /\ threw' \subseteq Edits /\ dropped' \subseteq Jobs
<1>1. b.mem \in Unsigned /\ b.entry.job \in Jobs
  BY DEF UnsignedExecution, UnsignedPending
<1>2. Save(b, failJob(b.mem), "fail") \in UnsignedExecution
  BY <1>1, Failed, SaveTypes
<1>3. threw' \subseteq Edits /\ dropped' \subseteq Jobs
  BY <1>1, AcceptedEdits DEF IInv, HistoryOK, SaveFailed
<1>4. QueueOK'
  BY <1>2, ThrowTypes, GotoTypes, FinishTypes DEF IInv, SaveFailed
<1> QED BY <1>3, <1>4

LEMMA StepWork == ASSUME IInv, NEW s \in Slots, Work(s) PROVE IInv'
<1> DEFINE b == builds[s]
           v1 == b.entry.job \in EngineOne
           saved(stage) == [b.mem EXCEPT !.stage = stage, !.old = FALSE, !.ms = v1,
                              !.spec = @ \/ (stage = "building" /\ ~v1)]
           then(stage) == IF stage = "building" THEN "work" ELSE "end"
           next(stage) == [b EXCEPT !.mem = saved(stage), !.pc = "move", !.then = then(stage)]
<1>1. b \in UnsignedExecution /\ b.mem \in Unsigned /\ b.entry.job \in Jobs
  BY AtWork DEF IInv, Work
<1>2. PICK stage \in Outcomes(b.mem) :
        \/ /\ WriteScratch(b.entry.job, saved(stage)) /\ Goto(s, next(stage))
           /\ UNCHANGED <<threw, dropped>>
        \/ WriteFails /\ SaveFailed(s, next(stage))
  BY DEF Work
<1>3. stage \in Stages
  BY DEF Outcomes, Stages
<1>4. v1 \in BOOLEAN /\ (b.mem.spec \/ (stage = "building" /\ ~v1)) \in BOOLEAN
  OBVIOUS
<1>5. saved(stage) \in Unsigned
  <2> HIDE DEF b, v1
  <2> QED BY <1>1, <1>3, <1>4 DEF Unsigned, Record
<1>6. next(stage) \in UnsignedExecution
  <2> HIDE DEF b, saved
  <2> QED BY <1>1, <1>5 DEF UnsignedExecution
<1>7. FilesOK' /\ BoundsOK'
  <2> HIDE DEF saved, next
  <2> QED BY <1>1, <1>2, <1>5, Kinds, ScratchTypes, BoundTypes, Unchanged DEF IInv, WriteFails
<1>8. QueueOK' /\ threw' \subseteq Edits /\ dropped' \subseteq Jobs
  <2> HIDE DEF saved, next
  <2> QED BY <1>2, <1>6, GotoTypes, SaveFailedTypes DEF IInv, HistoryOK
<1>9. HistoryOK'
  BY <1>8 DEF IInv, HistoryOK, Work
<1> QED BY <1>7, <1>8, <1>9, Unchanged DEF IInv, Work, requests

LEMMA StepDefect == ASSUME IInv, NEW s \in Slots, Defect(s) PROVE IInv'
<1>1. builds[s] \in UnsignedExecution /\ builds[s].entry.job \in Jobs
  BY AtWork DEF IInv, Defect
<1>2. QueueOK'
  BY <1>1, ThrowTypes, GotoTypes DEF IInv, Defect
<1>3. HistoryOK'
  BY AcceptedEdits DEF IInv, HistoryOK, Defect
<1> QED BY <1>2, <1>3, Unchanged DEF IInv, Defect, requests

LEMMA StepBuildPut == ASSUME IInv, NEW s \in Slots, BuildPut(s) PROVE IInv'
<1>1. /\ builds[s] \in UnsignedExecution /\ builds[s].mem \in Unsigned
      /\ builds[s].entry.job \in Jobs
  BY AtWork DEF IInv, BuildPut
<1>2. FilesOK' /\ BoundsOK'
  BY <1>1, Kinds, ScratchTypes, BoundTypes, Unchanged DEF IInv, BuildPut, WriteFails
<1>3. [builds[s] EXCEPT !.pc = "move"] \in UnsignedExecution
  BY <1>1 DEF UnsignedExecution
<1>4. QueueOK' /\ threw' \subseteq Edits /\ dropped' \subseteq Jobs
  BY <1>1, <1>3, GotoTypes, SaveFailedTypes DEF IInv, HistoryOK, BuildPut
<1>5. HistoryOK'
  BY <1>4 DEF IInv, HistoryOK, BuildPut
<1> QED BY <1>2, <1>4, <1>5, Unchanged DEF IInv, BuildPut, requests

LEMMA StepBuildMove == ASSUME IInv, NEW s \in Slots, BuildMove(s) PROVE IInv'
<1> DEFINE b == builds[s]
           j == b.entry.job
<1>1. b \in UnsignedExecution /\ b.mem \in Unsigned /\ j \in Jobs
  BY AtWork DEF IInv, BuildMove
<1>2. FilesOK' /\ BoundsOK'
  BY <1>1, RenameTypes, RenameFailsTypes, BoundTypes DEF IInv, BuildMove
<1>3. QueueOK' /\ threw' \subseteq Edits /\ dropped' \subseteq Jobs
  <2>1. CASE Finish(s) /\ UNCHANGED <<threw, dropped>>
    BY <2>1, FinishTypes DEF IInv, HistoryOK
  <2>2. CASE Goto(s, Save(b, restartJob(b.mem), "work")) /\ UNCHANGED <<threw, dropped>>
    <3>1. restartJob(b.mem) \in Unsigned
      BY <1>1, Restarted, Kinds
    <3> QED BY <1>1, <2>2, <3>1, SaveTypes, GotoTypes DEF IInv, HistoryOK
  <2>3. CASE Goto(s, [b EXCEPT !.pc = "work"]) /\ UNCHANGED <<threw, dropped>>
    <3>1. [b EXCEPT !.pc = "work"] \in UnsignedExecution
      BY <1>1 DEF UnsignedExecution
    <3> QED BY <2>3, <3>1, GotoTypes DEF IInv, HistoryOK
  <2>4. CASE SaveFailed(s, b)
    BY <1>1, <2>4, SaveFailedTypes
  <2> QED BY <2>1, <2>2, <2>3, <2>4 DEF BuildMove
<1>4. HistoryOK'
  BY <1>3 DEF IInv, HistoryOK, BuildMove
<1> QED BY <1>2, <1>3, <1>4, Unchanged DEF IInv, BuildMove, requests

LEMMA StepCrash == IInv /\ Crash => IInv'
<1> SUFFICES ASSUME IInv, Crash PROVE IInv'
  OBVIOUS
<1>1. FilesOK'
  <2>1. PICK long \in BOOLEAN :
          disk' = [j \in Jobs |-> IF Unfinished(disk[j]) /\ long
                                  THEN [disk[j] EXCEPT !.old = TRUE] ELSE disk[j]]
    BY DEF Crash
  <2>2. ASSUME NEW j \in Jobs, disk[j] # Nothing
        PROVE  [disk[j] EXCEPT !.old = TRUE] \in Sound
    BY <2>2, OnDisk DEF IInv, Sound, Record
  <2> QED BY <2>1, <2>2 DEF IInv, FilesOK, Crash, Unfinished
<1>2. QueueOK'
  BY DEF Crash, QueueOK
<1>3. 1 \in Jobs /\ 0 \in 0..NJobs
  BY QueueAssumption DEF Jobs
<1>4. RecoveryOK' /\ ApprovalOK'
  BY <1>3 DEF Crash, RecoveryOK, ApprovalOK, IdleRecovery, IdleRequest
<1>5. EditsOK'
  BY <1>3 DEF IInv, EditsOK, Crash, OverRequest, IdleRequest
<1>6. HistoryOK' /\ BoundsOK'
  BY QueueAssumption DEF IInv, HistoryOK, BoundsOK, Crash
<1> QED BY <1>1, <1>2, <1>4, <1>5, <1>6 DEF IInv

LEMMA NextIInv == IInv /\ [Next]_vars => IInv'
<1> SUFFICES ASSUME IInv, [Next]_vars PROVE IInv'
  OBVIOUS
<1>1. CASE UNCHANGED vars
  BY <1>1, Unchanged DEF IInv, vars, files, queue, bounds, history
<1>2. ASSUME NEW s \in Slots, Build(s) PROVE IInv'
  BY <1>2, StepDecide, StepWork, StepDefect, StepBuildPut, StepBuildMove DEF Build
<1>3. CASE Recover
  BY <1>3, StepRecoverList, StepRecoverRead, StepRecoverFilter, StepRecoverPut,
     StepRecoverMove DEF Recover
<1>4. ASSUME NEW e \in Edits, Edit(e) PROVE IInv'
  BY <1>4, StepEditPut, StepEditMove DEF Edit
<1> QED BY <1>1, <1>2, <1>3, <1>4, StepStartBuild, StepSubmit, StepSubmitFails,
           StepApprove, StepCrash, StepAnswer, StepApproveRead, StepEditRead DEF Next

\* The invariant covers the types and the approvals.
LEMMA IInvIsEnough == IInv => TypeOK /\ ApprovalBinds
<1> SUFFICES ASSUME IInv PROVE TypeOK /\ ApprovalBinds
  OBVIOUS
<1>1. UnsignedPending \subseteq Pending /\ UnsignedExecution \subseteq Execution
  BY Kinds DEF UnsignedPending, UnsignedExecution, Pending, Execution
<1>2. waiting \in Seq(Pending)
  BY <1>1 DEF IInv, QueueOK
<1>3. edits \in [Edits -> Request] /\ approval \in Request
  BY Kinds DEF IInv, EditsOK, ApprovalOK, Request
<1>4. disk \in [Jobs -> Record \cup {Nothing}] /\ scratch \in [Jobs -> Record \cup {Nothing}]
  BY Kinds DEF IInv, FilesOK
<1>5. builds \in [Slots -> Execution \cup {FreeSlot}]
  BY <1>1 DEF IInv, QueueOK
<1>6. recovery \in [pc: {"idle", "list", "read", "put", "move"}, names: SUBSET Jobs,
                    todo: SUBSET Jobs, read: [Jobs -> Record \cup {Nothing}]]
  BY Kinds DEF IInv, RecoveryOK
<1>7. TypeOK
  BY <1>2, <1>3, <1>4, <1>5, <1>6 DEF TypeOK, IInv, QueueOK, RecoveryOK, BoundsOK,
     HistoryOK
<1>8. ApprovalBinds
  BY OnDisk DEF IInv, ApprovalBinds, Sound
<1> QED BY <1>7, <1>8

\* Every file, queue entry, execution and request holds a record of its kind.
THEOREM TypeCorrect == Spec => []TypeOK
BY InitIInv, NextIInv, IInvIsEnough, PTL DEF Spec

\* Whatever interleaving of edits, answers, approvals, recoveries, shared
\* scratch files and restarts, a job on disk that carries an approval is a
\* finished build with exactly the specification the approval was signed for.
THEOREM ApprovalsBind == Spec => []ApprovalBinds
BY InitIInv, NextIInv, IInvIsEnough, PTL DEF Spec

-----------------------------------------------------------------------------
(* pump.                                                                    *)

Frees(b, s) == {t \in 1..s : b[t].pc = "free"}
Rank(b, s) == Cardinality(Frees(b, s))

\* The free slots are numbered in order, without gaps.
LEMMA Ranks ==
  ASSUME NEW b
  PROVE  /\ Rank(b, MaxBuilds) \in Nat
         /\ \A s \in Slots : b[s].pc = "free" => Rank(b, s) \in 1..Rank(b, MaxBuilds)
         /\ \A s, t \in Slots :
              b[s].pc = "free" /\ b[t].pc = "free" /\ Rank(b, s) = Rank(b, t) => s = t
         /\ \A i \in 1..Rank(b, MaxBuilds) : \E s \in Slots : b[s].pc = "free" /\ Rank(b, s) = i
<1> DEFINE free == Frees(b, MaxBuilds)
           rank == [s \in free |-> Rank(b, s)]
<1>1. \A s \in Nat : IsFiniteSet(Frees(b, s)) /\ Rank(b, s) \in Nat
  <2> TAKE s \in Nat
  <2>1. IsFiniteSet(1..s)
    BY FS_Interval
  <2>2. Frees(b, s) \subseteq 1..s
    BY DEF Frees
  <2> QED BY <2>1, <2>2, FS_Subset, FS_CardinalityType DEF Rank
<1>2. MaxBuilds \in Nat /\ \A s \in Slots : s \in Nat /\ s \in 1..s /\ s <= MaxBuilds
  BY QueueAssumption DEF Slots
<1>3. ASSUME NEW s \in Slots, b[s].pc = "free" PROVE Rank(b, s) \in 1..Rank(b, MaxBuilds)
  <2>1. s \in Frees(b, s) /\ Frees(b, s) \subseteq Frees(b, MaxBuilds)
    BY <1>2, <1>3 DEF Frees
  <2>2. Rank(b, s) # 0
    BY <1>1, <1>2, <2>1, FS_EmptySet DEF Rank
  <2>3. Rank(b, s) <= Rank(b, MaxBuilds)
    BY <1>1, <1>2, <2>1, FS_Subset DEF Rank
  <2> QED BY <1>1, <1>2, <2>2, <2>3
<1>4. ASSUME NEW s \in Slots, NEW t \in Slots, b[t].pc = "free", Rank(b, s) = Rank(b, t)
      PROVE  ~(s < t)
  <2> SUFFICES ASSUME s < t PROVE FALSE
    OBVIOUS
  <2>1. Frees(b, s) \subseteq Frees(b, t) /\ t \in Frees(b, t) /\ t \notin Frees(b, s)
    BY <1>2, <1>4 DEF Frees
  <2>2. Frees(b, s) = Frees(b, t)
    BY <1>1, <1>2, <1>4, <2>1, FS_Subset DEF Rank
  <2> QED BY <2>1, <2>2
<1>5. \A s, t \in Slots :
        b[s].pc = "free" /\ b[t].pc = "free" /\ Rank(b, s) = Rank(b, t) => s = t
  BY <1>2, <1>4
<1>6. free = {s \in Slots : b[s].pc = "free"}
  BY DEF Frees, Slots
<1>7. rank \in Injection(free, 1..Rank(b, MaxBuilds))
  <2> HIDE DEF free
  <2> QED BY <1>3, <1>5, <1>6 DEF Injection, IsInjective
<1>8. rank \in Surjection(free, 1..Rank(b, MaxBuilds))
  <2>1. Rank(b, MaxBuilds) \in Nat
    BY <1>1, <1>2
  <2>2. IsFiniteSet(1..Rank(b, MaxBuilds))
        /\ Cardinality(1..Rank(b, MaxBuilds)) = Rank(b, MaxBuilds)
    BY <2>1, FS_Interval
  <2>3. Cardinality(free) = Rank(b, MaxBuilds)
    BY DEF Rank
  <2> HIDE DEF rank, free
  <2> QED BY <1>7, <2>2, <2>3, FS_Injection
<1>9. ASSUME NEW i \in 1..Rank(b, MaxBuilds)
      PROVE  \E s \in Slots : b[s].pc = "free" /\ Rank(b, s) = i
  <2>1. PICK s \in free : rank[s] = i
    <3> HIDE DEF rank, free
    <3> QED BY <1>8 DEF Surjection
  <2> QED BY <1>6, <2>1
<1> QED BY <1>1, <1>2, <1>3, <1>5, <1>9

\* pump seats the first n entries of the line, each in a free slot of its own.
LEMMA PumpSeats ==
  ASSUME NEW w \in Seq(UnsignedPending), NEW r, NEW b, PumpFrom(w, r, b)
  PROVE  \E n \in 0..Len(w) : \E seat \in [1..n -> Slots] :
           /\ \A i \in 1..n : b[seat[i]].pc = "free" /\ builds'[seat[i]] = execute(w[i])
           /\ \A i, k \in 1..n : seat[i] = seat[k] => i = k
           /\ \A s \in Slots : (\A i \in 1..n : seat[i] # s) => builds'[s] = b[s]
           /\ waiting' = SubSeq(w, n + 1, Len(w))
           /\ running' = r \cup {w[i].job : i \in 1..n}
<1> DEFINE jobs(n) == r \cup {w[i].job : i \in 1..n}
           takes == {n \in 1..Len(w) : \A m \in 0..(n - 1) : Cardinality(jobs(m)) < Capacity}
           n == Cardinality(takes)
           seat == [i \in 1..n |-> CHOOSE s \in Slots : b[s].pc = "free" /\ Rank(b, s) = i]
<1>1. /\ n <= Rank(b, MaxBuilds)
      /\ waiting' = SubSeq(w, n + 1, Len(w))
      /\ running' = jobs(n)
      /\ builds' = [s \in Slots |->
           IF b[s].pc = "free" /\ Rank(b, s) <= n THEN execute(w[Rank(b, s)]) ELSE b[s]]
  BY DEF PumpFrom, Rank, Frees
<1>2. n \in 0..Len(w)
  <2>1. Len(w) \in Nat /\ 1 \in Int
    OBVIOUS
  <2>2. IsFiniteSet(1..Len(w)) /\ Cardinality(1..Len(w)) = Len(w)
    BY <2>1, FS_Interval
  <2>3. takes \subseteq 1..Len(w)
    OBVIOUS
  <2> HIDE DEF takes
  <2>4. n \in Nat /\ n <= Len(w)
    BY <2>2, <2>3, FS_Subset, FS_CardinalityType
  <2> QED BY <2>1, <2>4
<1> HIDE DEF takes, n
<1>3. \A i \in 1..n : /\ seat[i] \in Slots /\ b[seat[i]].pc = "free"
                      /\ Rank(b, seat[i]) = i
  <2> TAKE i \in 1..n
  <2>1. \E s \in Slots : b[s].pc = "free" /\ Rank(b, s) = i
    BY <1>1, <1>2, Ranks
  <2> QED BY <2>1
<1>4. seat \in [1..n -> Slots]
  BY <1>3
<1> HIDE DEF seat
<1>5. \A i \in 1..n : builds'[seat[i]] = execute(w[i])
  BY <1>1, <1>2, <1>3
<1>6. ASSUME NEW s \in Slots, \A i \in 1..n : seat[i] # s PROVE builds'[s] = b[s]
  <2> SUFFICES ASSUME b[s].pc = "free", Rank(b, s) <= n PROVE FALSE
    BY <1>1
  <2>1. Rank(b, s) \in 1..n
    BY <1>2, Ranks
  <2>2. seat[Rank(b, s)] = s
    BY <1>3, <2>1, Ranks
  <2> QED BY <1>6, <2>1, <2>2
<1>7. \A i, k \in 1..n : seat[i] = seat[k] => i = k
  BY <1>3
<1> WITNESS n \in 0..Len(w)
<1> WITNESS seat \in [1..n -> Slots]
<1> QED BY <1>1, <1>3, <1>5, <1>6, <1>7

-----------------------------------------------------------------------------
(* One job in the queue.  A job no two requests crossed on is in line once, *)
(* or executing once, or neither; running says which.                       *)

Places(w, j) == {i \in DOMAIN w : w[i].job = j}
Seats(b, j) == {s \in Slots : b[s].pc # "free" /\ b[s].entry.job = j}

OneSeat(w, r, b, j) ==
  /\ \A i, k \in Places(w, j) : i = k
  /\ \A s, t \in Seats(b, j) : s = t
  /\ Places(w, j) = {} \/ Seats(b, j) = {}
  /\ j \in r <=> Seats(b, j) # {}

\* What the queue w, r, b knows of job j is carried over to the next one: each
\* entry stays in line or is executed, and each execution stays in its slot.
Carried(w, b, j) ==
  /\ \A k \in Places(waiting', j) : \E i \in Places(w, j) : waiting'[k] = w[i]
  /\ \A s \in Seats(builds', j) :
       \/ s \in Seats(b, j) /\ builds'[s] = b[s]
       \/ \E i \in Places(w, j) : builds'[s] = execute(w[i])
  /\ \A i \in Places(w, j) :
       \/ \E k \in Places(waiting', j) : waiting'[k] = w[i]
       \/ \E s \in Seats(builds', j) : builds'[s] = execute(w[i])
  /\ \A s \in Seats(b, j) : s \in Seats(builds', j) /\ builds'[s] = b[s]

LEMMA ExecuteEntry ==
  \A item : execute(item).entry = item /\ execute(item).pc # "free"
BY DEF execute

\* pump carries every job over, and keeps a job to one place.
LEMMA PumpCarries ==
  ASSUME NEW w \in Seq(UnsignedPending), NEW r, NEW b, PumpFrom(w, r, b),
         NEW j \in Jobs, OneSeat(w, r, b, j)
  PROVE  OneSeat(waiting, running, builds, j)' /\ Carried(w, b, j)
<1>0. PICK n \in 0..Len(w) : \E seat \in [1..n -> Slots] :
           /\ \A i \in 1..n : b[seat[i]].pc = "free" /\ builds'[seat[i]] = execute(w[i])
           /\ \A i, k \in 1..n : seat[i] = seat[k] => i = k
           /\ \A s \in Slots : (\A i \in 1..n : seat[i] # s) => builds'[s] = b[s]
           /\ waiting' = SubSeq(w, n + 1, Len(w))
           /\ running' = r \cup {w[i].job : i \in 1..n}
  BY PumpSeats
<1>1. PICK seat \in [1..n -> Slots] :
           /\ \A i \in 1..n : b[seat[i]].pc = "free" /\ builds'[seat[i]] = execute(w[i])
           /\ \A i, k \in 1..n : seat[i] = seat[k] => i = k
           /\ \A s \in Slots : (\A i \in 1..n : seat[i] # s) => builds'[s] = b[s]
           /\ waiting' = SubSeq(w, n + 1, Len(w))
           /\ running' = r \cup {w[i].job : i \in 1..n}
  BY <1>0
<1>2. DOMAIN w = 1..Len(w) /\ Len(w) \in Nat /\ n \in Nat /\ n <= Len(w)
  OBVIOUS
<1>3. /\ DOMAIN waiting' = 1..(Len(w) - n)
      /\ \A k \in 1..(Len(w) - n) : waiting'[k] = w[k + n] /\ k + n \in 1..Len(w) /\ k + n > n
  BY <1>1, <1>2
<1>4. \A i \in 1..Len(w) : i > n => i - n \in DOMAIN waiting' /\ waiting'[i - n] = w[i]
  BY <1>2, <1>3
<1>5. \A k \in Places(waiting', j) : /\ k + n \in Places(w, j) /\ waiting'[k] = w[k + n]
                                     /\ k \in Nat /\ k + n > n
  BY <1>2, <1>3 DEF Places
<1>6. \A i \in Places(w, j) :
        /\ i \in 1..n \/ (i - n \in Places(waiting', j) /\ waiting'[i - n] = w[i])
        /\ i \in 1..n => seat[i] \in Seats(builds', j) /\ builds'[seat[i]] = execute(w[i])
  BY <1>1, <1>2, <1>4, ExecuteEntry DEF Places, Seats
<1>7. \A s \in Seats(b, j) : s \in Seats(builds', j) /\ builds'[s] = b[s]
  BY <1>1 DEF Seats
<1>8. \A s \in Seats(builds', j) :
       \/ s \in Seats(b, j) /\ builds'[s] = b[s]
       \/ \E i \in 1..n : s = seat[i] /\ i \in Places(w, j) /\ builds'[s] = execute(w[i])
  <2> SUFFICES ASSUME NEW s \in Slots, builds'[s].pc # "free", builds'[s].entry.job = j,
                      NEW i \in 1..n, s = seat[i]
               PROVE  i \in Places(w, j) /\ builds'[s] = execute(w[i])
    BY <1>1 DEF Seats
  <2> QED BY <1>1, <1>2, ExecuteEntry DEF Places
<1>9. Carried(w, b, j)
  BY <1>5, <1>6, <1>7, <1>8 DEF Carried
<1>10. \A k, m \in Places(waiting', j) : k = m
  <2> SUFFICES ASSUME NEW k \in Places(waiting', j), NEW m \in Places(waiting', j)
               PROVE  k = m
    OBVIOUS
  <2>1. k + n = m + n /\ k \in Nat /\ m \in Nat
    BY <1>5 DEF OneSeat
  <2> QED BY <1>2, <2>1
<1>11. \A s, t \in Seats(builds', j) : s = t
  BY <1>8 DEF OneSeat
<1>12. Places(waiting', j) = {} \/ Seats(builds', j) = {}
  <2> SUFFICES ASSUME NEW k \in Places(waiting', j), NEW s \in Seats(builds', j)
               PROVE  FALSE
    OBVIOUS
  <2>1. k + n \in Places(w, j) /\ k + n > n
    BY <1>5
  <2>2. Seats(b, j) = {}
    BY <2>1 DEF OneSeat
  <2>3. PICK i \in 1..n : i \in Places(w, j)
    BY <1>8, <2>2
  <2>4. i = k + n
    BY <2>1, <2>3 DEF OneSeat
  <2> QED BY <2>1, <2>4, <1>2
<1>13. j \in running' <=> Seats(builds', j) # {}
  <2>1. j \in running' <=> j \in r \/ \E i \in 1..n : i \in Places(w, j)
    BY <1>1, <1>2 DEF Places
  <2> QED BY <2>1, <1>6, <1>7, <1>8 DEF OneSeat
<1>14. OneSeat(waiting', running', builds', j)
  BY <1>10, <1>11, <1>12, <1>13 DEF OneSeat
<1> QED BY <1>9, <1>14 DEF OneSeat, Places, Seats

InLine(j) == Places(waiting, j)
AtWorkOn(j) == Seats(builds, j)
Working(j) == InLine(j) # {} \/ AtWorkOn(j) # {}
EditHolds(e, j) == edits[e].pc \in {"put", "move"} /\ edits[e].job = j

\* One request at most holds a job, and none while it is in the queue.
OneHand(j) ==
  /\ \A e, f \in Edits : EditHolds(e, j) /\ EditHolds(f, j) => e = f
  /\ HeldByEdit(j) => ~HeldByApproval(j) /\ j \notin recovery.todo
  /\ HeldByApproval(j) => j \notin recovery.todo
  /\ Held(j) => ~Working(j)

\* A job anyone has in hand is on disk, and unfinished while it is in the queue.
OnFile(j) ==
  /\ Held(j) \/ Working(j) => disk[j] # Nothing
  /\ Working(j) => disk[j].stage # "deployment_ready"
  /\ disk[j] # Nothing => /\ disk[j].edits \subseteq Accepted(j)
                          /\ j \in EngineOne => ~disk[j].spec

\* An entry of the line has every edit that is on disk, but for those an
\* execution threw away.
LineFits(j, item) ==
  /\ item.kind = "build" \/ j \in EngineOne => item.decisions = {}
  /\ j \in EngineOne => ~item.rec.spec
  /\ item.rec.edits \cup item.decisions \subseteq Accepted(j)
  /\ disk[j].edits \ threw \subseteq item.rec.edits

\* An execution saves a finished record last, and never saves less than what is
\* on disk with its own decisions.
BuildHolds(j, b) ==
  /\ b.pc \in {"work", "decide"} => b.then = "work"
  /\ b.then \in {"start", "work"} => b.mem.stage # "deployment_ready"
  /\ b.then \in {"end", "fail", "gave_up"} => ~Unfinished(b.mem)
  /\ j \in EngineOne => ~b.mem.spec /\ ~b.entry.rec.spec
  /\ b.mem.edits \cup b.entry.rec.edits \cup b.entry.decisions \subseteq Accepted(j)
  /\ b.then = "gave_up" => Accepted(j) \subseteq threw
  /\ b.pc # "decide" => (disk[j].edits \cup b.entry.decisions) \ threw \subseteq b.mem.edits

\* The scratch file that is about to be renamed is the holder's own.
BuildFits(j, b) == BuildHolds(j, b) /\ (b.pc = "move" => scratch[j] = b.mem)
EditFits(j) == \A e \in Edits : EditHolds(e, j) =>
  /\ j \notin EngineOne
  /\ edits[e].pc = "move" => scratch[j] = edits[e].rec
  /\ edits[e].rec.stage # "deployment_ready"
  /\ edits[e].rec.edits \subseteq Accepted(j)
  /\ disk[j].edits \ threw \subseteq edits[e].rec.edits
ApprovalFits(j) == HeldByApproval(j) =>
  /\ approval.pc = "move" => scratch[j] = approval.rec
  /\ approval.pc \in {"put", "move"} /\ approval.rec.stage = "deployment_ready"
  /\ j \in EngineOne => ~approval.rec.spec
  /\ approval.rec.edits \subseteq Accepted(j)
  /\ disk[j].edits \ threw \subseteq approval.rec.edits
RecoveryFits(j) == j \in recovery.todo =>
  /\ recovery.pc = "move" /\ Newest(j) => scratch[j] = restartJob(recovery.read[j])
  /\ recovery.read[j] = disk[j] /\ Unfinished(disk[j])

HandsFit(j) == OneHand(j) /\ EditFits(j) /\ ApprovalFits(j) /\ RecoveryFits(j)
QueueFits(j) ==
  /\ OneSeat(waiting, running, builds, j)
  /\ \A i \in InLine(j) : LineFits(j, waiting[i])
  /\ \A s \in AtWorkOn(j) : BuildFits(j, builds[s])

\* Somebody will move an unfinished job that was not let go.
Watched(j) ==
  j \notin dropped /\ Unfinished(disk[j])
    => Working(j) \/ ScanHas(j) \/ ~TouchedRecently(disk[j])

\* An edit that was answered ok is on disk, or will be folded in.
Kept(j) ==
  \A e \in Accepted(j) \ threw :
    /\ disk[j] # Nothing
    /\ \/ e \in disk[j].edits
       \/ \E i \in InLine(j) : e \in waiting[i].decisions
       \/ \E s \in AtWorkOn(j) : e \in builds[s].entry.decisions

JobFits(j) == HandsFit(j) /\ OnFile(j) /\ QueueFits(j) /\ Watched(j) /\ Kept(j)

JobsFit == \A j \in Jobs \ crossed : JobFits(j)

-----------------------------------------------------------------------------
\* What a step on another job leaves alone.
SameFiles(j) ==
  /\ disk'[j] = disk[j] /\ scratch'[j] = scratch[j]
  /\ threw \subseteq threw' /\ (j \in dropped => j \in dropped')
SameHands(j) ==
  /\ \A e \in Edits : EditHolds(e, j)' => edits'[e] = edits[e]
  /\ Accepted(j)' = Accepted(j)
  /\ HeldByApproval(j)' => approval' = approval
  /\ j \in recovery'.todo <=> j \in recovery.todo
  /\ j \in recovery.todo =>
       /\ recovery'.read[j] = recovery.read[j]
       /\ recovery'.pc = "move" /\ Newest(j)' => recovery.pc = "move" /\ Newest(j)
  /\ ScanHas(j) /\ Unfinished(disk[j]) =>
       ScanHas(j)' \/ Working(j) \/ ~TouchedRecently(disk[j]) \/ j \in dropped'
SameQueue(j) == OneSeat(waiting, running, builds, j)' /\ Carried(waiting, builds, j)

\* An entry that fits makes an execution that fits.
LEMMA ExecuteFits ==
  ASSUME NEW j \in Jobs, NEW item \in UnsignedPending, item.job = j, LineFits(j, item)
  PROVE  BuildFits(j, execute(item))
<1>1. item.rec \in Record /\ item.decisions \in SUBSET Edits
      /\ item.kind \in {"build", "answers", "edit"}
  BY Kinds DEF UnsignedPending
<1>2. CASE j \in EngineOne
  <2>1. item.decisions = {} /\ ~item.rec.spec
    BY <1>2 DEF LineFits
  <2> DEFINE m == [item.rec EXCEPT !.stage = "prompt_received"]
  <2>2. m.stage = "prompt_received" /\ m.spec = item.rec.spec /\ m.edits = item.rec.edits
    BY <1>1 DEF Record
  <2>3. execute(item) = [entry |-> item, mem |-> m, then |-> "work", pc |-> "work"]
    BY <1>2 DEF execute
  <2> HIDE DEF m
  <2> QED BY <1>1, <1>2, <2>1, <2>2, <2>3 DEF LineFits, BuildFits, BuildHolds
<1>3. CASE j \notin EngineOne
  <2> DEFINE m == restartJob(item.rec)
             p == IF item.kind = "build" THEN "put" ELSE "decide"
  <2>2. m.stage = "prompt_received" /\ m.edits = item.rec.edits
    BY <1>1 DEF Record, restartJob
  <2>3. execute(item) = [entry |-> item, mem |-> m, then |-> "work", pc |-> p]
    BY <1>3 DEF execute
  <2>4. p # "move" /\ p # "work" /\ (p # "decide" => item.decisions = {})
    BY DEF LineFits
  <2> HIDE DEF m, p
  <2> QED BY <1>1, <1>3, <2>2, <2>3, <2>4 DEF LineFits, BuildFits, BuildHolds
<1> QED BY <1>2, <1>3

LEMMA InLineTypes ==
  ASSUME QueueOK, NEW j \in Jobs, NEW i \in InLine(j)
  PROVE  waiting[i] \in UnsignedPending /\ waiting[i].job = j
BY DEF QueueOK, InLine, Places

\* A step on another job keeps a job's place in the queue.
LEMMA QueueStays ==
  ASSUME QueueOK, NEW j \in Jobs, QueueFits(j), SameFiles(j), SameQueue(j),
         Accepted(j)' = Accepted(j)
  PROVE  QueueFits(j)'
<1>1. ASSUME NEW k \in InLine(j)' PROVE LineFits(j, waiting[k])'
  <2>1. PICK i \in InLine(j) : waiting'[k] = waiting[i]
    BY <1>1 DEF SameQueue, Carried, InLine
  <2>2. LineFits(j, waiting[i])
    BY DEF QueueFits
  <2> QED BY <2>1, <2>2 DEF LineFits, SameFiles
<1>2. ASSUME NEW s \in AtWorkOn(j)' PROVE BuildFits(j, builds[s])'
  <2>1. CASE s \in AtWorkOn(j) /\ builds'[s] = builds[s]
    <3>1. BuildFits(j, builds[s])
      BY <2>1 DEF QueueFits
    <3> QED BY <2>1, <3>1 DEF BuildFits, BuildHolds, SameFiles
  <2>2. ASSUME NEW i \in InLine(j), builds'[s] = execute(waiting[i])
        PROVE  BuildFits(j, builds[s])'
    <3>1. BuildFits(j, execute(waiting[i]))
      BY InLineTypes, ExecuteFits DEF QueueFits
    <3> QED BY <2>2, <3>1 DEF BuildFits, BuildHolds, SameFiles
  <2> QED BY <1>2, <2>1, <2>2 DEF SameQueue, Carried, InLine, AtWorkOn
<1> QED BY <1>1, <1>2 DEF QueueFits, SameQueue

LEMMA WorkStays ==
  ASSUME NEW j \in Jobs, SameQueue(j)
  PROVE  Working(j)' <=> Working(j)
BY DEF SameQueue, Carried, Working, InLine, AtWorkOn

LEMMA HandsStay ==
  ASSUME NEW j \in Jobs, HandsFit(j), SameFiles(j), SameHands(j), SameQueue(j)
  PROVE  HandsFit(j)' /\ (Held(j)' => Held(j))
<1>1. \A e \in Edits : EditHolds(e, j)' => EditHolds(e, j) /\ edits'[e] = edits[e]
  BY DEF SameHands, EditHolds
<1>2. HeldByEdit(j)' => HeldByEdit(j)
  BY <1>1 DEF HeldByEdit, EditHolds
<1>3. HeldByApproval(j)' => HeldByApproval(j) /\ approval' = approval
  BY DEF SameHands, HeldByApproval
<1>4. Held(j)' => Held(j)
  BY <1>2, <1>3 DEF Held, SameHands
<1>5. OneHand(j)'
  BY <1>1, <1>2, <1>3, <1>4, WorkStays DEF HandsFit, OneHand, SameHands
<1>6. EditFits(j)'
  BY <1>1 DEF HandsFit, EditFits, SameFiles, SameHands
<1>7. ApprovalFits(j)'
  BY <1>3 DEF HandsFit, ApprovalFits, SameFiles, SameHands
<1>8. RecoveryFits(j)'
  BY DEF HandsFit, RecoveryFits, SameFiles, SameHands
<1> QED BY <1>4, <1>5, <1>6, <1>7, <1>8 DEF HandsFit

\* A step on another job leaves a job as it was.
LEMMA Elsewhere ==
  ASSUME QueueOK, NEW j \in Jobs, JobFits(j), SameFiles(j), SameHands(j), SameQueue(j)
  PROVE  JobFits(j)'
<1>1. HandsFit(j)' /\ (Held(j)' => Held(j))
  BY HandsStay DEF JobFits
<1>2. QueueFits(j)'
  BY QueueStays DEF JobFits, SameHands
<1>3. OnFile(j)'
  BY <1>1, WorkStays DEF JobFits, OnFile, SameFiles, SameHands
<1>4. Watched(j)'
  BY WorkStays DEF JobFits, Watched, SameFiles, SameHands
<1>5. Kept(j)'
  <2> SUFFICES ASSUME NEW e \in Accepted(j)', e \notin threw'
               PROVE  /\ disk'[j] # Nothing
                      /\ \/ e \in disk'[j].edits
                         \/ \E i \in InLine(j)' : e \in waiting'[i].decisions
                         \/ \E s \in AtWorkOn(j)' : e \in builds'[s].entry.decisions
    BY DEF Kept
  <2>1. e \in Accepted(j) \ threw /\ disk[j] # Nothing /\ disk'[j] = disk[j]
    BY DEF SameHands, SameFiles, JobFits, Kept
  <2>2. CASE e \in disk[j].edits
    BY <2>1, <2>2
  <2>3. ASSUME NEW i \in InLine(j), e \in waiting[i].decisions
        PROVE  \/ \E k \in InLine(j)' : e \in waiting'[k].decisions
               \/ \E s \in AtWorkOn(j)' : e \in builds'[s].entry.decisions
    <3>1. \/ \E k \in InLine(j)' : waiting'[k] = waiting[i]
          \/ \E s \in AtWorkOn(j)' : builds'[s] = execute(waiting[i])
      BY DEF SameQueue, Carried, InLine, AtWorkOn
    <3> QED BY <2>3, <3>1, ExecuteEntry
  <2>4. ASSUME NEW s \in AtWorkOn(j), e \in builds[s].entry.decisions
        PROVE  \E t \in AtWorkOn(j)' : e \in builds'[t].entry.decisions
    BY <2>4 DEF SameQueue, Carried, AtWorkOn
  <2> QED BY <2>1, <2>2, <2>3, <2>4 DEF JobFits, Kept
<1> QED BY <1>1, <1>2, <1>3, <1>4, <1>5 DEF JobFits

\* What a job that was in nobody's hands looks like once item is in line for it.
Joined(j, item) ==
  /\ OneSeat(waiting, running, builds, j)'
  /\ \A i \in InLine(j)' : waiting'[i] = item
  /\ \A s \in AtWorkOn(j)' : builds'[s] = execute(item)
  /\ Working(j)'

\* What a job whose execution is over looks like.
Gone(j) == /\ OneSeat(waiting, running, builds, j)'
           /\ InLine(j)' = {} /\ AtWorkOn(j)' = {}

\* What a job whose execution in slot s goes on as b looks like.
GoesOn(j, s, b) ==
  /\ OneSeat(waiting, running, builds, j)'
  /\ InLine(j)' = {} /\ AtWorkOn(j)' = {s} /\ builds'[s] = b

LEMMA AppendPlaces ==
  ASSUME QueueOK, NEW item \in UnsignedPending
  PROVE  LET w == Append(waiting, item)  n == Len(waiting) + 1 IN
         /\ w \in Seq(UnsignedPending) /\ w[n] = item
         /\ \A j \in Jobs :
              /\ Places(w, j) = IF item.job = j THEN InLine(j) \cup {n} ELSE InLine(j)
              /\ \A i \in InLine(j) : w[i] = waiting[i]
<1> DEFINE w == Append(waiting, item)
           n == Len(waiting) + 1
<1>1. waiting \in Seq(UnsignedPending) /\ Len(waiting) \in Nat
  BY DEF QueueOK
<1>2. w \in Seq(UnsignedPending) /\ w[n] = item /\ DOMAIN w = 1..n
      /\ DOMAIN waiting = 1..Len(waiting) /\ \A i \in DOMAIN waiting : w[i] = waiting[i]
  BY <1>1
<1>3. DOMAIN w = DOMAIN waiting \cup {n}
  BY <1>1, <1>2
<1> HIDE DEF w, n
<1>4. ASSUME NEW j \in Jobs
      PROVE  Places(w, j) = IF item.job = j THEN InLine(j) \cup {n} ELSE InLine(j)
  BY <1>2, <1>3 DEF Places, InLine
<1>5. \A j \in Jobs : \A i \in InLine(j) : w[i] = waiting[i]
  BY <1>2 DEF InLine, Places
<1> QED BY <1>2, <1>4, <1>5 DEF w, n

LEMMA EnqueueElsewhere ==
  ASSUME QueueOK, NEW item \in UnsignedPending, Enqueue(item),
         NEW j \in Jobs, item.job # j, OneSeat(waiting, running, builds, j)
  PROVE  SameQueue(j)
<1> DEFINE w == Append(waiting, item)
<1>1. w \in Seq(UnsignedPending) /\ Places(w, j) = InLine(j)
      /\ \A i \in InLine(j) : w[i] = waiting[i]
  BY AppendPlaces
<1>2. PumpFrom(w, running, builds)
  BY DEF Enqueue
<1> HIDE DEF w
<1>3. OneSeat(w, running, builds, j)
  BY <1>1 DEF OneSeat, InLine
<1>4. OneSeat(waiting, running, builds, j)' /\ Carried(w, builds, j)
  BY <1>1, <1>2, <1>3, PumpCarries
<1> QED BY <1>1, <1>4 DEF SameQueue, Carried, InLine

LEMMA EnqueueJoins ==
  ASSUME QueueOK, NEW item \in UnsignedPending, Enqueue(item),
         NEW j \in Jobs, item.job = j, ~Working(j), j \notin running
  PROVE  Joined(j, item)
<1> DEFINE w == Append(waiting, item)
           n == Len(waiting) + 1
<1>1. w \in Seq(UnsignedPending) /\ Places(w, j) = {n} /\ w[n] = item
  BY AppendPlaces DEF Working
<1>2. PumpFrom(w, running, builds)
  BY DEF Enqueue
<1> HIDE DEF w, n
<1>3. OneSeat(w, running, builds, j) /\ Seats(builds, j) = {}
  BY <1>1 DEF OneSeat, Working, AtWorkOn
<1>4. OneSeat(waiting, running, builds, j)' /\ Carried(w, builds, j)
  BY <1>1, <1>2, <1>3, PumpCarries
<1> QED BY <1>1, <1>3, <1>4 DEF Joined, Carried, Working, InLine, AtWorkOn

LEMMA AppendElsewhere ==
  ASSUME QueueOK, NEW item \in UnsignedPending,
         waiting' = Append(waiting, item), UNCHANGED <<running, builds>>,
         NEW j \in Jobs, item.job # j, OneSeat(waiting, running, builds, j)
  PROVE  SameQueue(j)
<1> DEFINE w == Append(waiting, item)
<1>1. Places(w, j) = InLine(j) /\ \A i \in InLine(j) : w[i] = waiting[i]
  BY AppendPlaces
<1>2. waiting' = w
  OBVIOUS
<1> HIDE DEF w
<1> QED BY <1>1, <1>2 DEF SameQueue, Carried, OneSeat, InLine

LEMMA AppendJoins ==
  ASSUME QueueOK, NEW item \in UnsignedPending,
         waiting' = Append(waiting, item), UNCHANGED <<running, builds>>,
         NEW j \in Jobs, item.job = j, ~Working(j), j \notin running
  PROVE  Joined(j, item)
<1>1. Places(waiting', j) = {Len(waiting) + 1} /\ waiting'[Len(waiting) + 1] = item
  BY AppendPlaces DEF Working
<1> QED BY <1>1 DEF Joined, OneSeat, Working, InLine, AtWorkOn

LEMMA QueueUnchanged ==
  ASSUME UNCHANGED queue, NEW j \in Jobs, OneSeat(waiting, running, builds, j)
  PROVE  SameQueue(j)
BY DEF queue, SameQueue, Carried

LEMMA FinishMoves ==
  ASSUME QueueOK, NEW s \in Slots, builds[s].pc # "free", Finish(s),
         NEW j \in Jobs, OneSeat(waiting, running, builds, j)
  PROVE  IF builds[s].entry.job = j THEN Gone(j) ELSE SameQueue(j)
<1> DEFINE p == builds[s].entry.job
           b == [builds EXCEPT ![s] = FreeSlot]
           r == running \ {p}
<1>0. PumpFrom(waiting, r, b) /\ waiting \in Seq(UnsignedPending)
      /\ b[s].pc = "free" /\ \A t \in Slots \ {s} : b[t] = builds[t]
  BY DEF Finish, QueueOK, FreeSlot
<1>1. Seats(b, j) = Seats(builds, j) \ {s} /\ \A t \in Seats(b, j) : b[t] = builds[t]
  BY <1>0 DEF Seats
<1>2. s \in Seats(builds, j) <=> p = j
  BY DEF Seats
<1> HIDE DEF b
<1>3. OneSeat(waiting, r, b, j)
  BY <1>1, <1>2 DEF OneSeat
<1> HIDE DEF r
<1>4. OneSeat(waiting, running, builds, j)' /\ Carried(waiting, b, j)
  BY <1>0, <1>3, PumpCarries
<1>5. CASE p = j
  <2>1. Places(waiting, j) = {} /\ Seats(b, j) = {}
    BY <1>1, <1>2, <1>5 DEF OneSeat
  <2> QED BY <1>4, <1>5, <2>1 DEF Gone, Carried, InLine, AtWorkOn
<1>6. CASE p # j
  <2>1. Seats(b, j) = Seats(builds, j)
    BY <1>1, <1>2, <1>6
  <2> QED BY <1>1, <1>4, <1>6, <2>1 DEF SameQueue, Carried
<1> QED BY <1>5, <1>6

LEMMA GotoMoves ==
  ASSUME QueueOK, NEW s \in Slots, builds[s].pc # "free", NEW b, Goto(s, b),
         b.entry = builds[s].entry, b.pc # "free",
         NEW j \in Jobs, OneSeat(waiting, running, builds, j)
  PROVE  IF builds[s].entry.job = j THEN GoesOn(j, s, b) ELSE SameQueue(j)
<1>1. /\ waiting' = waiting /\ running' = running /\ builds'[s] = b
      /\ \A t \in Slots \ {s} : builds'[t] = builds[t]
  BY DEF Goto, QueueOK
<1>2. Seats(builds', j) = Seats(builds, j)
  BY <1>1 DEF Seats
<1>3. OneSeat(waiting, running, builds, j)'
  BY <1>1, <1>2 DEF OneSeat
<1>4. s \in Seats(builds, j) <=> builds[s].entry.job = j
  BY DEF Seats
<1>5. CASE builds[s].entry.job = j
  <2>1. Seats(builds, j) = {s} /\ Places(waiting, j) = {}
    BY <1>4, <1>5 DEF OneSeat
  <2> QED BY <1>1, <1>2, <1>3, <1>5, <2>1 DEF GoesOn, InLine, AtWorkOn
<1>6. CASE builds[s].entry.job # j
  <2>1. \A t \in Seats(builds, j) : builds'[t] = builds[t]
    BY <1>1, <1>4, <1>6 DEF Seats
  <2>2. waiting' = waiting
    BY <1>1
  <2>3. Carried(waiting, builds, j)
    BY <1>2, <2>1, <2>2 DEF Carried
  <2> QED BY <1>3, <1>6, <2>3 DEF SameQueue
<1> QED BY <1>5, <1>6

-----------------------------------------------------------------------------
LEMMA EveryExecuteFits ==
  \A k \in Jobs, i \in UnsignedPending :
    i.job = k /\ LineFits(k, i) => BuildFits(k, execute(i))
BY ExecuteFits

\* A job that joins the line.
LEMMA JoinedFits ==
  ASSUME NEW j \in Jobs, NEW item \in UnsignedPending, item.job = j, Joined(j, item),
         ~Held(j)', LineFits(j, item)', OnFile(j)',
         \A e \in Accepted(j)' : e \in threw' \/ e \in disk'[j].edits \/ e \in item.decisions
  PROVE  JobFits(j)'
<1>1. BuildFits(j, execute(item))'
  <2>1. (\A k \in Jobs, i \in UnsignedPending :
           i.job = k /\ LineFits(k, i) => BuildFits(k, execute(i)))'
    BY EveryExecuteFits, PTL
  <2> QED BY <2>1
<1>2. QueueFits(j)'
  <2>1. ASSUME NEW s \in AtWorkOn(j)' PROVE BuildFits(j, builds[s])'
    <3>1. builds'[s] = execute(item)
      BY <2>1 DEF Joined
    <3> QED BY <1>1, <3>1 DEF BuildFits, BuildHolds
  <2>2. ASSUME NEW i \in InLine(j)' PROVE LineFits(j, waiting[i])'
    BY <2>2 DEF Joined, LineFits
  <2> QED BY <2>1, <2>2 DEF QueueFits, Joined
<1>3. HandsFit(j)'
  BY DEF HandsFit, OneHand, EditFits, ApprovalFits, RecoveryFits, Held, HeldByEdit, EditHolds
<1>4. Watched(j)'
  BY DEF Watched, Joined
<1>5. Kept(j)'
  BY ExecuteEntry DEF Kept, Joined, Working, OnFile
<1> QED BY <1>2, <1>3, <1>4, <1>5 DEF JobFits

LEMMA RequestsStay ==
  UNCHANGED requests => \A j : /\ Held(j)' <=> Held(j)
                               /\ Accepted(j)' = Accepted(j)
                               /\ ScanHas(j)' <=> ScanHas(j)
BY DEF requests, Held, HeldByEdit, HeldByApproval, Accepted, ScanHas

\* A job whose execution goes on.
LEMMA GoesOnFits ==
  ASSUME NEW j \in Jobs, JobFits(j), NEW s \in AtWorkOn(j), NEW b, GoesOn(j, s, b),
         b.entry = builds[s].entry, UNCHANGED requests,
         BuildFits(j, b)', disk'[j] # Nothing, disk'[j].stage # "deployment_ready",
         j \in EngineOne => ~disk'[j].spec, disk'[j].edits \subseteq Accepted(j),
         threw \subseteq threw', disk[j].edits \ threw' \subseteq disk'[j].edits
  PROVE  JobFits(j)'
<1>1. ~Held(j) /\ InLine(j) = {} /\ AtWorkOn(j) = {s}
  BY DEF JobFits, HandsFit, OneHand, Working, QueueFits, OneSeat, InLine, AtWorkOn
<1>2. ~Held(j)' /\ Accepted(j)' = Accepted(j)
  BY <1>1, RequestsStay
<1>3. HandsFit(j)'
  BY <1>2 DEF HandsFit, OneHand, EditFits, ApprovalFits, RecoveryFits, Held, HeldByEdit, EditHolds
<1>4. QueueFits(j)'
  BY DEF QueueFits, GoesOn, BuildFits, BuildHolds
<1>5. OnFile(j)'
  BY <1>2 DEF OnFile
<1>6. Watched(j)'
  BY DEF Watched, GoesOn, Working
<1>7. Kept(j)'
  <2> SUFFICES ASSUME NEW e \in Accepted(j), e \notin threw'
               PROVE  e \in disk'[j].edits \/ e \in b.entry.decisions
    BY <1>2 DEF Kept, GoesOn
  <2> QED BY <1>1 DEF Kept, JobFits
<1> QED BY <1>3, <1>4, <1>5, <1>6, <1>7 DEF JobFits

\* A job whose execution is over.
LEMMA GoneFits ==
  ASSUME NEW j \in Jobs, JobFits(j), NEW s \in AtWorkOn(j), Gone(j), UNCHANGED requests,
         disk'[j] # Nothing, Unfinished(disk'[j]) => j \in dropped',
         j \in EngineOne => ~disk'[j].spec, disk'[j].edits \subseteq Accepted(j),
         threw \subseteq threw',
         (disk[j].edits \cup builds[s].entry.decisions) \ threw' \subseteq disk'[j].edits
  PROVE  JobFits(j)'
<1>1. ~Held(j) /\ InLine(j) = {} /\ AtWorkOn(j) = {s}
  BY DEF JobFits, HandsFit, OneHand, Working, QueueFits, OneSeat, InLine, AtWorkOn
<1>2. ~Held(j)' /\ Accepted(j)' = Accepted(j)
  BY <1>1, RequestsStay
<1>3. HandsFit(j)'
  BY <1>2 DEF HandsFit, OneHand, EditFits, ApprovalFits, RecoveryFits, Held, HeldByEdit, EditHolds
<1>4. QueueFits(j)'
  BY DEF QueueFits, Gone
<1>5. OnFile(j)'
  BY <1>2 DEF OnFile, Gone, Working
<1>6. Watched(j)'
  BY DEF Watched
<1>7. Kept(j)'
  <2> SUFFICES ASSUME NEW e \in Accepted(j), e \notin threw'
               PROVE  e \in disk'[j].edits
    BY <1>2 DEF Kept
  <2> QED BY <1>1 DEF Kept, JobFits
<1> QED BY <1>3, <1>4, <1>5, <1>6, <1>7 DEF JobFits

\* A job in nobody's queue.
LEMMA OutOfLineFits ==
  ASSUME NEW j \in Jobs, Gone(j), HandsFit(j)', OnFile(j)', Watched(j)',
         \A e \in Accepted(j)' \ threw' : disk'[j] # Nothing /\ e \in disk'[j].edits
  PROVE  JobFits(j)'
<1>1. QueueFits(j)'
  BY DEF QueueFits, Gone
<1>2. Kept(j)'
  BY DEF Kept, Gone
<1> QED BY <1>1, <1>2 DEF JobFits

LEMMA RequestsUnchanged ==
  ASSUME UNCHANGED <<recovered, recovery, edits, approval>>, NEW j \in Jobs
  PROVE  SameHands(j)
<1>1. \A e \in Edits : edits'[e] = edits[e]
  OBVIOUS
<1>2. Accepted(j)' = Accepted(j) /\ (ScanHas(j)' <=> ScanHas(j))
  BY DEF Accepted, ScanHas
<1> QED BY <1>1, <1>2 DEF SameHands, HeldByApproval, Newest

LEMMA FilesUnchanged ==
  ASSUME UNCHANGED files, UNCHANGED threw, dropped \subseteq dropped', NEW j \in Jobs
  PROVE  SameFiles(j)
BY DEF SameFiles, files

LEMMA StillOut ==
  ASSUME UNCHANGED queue, NEW j \in Jobs, OneSeat(waiting, running, builds, j), ~Working(j)
  PROVE  Gone(j)
BY DEF queue, Working, Gone, OneSeat, InLine, AtWorkOn

\* A job nobody holds and that is not in the queue is in nobody's hands.
LEMMA NotQueued ==
  ASSUME NEW j \in Jobs, JobFits(j)
  PROVE  Queued(j) <=> Working(j)
BY DEF JobFits, QueueFits, OneSeat, Queued, Waits, Working, InLine, AtWorkOn, Places

LEMMA HeldHands ==
  ASSUME NEW j \in Jobs, ~Held(j)
  PROVE  /\ \A e \in Edits : ~EditHolds(e, j)
         /\ ~HeldByEdit(j) /\ ~HeldByApproval(j) /\ j \notin recovery.todo
BY DEF Held, HeldByEdit, EditHolds

\* What use of one job's files leaves alone.
OnlyFilesOf(p) ==
  \A k \in Jobs \ {p} : disk'[k] = disk[k] /\ scratch'[k] = scratch[k]

LEMMA FilesOfOne ==
  ASSUME FilesOK, NEW p \in Jobs,
         \/ \E rec : WriteScratch(p, rec)
         \/ WriteFails \/ Rename(p) \/ RenameFails(p)
  PROVE  OnlyFilesOf(p)
BY DEF FilesOK, OnlyFilesOf, WriteScratch, WriteFails, Rename, RenameFails, files

\* A write that fails leaves what is published; one that does not publishes what
\* the scratch file holds.
LEMMA Published ==
  ASSUME FilesOK, NEW p \in Jobs
  PROVE  /\ Rename(p) => disk'[p] = scratch[p]
         /\ RenameFails(p) \/ WriteFails => disk' = disk
         /\ \A rec : WriteScratch(p, rec) => disk' = disk /\ scratch'[p] = rec
BY DEF FilesOK, WriteScratch, WriteFails, Rename, RenameFails, files

LEMMA FitStartBuild == IInv /\ JobsFit /\ StartBuild => JobsFit'
<1> SUFFICES ASSUME IInv, JobsFit, StartBuild, NEW j \in Jobs \ crossed PROVE JobFits(j)'
  BY DEF JobsFit, StartBuild, history
<1>1. /\ UNCHANGED <<files, queue, edits, approval, threw, dropped>>
      /\ recovery'.todo = recovery.todo /\ recovery'.read = recovery.read
      /\ \/ UNCHANGED <<recovered, recovery>>
         \/ recovery.pc = "idle" /\ recovery'.pc = "list" /\ recovered'
  BY DEF IInv, RecoveryOK, StartBuild, history
<1>2. SameFiles(j) /\ SameQueue(j)
  BY <1>1, FilesUnchanged, QueueUnchanged DEF JobsFit, JobFits, QueueFits
<1>3. ScanHas(j)' \/ ~ScanHas(j)
  BY <1>1 DEF ScanHas
<1>4. Accepted(j)' = Accepted(j)
  BY <1>1 DEF Accepted
<1>5. SameHands(j)
  BY <1>1, <1>3, <1>4 DEF SameHands, HeldByApproval, Newest
<1> QED BY <1>2, <1>5, Elsewhere DEF IInv, JobsFit

LEMMA FitSubmit == IInv /\ JobsFit /\ Submit => JobsFit'
<1> SUFFICES ASSUME IInv, JobsFit, Submit PROVE JobsFit'
  OBVIOUS
<1>1. PICK p \in Jobs : /\ disk[p] = Nothing /\ disk' = [disk EXCEPT ![p] = newJob]
                        /\ Enqueue(entry(p, newJob))
  BY DEF Submit
<1>2. entry(p, newJob) \in UnsignedPending /\ entry(p, newJob).job = p
  BY Kinds, EntryTypes DEF entry
<1>3. /\ UNCHANGED <<scratch, threw, crossed, recovered, recovery, edits, approval>>
      /\ dropped' = dropped \ {p}
  BY <1>1, <1>2 DEF Submit, Enqueue
<1>4. disk'[p] = newJob /\ \A j \in Jobs \ {p} : disk'[j] = disk[j]
  BY <1>1 DEF IInv, FilesOK
<1>5. ASSUME NEW j \in Jobs \ crossed, j # p PROVE JobFits(j)'
  <2>1. SameFiles(j) /\ SameHands(j)
    BY <1>3, <1>4, <1>5, RequestsUnchanged DEF SameFiles
  <2>2. SameQueue(j)
    BY <1>1, <1>2, <1>5, EnqueueElsewhere DEF IInv, JobsFit, JobFits, QueueFits
  <2> QED BY <1>5, <2>1, <2>2, Elsewhere DEF IInv, JobsFit
<1>6. ASSUME p \notin crossed PROVE JobFits(p)'
  <2>1. JobFits(p) /\ ~Held(p) /\ ~Working(p)
    BY <1>1, <1>6 DEF JobsFit, JobFits, OnFile
  <2>2. p \notin running
    BY <2>1 DEF JobFits, QueueFits, OneSeat, Working, AtWorkOn
  <2>3. Joined(p, entry(p, newJob))
    BY <1>1, <1>2, <2>1, <2>2, EnqueueJoins DEF IInv
  <2>4. ~Held(p)' /\ Accepted(p)' = Accepted(p)
    BY <1>3, <2>1 DEF Held, HeldByEdit, HeldByApproval, Accepted
  <2>5. newJob # Nothing /\ newJob.stage = "prompt_received"
        /\ newJob.spec = FALSE /\ newJob.edits = {}
    BY DEF newJob, Nothing
  <2>6. OnFile(p)'
    BY <1>4, <2>5 DEF OnFile
  <2>7. LineFits(p, entry(p, newJob))'
    BY <1>4, <2>5 DEF LineFits, entry
  <2>8. \A e \in Accepted(p)' : e \in threw'
    BY <1>1, <1>3, <2>1, <2>4 DEF JobFits, Kept
  <2> QED BY <1>2, <2>3, <2>4, <2>6, <2>7, <2>8, JoinedFits
<1> QED BY <1>3, <1>5, <1>6 DEF JobsFit

LEMMA FitSubmitFails == IInv /\ JobsFit /\ SubmitFails => JobsFit'
<1> SUFFICES ASSUME IInv, JobsFit, SubmitFails, NEW j \in Jobs \ crossed PROVE JobFits(j)'
  BY DEF JobsFit, SubmitFails, history
<1>1. SameFiles(j) /\ SameQueue(j) /\ SameHands(j)
  BY FilesUnchanged, QueueUnchanged, RequestsUnchanged
     DEF SubmitFails, history, JobsFit, JobFits, QueueFits
<1> QED BY <1>1, Elsewhere DEF IInv, JobsFit

\* Whom the scan lets go is in dropped or in the queue.
LEMMA LetGoOrQueued ==
  ASSUME NEW jobs, dropped' = dropped \cup LetGo(jobs), NEW j \in jobs,
         j \in Jobs, JobFits(j), Unfinished(disk[j])
  PROVE  Working(j) \/ j \in dropped'
BY NotQueued DEF LetGo

LEMMA FitRecoverList == IInv /\ JobsFit /\ RecoverList => JobsFit'
<1> SUFFICES ASSUME IInv, JobsFit, RecoverList, NEW j \in Jobs \ crossed PROVE JobFits(j)'
  BY DEF JobsFit, RecoverList
<1>1. /\ UNCHANGED <<files, queue, recovered, edits, approval, threw>>
      /\ recovery.todo = {} /\ recovery'.todo = {} /\ dropped \subseteq dropped'
  <2>1. /\ UNCHANGED <<files, queue, recovered, edits, approval, threw>>
        /\ recovery.todo = {}
    BY DEF RecoverList, IInv, RecoveryOK
  <2>2. CASE /\ recovery' = [recovery EXCEPT !.pc = "read", !.names = {k \in Jobs : disk[k] # Nothing}]
             /\ UNCHANGED dropped
    <3>1. recovery'.todo = recovery.todo
      BY <2>2 DEF IInv, RecoveryOK
    <3> QED BY <2>1, <2>2, <3>1
  <2>3. CASE recovery' = IdleRecovery /\ dropped' = dropped \cup LetGo(Jobs)
    BY <2>1, <2>3 DEF IdleRecovery
  <2> QED BY <2>2, <2>3 DEF RecoverList
<1>2. SameFiles(j) /\ SameQueue(j)
  BY <1>1, FilesUnchanged, QueueUnchanged DEF JobsFit, JobFits, QueueFits
<1>3. Unfinished(disk[j]) => ScanHas(j)' \/ Working(j) \/ j \in dropped'
  <2> SUFFICES ASSUME Unfinished(disk[j]) PROVE ScanHas(j)' \/ Working(j) \/ j \in dropped'
    OBVIOUS
  <2>1. CASE recovery' = [recovery EXCEPT !.pc = "read", !.names = {k \in Jobs : disk[k] # Nothing}]
    <3>1. disk[j] # Nothing
      BY DEF Unfinished
    <3> QED BY <2>1, <3>1 DEF ScanHas, IInv, RecoveryOK
  <2>2. CASE dropped' = dropped \cup LetGo(Jobs)
    BY <2>2, LetGoOrQueued DEF JobsFit
  <2> QED BY <2>1, <2>2 DEF RecoverList
<1>4. Accepted(j)' = Accepted(j)
  BY <1>1 DEF Accepted
<1>5. SameHands(j)
  BY <1>1, <1>3, <1>4 DEF SameHands, HeldByApproval, EditHolds
<1> QED BY <1>2, <1>5, Elsewhere DEF IInv, JobsFit

LEMMA FitRecoverRead ==
  ASSUME IInv, JobsFit, NEW p \in Jobs, RecoverRead(p) PROVE JobsFit'
<1> SUFFICES ASSUME NEW j \in Jobs \ crossed PROVE JobFits(j)'
  BY DEF JobsFit, RecoverRead
<1>0. PICK rec : rec = IF Interrupted(disk[p]) /\ (Queued(p) => p \in Overtaken)
                       THEN disk[p] ELSE Nothing
  OBVIOUS
<1>1. /\ UNCHANGED <<files, queue, recovered, edits, approval, threw>>
      /\ recovery.pc = "read" /\ recovery.todo = {} /\ recovered
      /\ \/ recovery' = [recovery EXCEPT !.names = @ \ {p}, !.read[p] = rec] /\ UNCHANGED dropped
         \/ recovery' = [recovery EXCEPT !.names = @ \ {p}] /\ dropped' = dropped \cup LetGo({p})
  BY <1>0 DEF RecoverRead, IInv, RecoveryOK
<1>2. /\ recovery'.pc = "read" /\ recovery'.todo = {} /\ recovery'.names = recovery.names \ {p}
      /\ \A k \in Jobs \ {p} : recovery'.read[k] = recovery.read[k]
      /\ dropped \subseteq dropped'
      /\ recovery'.read[p] = rec \/ dropped' = dropped \cup LetGo({p})
  <2>1. CASE recovery' = [recovery EXCEPT !.names = @ \ {p}, !.read[p] = rec] /\ UNCHANGED dropped
    <3>1. PICK read : read = [recovery.read EXCEPT ![p] = rec]
      OBVIOUS
    <3>2. read[p] = rec /\ \A k \in Jobs \ {p} : read[k] = recovery.read[k]
      BY <3>1 DEF IInv, RecoveryOK
    <3>3. recovery' = [recovery EXCEPT !.names = @ \ {p}, !.read = read]
      BY <2>1, <3>1 DEF IInv, RecoveryOK
    <3>4. recovery'.pc = recovery.pc /\ recovery'.todo = recovery.todo
          /\ recovery'.names = recovery.names \ {p} /\ recovery'.read = read
      BY <3>3 DEF IInv, RecoveryOK
    <3> QED BY <1>1, <2>1, <3>2, <3>4
  <2>2. CASE recovery' = [recovery EXCEPT !.names = @ \ {p}] /\ dropped' = dropped \cup LetGo({p})
    <3>1. recovery'.pc = recovery.pc /\ recovery'.todo = recovery.todo
          /\ recovery'.names = recovery.names \ {p} /\ recovery'.read = recovery.read
      BY <2>2 DEF IInv, RecoveryOK
    <3> QED BY <1>1, <2>2, <3>1
  <2> QED BY <1>1, <2>1, <2>2
<1>3. SameFiles(j) /\ SameQueue(j)
  BY <1>1, <1>2, FilesUnchanged, QueueUnchanged DEF JobsFit, JobFits, QueueFits
<1>4. ScanHas(j) /\ Unfinished(disk[j]) =>
        ScanHas(j)' \/ Working(j) \/ ~TouchedRecently(disk[j]) \/ j \in dropped'
  <2>1. CASE j # p
    BY <1>1, <1>2, <2>1 DEF ScanHas
  <2>2. ASSUME j = p, Unfinished(disk[j]), TouchedRecently(disk[j])
        PROVE  ScanHas(j)' \/ Working(j) \/ j \in dropped'
    <3>1. JobFits(j) /\ disk[j] # Nothing
      BY <2>2 DEF JobsFit, Unfinished
    <3>2. CASE dropped' = dropped \cup LetGo({p})
      BY <2>2, <3>1, <3>2, LetGoOrQueued
    <3>3. CASE recovery'.read[p] = rec
      <4>1. Working(j) \/ rec = disk[j]
        BY <1>0, <2>2, <3>1, NotQueued DEF Interrupted
      <4> QED BY <1>2, <2>2, <3>1, <3>3, <4>1 DEF ScanHas
    <3> QED BY <1>2, <3>2, <3>3
  <2> QED BY <2>1, <2>2
<1>5. Accepted(j)' = Accepted(j)
  BY <1>1 DEF Accepted
<1>6. SameHands(j)
  BY <1>1, <1>2, <1>4, <1>5 DEF SameHands, HeldByApproval, EditHolds
<1> QED BY <1>3, <1>6, Elsewhere DEF IInv, JobsFit

\* The filter: a job it takes is out of the queue and unchanged since it was
\* read, or two requests crossed on it.
LEMMA FitRecoverFilter == IInv /\ JobsFit /\ RecoverFilter => JobsFit'
<1> SUFFICES ASSUME IInv, JobsFit, RecoverFilter PROVE JobsFit'
  OBVIOUS
<1>0. PICK listed \in Listings :
       /\ IF Stale(listed) = {}
          THEN recovery' = IdleRecovery /\ Arrive
          ELSE /\ recovery' = [pc |-> "put", names |-> {}, todo |-> Stale(listed),
                               read |-> [j \in Jobs |->
                                 IF j \in Stale(listed) THEN recovery.read[j] ELSE Nothing]]
               /\ UNCHANGED arriving
       /\ crossed' = crossed \cup {j \in Stale(listed) : \/ HeldByEdit(j) \/ HeldByApproval(j)
                                                         \/ disk[j] # recovery.read[j]}
       /\ dropped' = dropped \cup LetGo(Copies \ listed)
  BY DEF RecoverFilter
<1>1. PICK stale : stale = Stale(listed)
  OBVIOUS
<1>2. /\ stale \subseteq Copies /\ stale \subseteq Jobs
      /\ \A j \in stale : ~Queued(j)
      /\ \A j \in listed : j \in stale \/ Queued(j)
  BY <1>1 DEF Stale, Listings, Copies
<1>3. /\ UNCHANGED <<files, queue, recovered, edits, approval, threw>>
      /\ recovery.pc = "read" /\ recovery.names = {} /\ recovery.todo = {} /\ recovered
      /\ recovery'.todo = stale /\ recovery'.pc # "move" /\ dropped \subseteq dropped'
      /\ \A j \in stale : recovery'.read[j] = recovery.read[j]
      /\ crossed' = crossed \cup {j \in stale : \/ HeldByEdit(j) \/ HeldByApproval(j)
                                                \/ disk[j] # recovery.read[j]}
  <2>1. /\ UNCHANGED <<files, queue, recovered, edits, approval, threw>>
        /\ recovery.pc = "read" /\ recovery.names = {} /\ recovery.todo = {} /\ recovered
    BY DEF RecoverFilter, IInv, RecoveryOK
  <2>2. recovery'.todo = stale /\ recovery'.pc # "move"
        /\ \A j \in stale : recovery'.read[j] = recovery.read[j]
    BY <1>0, <1>1, <1>2 DEF IdleRecovery
  <2> QED BY <1>0, <1>1, <2>1, <2>2
<1>4. ASSUME NEW j \in Jobs \ crossed', j \notin stale PROVE JobFits(j)'
  <2>1. JobFits(j)
    BY <1>3, <1>4 DEF JobsFit
  <2>2. SameFiles(j) /\ SameQueue(j)
    BY <1>3, <2>1, FilesUnchanged, QueueUnchanged DEF JobFits, QueueFits
  <2>3. ScanHas(j) /\ Unfinished(disk[j]) => Working(j) \/ j \in dropped'
    <3> SUFFICES ASSUME ScanHas(j), Unfinished(disk[j]) PROVE Working(j) \/ j \in dropped'
      OBVIOUS
    <3>1. j \in Copies
      BY <1>3 DEF ScanHas, Copies
    <3>2. CASE j \in listed
      BY <1>2, <1>4, <2>1, <3>2, NotQueued
    <3>3. CASE j \notin listed
      <4>1. j \in Copies \ listed
        BY <3>1, <3>3
      <4> QED BY <1>0, <2>1, <4>1, LetGoOrQueued
    <3> QED BY <3>2, <3>3
  <2>4. Accepted(j)' = Accepted(j)
    BY <1>3 DEF Accepted
  <2>5. SameHands(j)
    BY <1>3, <1>4, <2>3, <2>4 DEF SameHands, HeldByApproval, EditHolds
  <2> QED BY <2>1, <2>2, <2>5, Elsewhere DEF IInv
<1>5. ASSUME NEW j \in Jobs \ crossed', j \in stale PROVE JobFits(j)'
  <2>1. JobFits(j) /\ disk[j] = recovery.read[j] /\ ~HeldByEdit(j) /\ ~HeldByApproval(j)
    BY <1>3, <1>5 DEF JobsFit
  <2>2. ~Working(j) /\ disk[j] # Nothing /\ Unfinished(disk[j])
    BY <1>2, <1>5, <2>1, NotQueued DEF Copies, IInv, RecoveryOK
  <2>3. Gone(j)
    BY <1>3, <2>1, <2>2, StillOut DEF JobFits, QueueFits
  <2>4. ~HeldByEdit(j)' /\ ~HeldByApproval(j)' /\ ~Working(j)' /\ Accepted(j)' = Accepted(j)
    BY <1>3, <2>1, <2>3 DEF HeldByEdit, HeldByApproval, Gone, Working, Accepted
  <2>5. OneHand(j)' /\ EditFits(j)' /\ ApprovalFits(j)'
    BY <2>4 DEF OneHand, EditFits, ApprovalFits, HeldByEdit, EditHolds
  <2>6. RecoveryFits(j)' /\ ScanHas(j)'
    BY <1>3, <1>5, <2>1, <2>2 DEF RecoveryFits, ScanHas, files
  <2>7. OnFile(j)' /\ Watched(j)'
    BY <1>3, <2>1, <2>2, <2>4, <2>6 DEF JobFits, OnFile, Watched, files
  <2>8. \A e \in Accepted(j)' \ threw' : disk'[j] # Nothing /\ e \in disk'[j].edits
    BY <1>3, <2>1, <2>2, <2>4 DEF JobFits, Kept, Working, files
  <2> QED BY <2>3, <2>5, <2>6, <2>7, <2>8, OutOfLineFits DEF HandsFit
<1> QED BY <1>4, <1>5 DEF JobsFit

\* A restart keeps the edits and the specification, and is unfinished.
LEMMA RestartKeeps ==
  \A rec \in Record : /\ restartJob(rec).edits = rec.edits
                      /\ restartJob(rec).spec = rec.spec
                      /\ restartJob(rec).stage = "prompt_received"
                      /\ restartJob(rec) # Nothing
<1> SUFFICES ASSUME NEW rec \in Record
             PROVE  /\ restartJob(rec).edits = rec.edits
                    /\ restartJob(rec).spec = rec.spec
                    /\ restartJob(rec).stage = "prompt_received"
                    /\ restartJob(rec) # Nothing
  OBVIOUS
<1>1. restartJob(rec) # Nothing
  BY Restarted, Kinds
<1> QED BY <1>1 DEF restartJob, Record

\* The newest job of the scan is one job.
LEMMA OneNewest ==
  ASSUME NEW p \in Jobs, NEW j \in Jobs, Newest(p), Newest(j)
  PROVE  p = j
<1>1. p \in Nat /\ j \in Nat /\ p <= j /\ j <= p
  BY QueueAssumption DEF Jobs, Newest
<1> QED BY <1>1

\* A job of the scan joins the line, whether its restart was written or not.
LEMMA FitRequeue ==
  ASSUME IInv, JobsFit, NEW p \in Jobs, Newest(p), Requeue(p), OnlyFilesOf(p),
         UNCHANGED <<recovered, edits, approval, threw, crossed>>,
         p \notin crossed => disk'[p] \in {disk[p], restartJob(recovery.read[p])}
  PROVE  JobsFit'
<1>1. p \in recovery.todo /\ recovery.pc \in {"put", "move"} /\ recovered
  BY DEF Newest, IInv, RecoveryOK
<1>2. PICK item \in UnsignedPending : item = entry(p, restartJob(recovery.read[p]))
  BY RequeueTypes
<1>3. item.job = p /\ item.rec = restartJob(recovery.read[p]) /\ item.decisions = {}
  BY <1>2 DEF entry
<1>4. /\ \/ Enqueue(item)
         \/ waiting' = Append(waiting, item) /\ UNCHANGED <<running, builds>>
      /\ dropped' = dropped \ {p}
      /\ recovery'.todo = recovery.todo \ {p}
      /\ recovery'.pc \in {"idle", "put"}
      /\ recovery'.todo # {} => recovery'.pc = "put" /\ recovery'.read = recovery.read
  <2>1. CASE recovery.todo \ {p} = {}
    <3>1. Enqueue(item) /\ recovery' = IdleRecovery
      BY <1>2, <2>1 DEF Requeue
    <3>2. dropped' = dropped \ {p}
      BY <1>3, <3>1 DEF Enqueue
    <3> QED BY <2>1, <3>1, <3>2 DEF IdleRecovery
  <2>2. CASE recovery.todo \ {p} # {}
    <3>1. /\ waiting' = Append(waiting, item) /\ UNCHANGED <<running, builds>>
          /\ dropped' = dropped \ {p}
          /\ recovery' = [recovery EXCEPT !.pc = "put", !.todo = recovery.todo \ {p}]
      BY <1>2, <2>2 DEF Requeue
    <3>2. recovery'.todo = recovery.todo \ {p} /\ recovery'.pc = "put"
          /\ recovery'.read = recovery.read
      BY <3>1 DEF IInv, RecoveryOK
    <3> QED BY <3>1, <3>2
  <2> QED BY <2>1, <2>2
<1>5. \A j \in Jobs : Accepted(j)' = Accepted(j)
  BY DEF Accepted
<1>6. ASSUME NEW j \in Jobs \ crossed, j # p PROVE JobFits(j)'
  <2>1. SameFiles(j)
    BY <1>4, <1>6 DEF SameFiles, OnlyFilesOf
  <2>2. SameQueue(j)
    BY <1>3, <1>4, <1>6, EnqueueElsewhere, AppendElsewhere DEF IInv, JobsFit, JobFits, QueueFits
  <2>3. ScanHas(j) => ScanHas(j)'
    BY <1>1, <1>4, <1>6 DEF ScanHas
  <2>4. SameHands(j)
    BY <1>1, <1>4, <1>5, <1>6, <2>3 DEF SameHands, HeldByApproval, EditHolds
  <2> QED BY <1>6, <2>1, <2>2, <2>4, Elsewhere DEF IInv, JobsFit
<1>7. ASSUME p \notin crossed PROVE JobFits(p)'
  <2>1. JobFits(p) /\ Held(p) /\ ~Working(p) /\ ~HeldByEdit(p) /\ ~HeldByApproval(p)
    BY <1>1, <1>7 DEF JobsFit, JobFits, HandsFit, OneHand, Held
  <2>2. p \notin running
    BY <2>1 DEF JobFits, QueueFits, OneSeat, Working, AtWorkOn
  <2>3. Joined(p, item)
    BY <1>3, <1>4, <2>1, <2>2, EnqueueJoins, AppendJoins DEF IInv
  <2>4. disk[p] = recovery.read[p] /\ Unfinished(disk[p]) /\ disk[p] # Nothing
    BY <1>1, <2>1 DEF JobFits, HandsFit, RecoveryFits, Unfinished
  <2>5. disk[p] \in Record
    BY <2>4, OnDisk, Kinds DEF IInv
  <2>6. item.rec.edits = disk[p].edits /\ item.rec.spec = disk[p].spec
        /\ item.rec.stage = "prompt_received" /\ item.rec # Nothing
    BY <1>3, <2>4, <2>5, RestartKeeps
  <2>7. /\ disk'[p] # Nothing /\ disk'[p].stage # "deployment_ready"
        /\ disk'[p].edits = disk[p].edits /\ disk'[p].spec = disk[p].spec
    <3>1. disk'[p] \in {disk[p], item.rec}
      BY <1>3, <1>7
    <3> QED BY <2>4, <2>6, <3>1 DEF Unfinished, isTerminal
  <2>8. disk[p].edits \subseteq Accepted(p) /\ (p \in EngineOne => ~disk[p].spec)
    BY <2>1, <2>4 DEF JobFits, OnFile
  <2>9. ~Held(p)'
    BY <1>4, <2>1 DEF Held, HeldByEdit, HeldByApproval
  <2>10. LineFits(p, item)'
    BY <1>2, <1>3, <1>5, <2>6, <2>7, <2>8 DEF LineFits, entry
  <2>11. OnFile(p)'
    BY <1>5, <2>7, <2>8 DEF OnFile
  <2>12. \A e \in Accepted(p)' : e \in threw' \/ e \in disk'[p].edits \/ e \in item.decisions
    BY <1>5, <2>1, <2>7 DEF JobFits, Kept, Working
  <2> QED BY <1>3, <2>3, <2>9, <2>10, <2>11, <2>12, JoinedFits
<1> QED BY <1>6, <1>7 DEF JobsFit

LEMMA FitRecoverPut == IInv /\ JobsFit /\ RecoverPut => JobsFit'
<1> SUFFICES ASSUME IInv, JobsFit, RecoverPut PROVE JobsFit'
  OBVIOUS
<1>0. PICK p \in Jobs :
        /\ Newest(p)
        /\ \/ /\ WriteScratch(p, restartJob(recovery.read[p]))
              /\ recovery' = [recovery EXCEPT !.pc = "move"]
              /\ UNCHANGED <<queue, arriving, dropped>>
           \/ WriteFails /\ Requeue(p)
  BY DEF RecoverPut
<1>1. UNCHANGED <<recovered, edits, approval, threw, crossed>> /\ OnlyFilesOf(p)
  BY <1>0, FilesOfOne DEF RecoverPut, IInv
<1>2. CASE WriteFails /\ Requeue(p)
  BY <1>0, <1>1, <1>2, FitRequeue DEF WriteFails, files
<1>3. CASE /\ WriteScratch(p, restartJob(recovery.read[p]))
           /\ recovery' = [recovery EXCEPT !.pc = "move"]
           /\ UNCHANGED <<queue, arriving, dropped>>
  <2>1. /\ recovery.pc = "put" /\ recovery'.pc = "move" /\ recovered
        /\ recovery'.todo = recovery.todo /\ recovery'.read = recovery.read
        /\ p \in recovery.todo
    BY <1>0, <1>3 DEF RecoverPut, IInv, RecoveryOK, Newest
  <2>2. \A j \in Jobs : Accepted(j)' = Accepted(j)
    BY <1>1 DEF Accepted
  <2>3. ASSUME NEW j \in Jobs \ crossed, j # p PROVE JobFits(j)'
    <3>1. SameFiles(j) /\ SameQueue(j)
      BY <1>1, <1>3, <2>3, QueueUnchanged DEF SameFiles, OnlyFilesOf, JobsFit, JobFits, QueueFits
    <3>2. ~Newest(j)'
      BY <1>0, <2>1, <2>3, OneNewest DEF Newest
    <3>3. ScanHas(j)' <=> ScanHas(j)
      BY <1>1, <2>1 DEF ScanHas
    <3>4. SameHands(j)
      BY <1>1, <2>1, <2>2, <3>2, <3>3 DEF SameHands, HeldByApproval, EditHolds
    <3> QED BY <2>3, <3>1, <3>4, Elsewhere DEF IInv, JobsFit
  <2>4. ASSUME p \notin crossed PROVE JobFits(p)'
    <3>1. JobFits(p) /\ Held(p) /\ ~Working(p) /\ ~HeldByEdit(p) /\ ~HeldByApproval(p)
      BY <2>1, <2>4 DEF JobsFit, JobFits, HandsFit, OneHand, Held
    <3>2. Gone(p)
      BY <1>3, <3>1, StillOut DEF JobFits, QueueFits
    <3>3. disk'[p] = disk[p] /\ scratch'[p] = restartJob(recovery.read[p])
      BY <1>3, Published DEF IInv
    <3>4. ~HeldByEdit(p)' /\ ~HeldByApproval(p)' /\ ~Working(p)' /\ ScanHas(p)'
      BY <1>1, <2>1, <3>1, <3>2 DEF HeldByEdit, HeldByApproval, Gone, Working, ScanHas
    <3>5. OneHand(p)' /\ EditFits(p)' /\ ApprovalFits(p)'
      BY <3>4 DEF OneHand, EditFits, ApprovalFits, HeldByEdit, EditHolds
    <3>6. RecoveryFits(p)'
      BY <2>1, <3>1, <3>3 DEF JobFits, HandsFit, RecoveryFits
    <3>7. OnFile(p)' /\ Watched(p)'
      BY <2>2, <3>1, <3>3, <3>4 DEF JobFits, OnFile, Watched
    <3>8. \A e \in Accepted(p)' \ threw' : disk'[p] # Nothing /\ e \in disk'[p].edits
      BY <1>1, <2>2, <3>1, <3>3 DEF JobFits, Kept, Working
    <3> QED BY <3>2, <3>5, <3>6, <3>7, <3>8, OutOfLineFits DEF HandsFit
  <2> QED BY <1>1, <2>3, <2>4 DEF JobsFit
<1> QED BY <1>0, <1>2, <1>3

LEMMA FitRecoverMove == IInv /\ JobsFit /\ RecoverMove => JobsFit'
<1> SUFFICES ASSUME IInv, JobsFit, RecoverMove PROVE JobsFit'
  OBVIOUS
<1>0. PICK p \in Jobs : Newest(p) /\ (Rename(p) \/ RenameFails(p)) /\ Requeue(p)
  BY DEF RecoverMove
<1>1. UNCHANGED <<recovered, edits, approval, threw, crossed>> /\ OnlyFilesOf(p)
      /\ recovery.pc = "move" /\ p \in recovery.todo
  BY <1>0, FilesOfOne DEF RecoverMove, IInv, Newest
<1>2. ASSUME p \notin crossed PROVE disk'[p] \in {disk[p], restartJob(recovery.read[p])}
  <2>1. scratch[p] = restartJob(recovery.read[p])
    BY <1>0, <1>1, <1>2 DEF JobsFit, JobFits, HandsFit, RecoveryFits
  <2> QED BY <1>0, <2>1, Published DEF IInv
<1> QED BY <1>0, <1>1, <1>2, FitRequeue

LEMMA FitAnswer == ASSUME IInv, JobsFit, NEW p \in Jobs, Answer(p) PROVE JobsFit'
<1>1. disk[p] \in Unsigned /\ disk[p] # Nothing
  <2>1. disk[p] # Nothing
    BY DEF Answer, Nothing
  <2> QED BY <2>1, OnDisk, UnfinishedUnsigned DEF IInv, Answer
<1>2. PICK item \in UnsignedPending :
        item = [job |-> p, kind |-> "answers", decisions |-> {}, rec |-> disk[p]]
  BY <1>1 DEF UnsignedPending
<1>3. item.job = p /\ item.kind = "answers" /\ item.rec = disk[p] /\ item.decisions = {}
  BY <1>2
<1>4. /\ Enqueue(item) /\ ~Queued(p) /\ disk[p].stage = "awaiting_clarification"
      /\ UNCHANGED <<files, requests, threw>> /\ dropped' = dropped \ {p}
      /\ crossed' = IF Held(p) THEN crossed \cup {p} ELSE crossed
  BY <1>2, <1>3 DEF Answer, Enqueue
<1>5. ASSUME NEW j \in Jobs \ crossed, j # p PROVE JobFits(j)'
  <2>1. SameFiles(j) /\ SameHands(j)
    BY <1>4, <1>5, RequestsUnchanged DEF requests, SameFiles, files
  <2>2. SameQueue(j)
    BY <1>3, <1>4, <1>5, EnqueueElsewhere DEF IInv, JobsFit, JobFits, QueueFits
  <2> QED BY <1>5, <2>1, <2>2, Elsewhere DEF IInv, JobsFit
<1>6. ASSUME p \notin crossed' PROVE JobFits(p)'
  <2>1. JobFits(p) /\ ~Held(p) /\ ~Working(p)
    BY <1>4, <1>6, NotQueued DEF JobsFit
  <2>2. p \notin running
    BY <1>4 DEF Queued
  <2>3. Joined(p, item)
    BY <1>3, <1>4, <2>1, <2>2, EnqueueJoins DEF IInv
  <2>4. ~Held(p)' /\ Accepted(p)' = Accepted(p) /\ disk' = disk /\ threw' = threw
    BY <1>4, <2>1, RequestsStay DEF files
  <2>5. LineFits(p, item)'
    BY <1>1, <1>3, <2>1, <2>4 DEF LineFits, JobFits, OnFile
  <2>6. OnFile(p)'
    BY <1>1, <1>4, <2>1, <2>4 DEF JobFits, OnFile
  <2>7. \A e \in Accepted(p)' : e \in threw' \/ e \in disk'[p].edits \/ e \in item.decisions
    BY <2>1, <2>4 DEF JobFits, Kept, Working
  <2> QED BY <1>3, <2>3, <2>4, <2>5, <2>6, <2>7, JoinedFits
<1> QED BY <1>4, <1>5, <1>6 DEF JobsFit

\* A request that takes a job crosses with whoever holds it.
LEMMA FitEditRead ==
  ASSUME IInv, JobsFit, NEW e \in Edits, NEW p \in Jobs, EditRead(e, p) PROVE JobsFit'
<1>1. /\ UNCHANGED <<files, queue, recovered, recovery, approval, threw, dropped>>
      /\ edits[e].pc = "idle" /\ disk[p] # Nothing /\ disk[p].spec /\ ~Queued(p)
      /\ edits'[e] = [pc |-> "put", job |-> p, rec |-> restartJob(disk[p])]
      /\ \A f \in Edits \ {e} : edits'[f] = edits[f]
      /\ crossed' = IF Held(p) THEN crossed \cup {p} ELSE crossed
  BY DEF EditRead, IInv, EditsOK
<1>2. \A j \in Jobs : Accepted(j)' = Accepted(j) /\ (ScanHas(j)' <=> ScanHas(j))
  BY <1>1 DEF Accepted, ScanHas
<1>3. ASSUME NEW j \in Jobs \ crossed, j # p PROVE JobFits(j)'
  <2>1. SameFiles(j) /\ SameQueue(j)
    BY <1>1, <1>3, FilesUnchanged, QueueUnchanged DEF JobsFit, JobFits, QueueFits
  <2>2. SameHands(j)
    BY <1>1, <1>2, <1>3 DEF SameHands, HeldByApproval, EditHolds, Newest
  <2> QED BY <1>3, <2>1, <2>2, Elsewhere DEF IInv, JobsFit
<1>4. ASSUME p \notin crossed' PROVE JobFits(p)'
  <2>1. JobFits(p) /\ ~Held(p) /\ ~Working(p)
    BY <1>1, <1>4, NotQueued DEF JobsFit
  <2>2. Gone(p)
    BY <1>1, <2>1, StillOut DEF JobFits, QueueFits
  <2>3. disk[p] \in Record /\ disk' = disk /\ scratch' = scratch
    BY <1>1, OnDisk, Kinds DEF IInv, files
  <2>4. /\ restartJob(disk[p]).edits = disk[p].edits
        /\ restartJob(disk[p]).stage = "prompt_received"
    BY <2>3, RestartKeeps
  <2>5. \A f \in Edits : EditHolds(f, p)' => f = e
    BY <1>1, <2>1, HeldHands DEF EditHolds
  <2>6. ~HeldByApproval(p)' /\ p \notin recovery'.todo /\ ~Working(p)'
    BY <1>1, <2>1, <2>2, HeldHands DEF HeldByApproval, Gone, Working
  <2>7. p \notin EngineOne /\ disk[p].edits \subseteq Accepted(p)
    BY <1>1, <2>1 DEF JobFits, OnFile
  <2>8. HandsFit(p)'
    <3>1. OneHand(p)'
      BY <2>5, <2>6 DEF OneHand
    <3>2. EditFits(p)'
      BY <1>1, <1>2, <2>3, <2>4, <2>5, <2>7 DEF EditFits
    <3> QED BY <2>6, <3>1, <3>2 DEF HandsFit, ApprovalFits, RecoveryFits
  <2>9. OnFile(p)' /\ Watched(p)'
    BY <1>1, <1>2, <2>1, <2>3, <2>6 DEF JobFits, OnFile, Watched
  <2>10. \A f \in Accepted(p)' \ threw' : disk'[p] # Nothing /\ f \in disk'[p].edits
    BY <1>1, <1>2, <2>1, <2>3 DEF JobFits, Kept, Working
  <2> QED BY <2>2, <2>8, <2>9, <2>10, OutOfLineFits
<1> QED BY <1>1, <1>3, <1>4 DEF JobsFit

\* What is known of the job a request holds, of one no requests crossed on.
LEMMA EditAlone ==
  ASSUME JobsFit, NEW e \in Edits, edits[e].pc \in {"put", "move"},
         NEW p \in Jobs \ crossed, p = edits[e].job
  PROVE  /\ JobFits(p) /\ EditHolds(e, p) /\ HeldByEdit(p) /\ Held(p)
         /\ ~Working(p) /\ ~HeldByApproval(p) /\ p \notin recovery.todo
         /\ \A f \in Edits : EditHolds(f, p) => f = e
         /\ disk[p] # Nothing /\ disk[p].edits \subseteq Accepted(p)
<1>1. JobFits(p) /\ EditHolds(e, p) /\ HeldByEdit(p) /\ Held(p)
  BY DEF JobsFit, EditHolds, HeldByEdit, Held
<1> QED BY <1>1 DEF JobFits, HandsFit, OneHand, OnFile

\* An edit that is refused leaves its job as it is on disk.
LEMMA FitRefuse ==
  ASSUME IInv, JobsFit, NEW e \in Edits, edits[e].pc \in {"put", "move"}, Refuse(e),
         NEW p \in Jobs, p = edits[e].job, disk' = disk, OnlyFilesOf(p),
         UNCHANGED <<queue, recovered, recovery, approval, crossed, threw, dropped>>
  PROVE  JobsFit'
<1>1. /\ edits'[e].pc = "over" /\ \A f \in Edits \ {e} : edits'[f] = edits[f]
  BY DEF Refuse, OverRequest, IdleRequest, IInv, EditsOK
<1>2. \A j \in Jobs : Accepted(j)' = Accepted(j) /\ (ScanHas(j)' <=> ScanHas(j))
  BY <1>1 DEF Accepted, ScanHas
<1>3. ASSUME NEW j \in Jobs \ crossed, j # p PROVE JobFits(j)'
  <2>1. SameFiles(j) /\ SameQueue(j)
    BY <1>3, QueueUnchanged DEF SameFiles, OnlyFilesOf, JobsFit, JobFits, QueueFits
  <2>2. SameHands(j)
    BY <1>1, <1>2 DEF SameHands, HeldByApproval, EditHolds, Newest
  <2> QED BY <1>3, <2>1, <2>2, Elsewhere DEF IInv, JobsFit
<1>4. ASSUME p \notin crossed PROVE JobFits(p)'
  <2>1. /\ JobFits(p) /\ ~Working(p) /\ ~HeldByApproval(p) /\ p \notin recovery.todo
        /\ disk[p] # Nothing /\ \A f \in Edits : EditHolds(f, p) => f = e
    BY <1>4, EditAlone
  <2>2. Gone(p)
    BY <2>1, StillOut DEF JobFits, QueueFits
  <2>3. /\ \A f \in Edits : ~EditHolds(f, p)'
        /\ ~HeldByApproval(p)' /\ p \notin recovery'.todo /\ ~Working(p)'
    BY <1>1, <2>1, <2>2 DEF EditHolds, HeldByApproval, Gone, Working
  <2>4. HandsFit(p)'
    BY <2>3 DEF HandsFit, OneHand, EditFits, ApprovalFits, RecoveryFits, HeldByEdit, EditHolds
  <2>5. OnFile(p)' /\ Watched(p)'
    BY <1>2, <2>1, <2>3 DEF JobFits, OnFile, Watched
  <2>6. \A f \in Accepted(p)' \ threw' : disk'[p] # Nothing /\ f \in disk'[p].edits
    BY <1>2, <2>1 DEF JobFits, Kept, Working
  <2> QED BY <2>2, <2>4, <2>5, <2>6, OutOfLineFits
<1> QED BY <1>3, <1>4 DEF JobsFit

\* The request of edit e writes its scratch file, or is refused.
LEMMA FitEditPut ==
  ASSUME IInv, JobsFit, NEW e \in Edits, EditPut(e) PROVE JobsFit'
<1>0. PICK p \in Jobs : p = edits[e].job
  BY DEF IInv, EditsOK
<1>1. /\ UNCHANGED <<queue, recovered, recovery, approval, threw, crossed, dropped>>
      /\ edits[e].pc = "put" /\ OnlyFilesOf(p)
  BY <1>0, FilesOfOne DEF EditPut, IInv, history
<1>2. CASE WriteFails /\ Refuse(e)
  BY <1>0, <1>1, <1>2, FitRefuse DEF WriteFails, files
<1>3. CASE WriteScratch(p, edits[e].rec) /\ edits' = [edits EXCEPT ![e].pc = "move"]
  <2>1. /\ edits'[e].pc = "move" /\ edits'[e].job = p /\ edits'[e].rec = edits[e].rec
        /\ \A f \in Edits \ {e} : edits'[f] = edits[f]
        /\ disk' = disk /\ scratch'[p] = edits[e].rec
    BY <1>0, <1>3, Published DEF IInv, EditsOK
  <2>2. \A j \in Jobs : Accepted(j)' = Accepted(j) /\ (ScanHas(j)' <=> ScanHas(j))
    BY <1>1, <2>1 DEF Accepted, ScanHas
  <2>3. ASSUME NEW j \in Jobs \ crossed, j # p PROVE JobFits(j)'
    <3>1. SameFiles(j) /\ SameQueue(j)
      BY <1>1, <2>3, QueueUnchanged DEF SameFiles, OnlyFilesOf, JobsFit, JobFits, QueueFits
    <3>2. SameHands(j)
      BY <1>1, <2>1, <2>2, <2>3 DEF SameHands, HeldByApproval, EditHolds, Newest
    <3> QED BY <2>3, <3>1, <3>2, Elsewhere DEF IInv, JobsFit
  <2>4. ASSUME p \notin crossed PROVE JobFits(p)'
    <3>1. /\ JobFits(p) /\ EditHolds(e, p) /\ Held(p) /\ ~Working(p)
          /\ ~HeldByApproval(p) /\ p \notin recovery.todo
          /\ disk[p] # Nothing /\ \A f \in Edits : EditHolds(f, p) => f = e
      BY <1>0, <1>1, <2>4, EditAlone
    <3>2. Gone(p)
      BY <1>1, <3>1, StillOut DEF JobFits, QueueFits
    <3>3. /\ \A f \in Edits : EditHolds(f, p)' => f = e
          /\ ~HeldByApproval(p)' /\ p \notin recovery'.todo /\ ~Working(p)'
      BY <1>1, <2>1, <3>1, <3>2 DEF EditHolds, HeldByApproval, Gone, Working
    <3>4. HandsFit(p)'
      <4>1. OneHand(p)'
        BY <3>3 DEF OneHand
      <4>2. EditFits(p)'
        BY <1>1, <2>1, <2>2, <3>1, <3>3 DEF JobFits, HandsFit, EditFits
      <4> QED BY <3>3, <4>1, <4>2 DEF HandsFit, ApprovalFits, RecoveryFits
    <3>5. OnFile(p)' /\ Watched(p)'
      BY <1>1, <2>1, <2>2, <3>1, <3>3 DEF JobFits, OnFile, Watched
    <3>6. \A f \in Accepted(p)' \ threw' : disk'[p] # Nothing /\ f \in disk'[p].edits
      BY <1>1, <2>1, <2>2, <3>1 DEF JobFits, Kept, Working
    <3> QED BY <3>2, <3>4, <3>5, <3>6, OutOfLineFits
  <2> QED BY <1>1, <2>3, <2>4 DEF JobsFit
<1> QED BY <1>0, <1>2, <1>3 DEF EditPut

\* It renames the file into place and joins the line, or is refused.
LEMMA FitEditMove ==
  ASSUME IInv, JobsFit, NEW e \in Edits, EditMove(e) PROVE JobsFit'
<1>0. PICK p \in Jobs : p = edits[e].job
  BY DEF IInv, EditsOK
<1>1. /\ edits[e].pc = "move" /\ edits[e].rec \in Unsigned /\ edits[e].rec \in Record
      /\ UNCHANGED <<recovered, recovery, approval, threw, crossed>> /\ OnlyFilesOf(p)
  BY <1>0, Kinds, FilesOfOne DEF EditMove, IInv, EditsOK
<1>2. PICK item \in UnsignedPending :
        item = [job |-> p, kind |-> "edit", decisions |-> {e}, rec |-> edits[e].rec]
  BY <1>1 DEF UnsignedPending
<1>3. /\ item.job = p /\ item.kind = "edit" /\ item.rec = edits[e].rec
      /\ item.decisions = {e}
  BY <1>2
<1>4. CASE RenameFails(p) /\ Refuse(e) /\ UNCHANGED <<queue, dropped>>
  BY <1>0, <1>1, <1>4, Published, FitRefuse DEF IInv
<1>5. CASE /\ Rename(p) /\ Enqueue(item)
           /\ edits' = [edits EXCEPT ![e] = [@ EXCEPT !.pc = "queued", !.rec = Nothing]]
  <2>1. /\ edits'[e].pc = "queued" /\ edits'[e].job = p
        /\ \A f \in Edits \ {e} : edits'[f] = edits[f]
        /\ dropped' = dropped \ {p}
    BY <1>0, <1>3, <1>5 DEF IInv, EditsOK, Enqueue
  <2>2. /\ Accepted(p)' = Accepted(p) \cup {e}
        /\ \A j \in Jobs \ {p} : Accepted(j)' = Accepted(j)
        /\ \A j \in Jobs : ScanHas(j)' <=> ScanHas(j)
    BY <1>1, <1>0, <2>1 DEF Accepted, ScanHas
  <2>3. ASSUME NEW j \in Jobs \ crossed, j # p PROVE JobFits(j)'
    <3>1. SameFiles(j)
      BY <1>1, <2>1, <2>3 DEF SameFiles, OnlyFilesOf
    <3>2. SameQueue(j)
      BY <1>3, <1>5, <2>3, EnqueueElsewhere DEF IInv, JobsFit, JobFits, QueueFits
    <3>3. SameHands(j)
      BY <1>1, <2>1, <2>2, <2>3 DEF SameHands, HeldByApproval, EditHolds, Newest
    <3> QED BY <2>3, <3>1, <3>2, <3>3, Elsewhere DEF IInv, JobsFit
  <2>4. ASSUME p \notin crossed PROVE JobFits(p)'
    <3>1. /\ JobFits(p) /\ EditHolds(e, p) /\ ~Working(p)
          /\ ~HeldByApproval(p) /\ p \notin recovery.todo
          /\ disk[p] # Nothing /\ \A f \in Edits : EditHolds(f, p) => f = e
      BY <1>0, <1>1, <2>4, EditAlone
    <3>2. /\ scratch[p] = item.rec /\ p \notin EngineOne
          /\ item.rec.stage # "deployment_ready"
          /\ item.rec.edits \subseteq Accepted(p)
          /\ disk[p].edits \ threw \subseteq item.rec.edits
      BY <1>1, <1>3, <3>1 DEF JobFits, HandsFit, EditFits
    <3>3. item.rec # Nothing /\ disk'[p] = item.rec
      BY <1>1, <1>3, <1>5, <3>2, Kinds, Published DEF IInv
    <3>4. p \notin running
      BY <3>1 DEF JobFits, QueueFits, OneSeat, Working, AtWorkOn
    <3>5. Joined(p, item)
      BY <1>3, <1>5, <3>1, <3>4, EnqueueJoins DEF IInv
    <3>6. ~Held(p)'
      BY <1>1, <2>1, <3>1 DEF Held, HeldByEdit, HeldByApproval, EditHolds
    <3>7. LineFits(p, item)'
      BY <1>2, <1>3, <2>2, <3>2, <3>3 DEF LineFits
    <3>8. OnFile(p)'
      BY <2>2, <3>2, <3>3 DEF OnFile
    <3>9. \A f \in Accepted(p)' : f \in threw' \/ f \in disk'[p].edits \/ f \in item.decisions
      BY <1>1, <1>3, <2>2, <3>1, <3>2, <3>3 DEF JobFits, Kept, Working
    <3> QED BY <1>3, <3>5, <3>6, <3>7, <3>8, <3>9, JoinedFits
  <2> QED BY <1>1, <2>3, <2>4 DEF JobsFit
<1> QED BY <1>0, <1>2, <1>4, <1>5 DEF EditMove

\* An approval signs a copy, and crosses with whoever holds the job.
LEMMA FitApproveRead ==
  ASSUME IInv, JobsFit, NEW p \in Jobs, ApproveRead(p) PROVE JobsFit'
<1>1. disk[p] \in Record
  BY OnDisk, Kinds DEF IInv, ApproveRead, Nothing
<1>2. /\ UNCHANGED <<files, queue, recovered, recovery, edits, threw, dropped>>
      /\ approval.pc = "idle" /\ disk[p].stage = "deployment_ready"
      /\ approval'.pc = "put" /\ approval'.job = p
      /\ approval'.rec.stage = disk[p].stage /\ approval'.rec.spec = disk[p].spec
      /\ approval'.rec.edits = disk[p].edits
      /\ crossed' = IF Held(p) THEN crossed \cup {p} ELSE crossed
  BY <1>1 DEF ApproveRead, Record
<1>3. \A j \in Jobs : Accepted(j)' = Accepted(j) /\ (ScanHas(j)' <=> ScanHas(j))
  BY <1>2 DEF Accepted, ScanHas
<1>4. ASSUME NEW j \in Jobs \ crossed, j # p PROVE JobFits(j)'
  <2>1. SameFiles(j) /\ SameQueue(j)
    BY <1>2, <1>4, FilesUnchanged, QueueUnchanged DEF JobsFit, JobFits, QueueFits
  <2>2. SameHands(j)
    BY <1>2, <1>3, <1>4 DEF SameHands, HeldByApproval, Newest
  <2> QED BY <1>4, <2>1, <2>2, Elsewhere DEF IInv, JobsFit
<1>5. ASSUME p \notin crossed' PROVE JobFits(p)'
  <2>1. JobFits(p) /\ ~Held(p)
    BY <1>2, <1>5 DEF JobsFit
  <2>2. ~Working(p) /\ disk[p] # Nothing /\ disk' = disk
    BY <1>2, <2>1 DEF JobFits, OnFile, files, Nothing
  <2>3. Gone(p)
    BY <1>2, <2>1, <2>2, StillOut DEF JobFits, QueueFits
  <2>4. ~HeldByEdit(p)' /\ p \notin recovery'.todo /\ ~Working(p)'
    BY <1>2, <2>1, <2>3, HeldHands DEF HeldByEdit, Gone, Working
  <2>5. HandsFit(p)'
    <3>1. OneHand(p)'
      BY <2>4 DEF OneHand, HeldByEdit, EditHolds
    <3>2. EditFits(p)' /\ RecoveryFits(p)'
      BY <2>4 DEF EditFits, RecoveryFits, HeldByEdit, EditHolds
    <3>3. ApprovalFits(p)'
      BY <1>2, <1>3, <2>1, <2>2 DEF ApprovalFits, JobFits, OnFile
    <3> QED BY <3>1, <3>2, <3>3 DEF HandsFit
  <2>6. OnFile(p)' /\ Watched(p)'
    BY <1>2, <1>3, <2>1, <2>2, <2>4 DEF JobFits, OnFile, Watched, Unfinished, isTerminal
  <2>7. \A e \in Accepted(p)' \ threw' : disk'[p] # Nothing /\ e \in disk'[p].edits
    BY <1>2, <1>3, <2>1, <2>2 DEF JobFits, Kept, Working
  <2> QED BY <2>3, <2>5, <2>6, <2>7, OutOfLineFits
<1> QED BY <1>2, <1>4, <1>5 DEF JobsFit

LEMMA FitApprove == IInv /\ JobsFit /\ Approve => JobsFit'
<1> SUFFICES ASSUME IInv, JobsFit, Approve PROVE JobsFit'
  OBVIOUS
<1>0. PICK p \in Jobs : p = approval.job
  BY DEF IInv, ApprovalOK
<1>1. /\ UNCHANGED <<queue, recovered, recovery, edits, threw, crossed, dropped>>
      /\ approval.pc \in {"put", "move"}
      /\ approval.rec \in Sound /\ approval.rec \in Record
  BY Kinds DEF Approve, ApprovePut, ApproveMove, history, IInv, ApprovalOK
<1>2. \/ /\ approval.pc = "put" /\ WriteScratch(p, approval.rec)
         /\ approval'.pc = "move" /\ approval'.job = p /\ approval'.rec = approval.rec
      \/ approval.pc = "put" /\ WriteFails /\ approval'.pc = "idle"
      \/ approval.pc = "move" /\ approval'.pc = "idle" /\ (Rename(p) \/ RenameFails(p))
  BY <1>0 DEF Approve, ApprovePut, ApproveMove, IInv, ApprovalOK, IdleRequest
<1>3. OnlyFilesOf(p)
  BY <1>2, FilesOfOne DEF IInv
<1>4. \A j \in Jobs : Accepted(j)' = Accepted(j) /\ (ScanHas(j)' <=> ScanHas(j))
  BY <1>1 DEF Accepted, ScanHas
<1>5. ASSUME NEW j \in Jobs \ crossed, j # p PROVE JobFits(j)'
  <2>1. SameFiles(j) /\ SameQueue(j)
    BY <1>1, <1>3, <1>5, QueueUnchanged DEF SameFiles, OnlyFilesOf, JobsFit, JobFits, QueueFits
  <2>2. SameHands(j)
    BY <1>1, <1>2, <1>4, <1>5 DEF SameHands, HeldByApproval, Newest
  <2> QED BY <1>5, <2>1, <2>2, Elsewhere DEF IInv, JobsFit
<1>6. ASSUME p \notin crossed PROVE JobFits(p)'
  <2>1. JobFits(p) /\ HeldByApproval(p) /\ Held(p)
    BY <1>0, <1>1, <1>6 DEF JobsFit, HeldByApproval, Held
  <2>2. ~Working(p) /\ ~HeldByEdit(p) /\ p \notin recovery.todo
    BY <2>1 DEF JobFits, HandsFit, OneHand
  <2>3. Gone(p)
    BY <1>1, <2>1, <2>2, StillOut DEF JobFits, QueueFits
  <2>4. ~HeldByEdit(p)' /\ p \notin recovery'.todo /\ ~Working(p)'
    BY <1>1, <2>2, <2>3 DEF HeldByEdit, Gone, Working
  <2>5. /\ approval.pc = "move" => scratch[p] = approval.rec
        /\ approval.rec.stage = "deployment_ready"
        /\ p \in EngineOne => ~approval.rec.spec
        /\ approval.rec.edits \subseteq Accepted(p)
        /\ disk[p].edits \ threw \subseteq approval.rec.edits
    BY <2>1 DEF JobFits, HandsFit, ApprovalFits
  <2>6. OneHand(p)' /\ EditFits(p)' /\ RecoveryFits(p)'
    BY <2>4 DEF OneHand, EditFits, RecoveryFits, HeldByEdit, EditHolds
  <2>7. disk[p] # Nothing /\ approval.rec # Nothing
    BY <1>1, <2>1, Kinds DEF JobFits, OnFile
  <2>8. CASE disk' = disk
    <3>1. ApprovalFits(p)'
      <4>1. CASE approval'.pc = "idle"
        BY <4>1 DEF ApprovalFits, HeldByApproval
      <4>2. CASE WriteScratch(p, approval.rec) /\ approval'.pc = "move" /\ approval'.rec = approval.rec
        BY <1>1, <1>4, <2>5, <2>8, <4>2, Published DEF ApprovalFits, IInv
      <4> QED BY <1>2, <4>1, <4>2
    <3>2. OnFile(p)' /\ Watched(p)'
      BY <1>1, <1>4, <2>1, <2>2, <2>4, <2>7, <2>8 DEF JobFits, OnFile, Watched
    <3>3. \A e \in Accepted(p)' \ threw' : disk'[p] # Nothing /\ e \in disk'[p].edits
      BY <1>1, <1>4, <2>1, <2>2, <2>8 DEF JobFits, Kept, Working
    <3> QED BY <2>3, <2>6, <3>1, <3>2, <3>3, OutOfLineFits DEF HandsFit
  <2>9. CASE approval.pc = "move" /\ approval'.pc = "idle" /\ Rename(p)
    <3>1. disk'[p] = approval.rec
      BY <2>5, <2>9, Published DEF IInv
    <3>2. ApprovalFits(p)'
      BY <2>9 DEF ApprovalFits, HeldByApproval
    <3>3. OnFile(p)' /\ Watched(p)'
      BY <1>4, <2>4, <2>5, <2>7, <3>1 DEF OnFile, Watched, Unfinished, isTerminal
    <3>4. \A e \in Accepted(p)' \ threw' : disk'[p] # Nothing /\ e \in disk'[p].edits
      BY <1>1, <1>4, <2>1, <2>2, <2>5, <2>7, <3>1 DEF JobFits, Kept, Working
    <3> QED BY <2>3, <2>6, <3>2, <3>3, <3>4, OutOfLineFits DEF HandsFit
  <2> QED BY <1>2, <2>8, <2>9, Published DEF IInv
<1> QED BY <1>1, <1>5, <1>6 DEF JobsFit

-----------------------------------------------------------------------------
\* The step of an execution: other jobs are left alone, and so are the requests.
LEMMA BuildElsewhere ==
  ASSUME IInv, JobsFit, NEW s \in Slots, builds[s].pc # "free", UNCHANGED requests,
         NEW p \in Jobs, p = builds[s].entry.job,
         \/ Finish(s)
         \/ \E b : Goto(s, b) /\ b.entry = builds[s].entry /\ b.pc # "free",
         OnlyFilesOf(p), threw \subseteq threw', dropped \subseteq dropped',
         NEW j \in Jobs \ crossed, j # p
  PROVE  JobFits(j)'
<1>1. OneSeat(waiting, running, builds, j)
  BY DEF JobsFit, JobFits, QueueFits
<1>2. SameQueue(j)
  BY <1>1, FinishMoves, GotoMoves DEF IInv
<1>3. SameFiles(j)
  BY DEF SameFiles, OnlyFilesOf
<1>4. SameHands(j)
  BY RequestsUnchanged DEF requests
<1> QED BY <1>2, <1>3, <1>4, Elsewhere DEF IInv, JobsFit

\* What is known of an execution of a job no requests crossed on.
LEMMA BuildKnown ==
  ASSUME IInv, JobsFit, NEW s \in Slots, builds[s].pc # "free",
         NEW p \in Jobs \ crossed, p = builds[s].entry.job
  PROVE  /\ JobFits(p) /\ s \in AtWorkOn(p) /\ BuildFits(p, builds[s])
         /\ OneSeat(waiting, running, builds, p)
         /\ disk[p] \in Record /\ disk[p] # Nothing /\ disk[p].stage # "deployment_ready"
         /\ disk[p].edits \subseteq Accepted(p)
         /\ p \in EngineOne => ~disk[p].spec
<1>1. JobFits(p) /\ s \in AtWorkOn(p)
  BY DEF JobsFit, AtWorkOn, Seats
<1>2. Working(p)
  BY <1>1 DEF Working
<1>3. disk[p] \in Record
  BY <1>1, <1>2, OnDisk, Kinds DEF IInv, JobFits, OnFile
<1> QED BY <1>1, <1>2, <1>3 DEF JobFits, QueueFits, OnFile

\* An execution that goes on without a word to the disk.
LEMMA GoesOnQuietly ==
  ASSUME IInv, JobsFit, NEW s \in Slots, builds[s].pc # "free",
         NEW p \in Jobs \ crossed, p = builds[s].entry.job,
         NEW b, Goto(s, b), b.entry = builds[s].entry, b.pc # "free",
         UNCHANGED disk, UNCHANGED requests, BuildFits(p, b)', threw \subseteq threw'
  PROVE  JobFits(p)'
<1>1. JobFits(p) /\ s \in AtWorkOn(p) /\ disk[p] # Nothing
      /\ disk[p].stage # "deployment_ready" /\ (p \in EngineOne => ~disk[p].spec)
      /\ disk[p].edits \subseteq Accepted(p)
      /\ OneSeat(waiting, running, builds, p)
  BY BuildKnown
<1>2. GoesOn(p, s, b)
  BY <1>1, GotoMoves DEF IInv
<1> QED BY <1>1, <1>2, GoesOnFits

\* The last write of execute: the entry's copy, failed.
LEMMA ThrowFits ==
  ASSUME NEW x \in UnsignedExecution
  PROVE  LET b == Throw(x) IN
         /\ b.entry = x.entry /\ b.pc = "put" /\ b.then = "gave_up"
         /\ b.mem.spec = x.entry.rec.spec /\ b.mem.edits = x.entry.rec.edits
         /\ ~Unfinished(b.mem)
<1> DEFINE rec == failJob(x.entry.rec)
<1>1. x.entry.rec \in Record
  BY Kinds DEF UnsignedExecution, UnsignedPending
<1>2. rec.spec = x.entry.rec.spec /\ rec.edits = x.entry.rec.edits /\ rec.stage = "failed"
  BY <1>1 DEF failJob, Record
<1>3. ~Unfinished(rec)
  BY <1>2 DEF Unfinished, isTerminal
<1>4. PICK b : b = Throw(x)
  OBVIOUS
<1>5. b = Save(x, rec, "gave_up")
  BY <1>4 DEF Throw
<1> HIDE DEF rec
<1>6. b.entry = x.entry /\ b.pc = "put" /\ b.then = "gave_up" /\ b.mem = rec
  BY <1>5 DEF Save, UnsignedExecution
<1> QED BY <1>2, <1>3, <1>4, <1>6

\* An execution of a job nobody crossed on that throws is still one that fits:
\* x is the execution as it was when its save failed.
LEMMA ThrownFits ==
  ASSUME IInv, JobsFit, NEW s \in Slots, builds[s].pc # "free",
         NEW p \in Jobs \ crossed, p = builds[s].entry.job,
         NEW x \in UnsignedExecution, x.entry = builds[s].entry,
         Goto(s, Throw(x)), UNCHANGED disk, UNCHANGED requests,
         threw' = threw \cup Accepted(p)
  PROVE  JobFits(p)'
<1>1. PICK b : b = Throw(x)
  OBVIOUS
<1>2. /\ b.entry = builds[s].entry /\ b.pc = "put" /\ b.then = "gave_up"
      /\ b.mem.spec = builds[s].entry.rec.spec /\ b.mem.edits = builds[s].entry.rec.edits
      /\ ~Unfinished(b.mem)
  BY <1>1, ThrowFits
<1>3. BuildFits(p, builds[s]) /\ disk[p].edits \subseteq Accepted(p)
  BY BuildKnown
<1>4. Accepted(p)' = Accepted(p)
  BY RequestsStay
<1>5. BuildFits(p, b)'
  BY <1>2, <1>3, <1>4 DEF BuildFits, BuildHolds
<1>6. Goto(s, b)
  BY <1>1
<1> QED BY <1>2, <1>5, <1>6, GoesOnQuietly

\* A save that fails, of the execution as it was when it tried to save: b.
LEMMA FitSaveFailed ==
  ASSUME IInv, JobsFit, NEW s \in Slots, builds[s].pc # "free",
         NEW p \in Jobs, p = builds[s].entry.job,
         NEW b \in UnsignedExecution, b.entry = builds[s].entry, b.pc # "decide",
         SaveFailed(s, b), p \notin crossed => BuildHolds(p, b),
         UNCHANGED disk, OnlyFilesOf(p), UNCHANGED requests, UNCHANGED crossed
  PROVE  JobsFit'
<1>1. CASE /\ b.then = "gave_up" /\ Finish(s) /\ UNCHANGED threw
           /\ dropped' = dropped \cup {k \in {p} : Unfinished(disk[k])}
  <2>1. ASSUME NEW j \in Jobs \ crossed, j # p PROVE JobFits(j)'
    BY <1>1, <2>1, BuildElsewhere
  <2>2. ASSUME p \notin crossed PROVE JobFits(p)'
    <3>1. /\ JobFits(p) /\ s \in AtWorkOn(p) /\ OneSeat(waiting, running, builds, p)
          /\ disk[p] # Nothing /\ disk[p].edits \subseteq Accepted(p)
          /\ p \in EngineOne => ~disk[p].spec
      BY <2>2, BuildKnown
    <3>2. Gone(p)
      BY <1>1, <3>1, FinishMoves DEF IInv
    <3>3. (disk[p].edits \cup builds[s].entry.decisions) \ threw' = {}
      BY <1>1, <2>2, <3>1 DEF BuildHolds
    <3> QED BY <1>1, <3>1, <3>2, <3>3, GoneFits
  <2> QED BY <2>1, <2>2 DEF JobsFit
<1>2. CASE Goto(s, Save(b, failJob(b.mem), "fail")) /\ UNCHANGED <<threw, dropped>>
  <2>1. PICK x : x = Save(b, failJob(b.mem), "fail")
    OBVIOUS
  <2>2. b.mem \in Record
    BY Kinds DEF UnsignedExecution
  <2>3. /\ x.entry = builds[s].entry /\ x.pc = "put" /\ x.then = "fail"
        /\ x.mem = failJob(b.mem)
    BY <2>1 DEF Save, UnsignedExecution
  <2>4. x.mem.stage = "failed" /\ x.mem.edits = b.mem.edits /\ x.mem.spec = b.mem.spec
    BY <2>2, <2>3 DEF failJob, Record
  <2>5. Goto(s, x)
    BY <1>2, <2>1
  <2>6. ASSUME NEW j \in Jobs \ crossed, j # p PROVE JobFits(j)'
    BY <1>2, <2>3, <2>5, <2>6, BuildElsewhere
  <2>7. ASSUME p \notin crossed PROVE JobFits(p)'
    <3>1. BuildFits(p, x)'
      BY <1>2, <2>3, <2>4, <2>7, RequestsStay
         DEF BuildFits, BuildHolds, Unfinished, isTerminal
    <3> QED BY <1>2, <2>3, <2>5, <2>7, <3>1, GoesOnQuietly
  <2> QED BY <2>6, <2>7 DEF JobsFit
<1>3. CASE Goto(s, Throw(b)) /\ threw' = threw \cup Accepted(p) /\ UNCHANGED dropped
  <2>1. \E x : Goto(s, x) /\ x.entry = builds[s].entry /\ x.pc # "free"
    BY <1>3, ThrowFits
  <2>2. ASSUME NEW j \in Jobs \ crossed, j # p PROVE JobFits(j)'
    BY <1>3, <2>1, <2>2, BuildElsewhere
  <2>3. ASSUME p \notin crossed PROVE JobFits(p)'
    BY <1>3, <2>3, ThrownFits
  <2> QED BY <2>2, <2>3 DEF JobsFit
<1> QED BY <1>1, <1>2, <1>3 DEF SaveFailed

LEMMA FitDecide == ASSUME IInv, JobsFit, NEW s \in Slots, Decide(s) PROVE JobsFit'
<1>0. PICK p \in Jobs : p = builds[s].entry.job
  BY AtWork DEF IInv, Decide
<1>1. /\ builds[s].pc = "decide" /\ builds[s] \in UnsignedExecution
      /\ UNCHANGED <<files, requests, crossed, dropped>> /\ OnlyFilesOf(p)
  BY AtWork DEF IInv, Decide, OnlyFilesOf, files
<1>2. PICK b : b = Save(builds[s], [disk[p] EXCEPT !.signed = {},
                          !.edits = @ \cup builds[s].entry.decisions], "start")
  OBVIOUS
<1>3. \/ disk[p] # Nothing /\ disk[p].spec /\ Goto(s, b) /\ UNCHANGED threw
      \/ Goto(s, Throw(builds[s])) /\ threw' = threw \cup Accepted(p)
  BY <1>0, <1>2 DEF Decide
<1>4. b.entry = builds[s].entry /\ b.pc = "put" /\ b.then = "start"
  BY <1>1, <1>2 DEF Save, UnsignedExecution
<1>5. \E x : Goto(s, x) /\ x.entry = builds[s].entry /\ x.pc # "free"
  BY <1>1, <1>3, <1>4, ThrowFits
<1>6. ASSUME NEW j \in Jobs \ crossed, j # p PROVE JobFits(j)'
  BY <1>0, <1>1, <1>3, <1>5, <1>6, BuildElsewhere
<1>7. ASSUME p \notin crossed PROVE JobFits(p)'
  <2>1. CASE Goto(s, Throw(builds[s])) /\ threw' = threw \cup Accepted(p)
    BY <1>0, <1>1, <1>7, <2>1, ThrownFits DEF files
  <2>2. CASE disk[p].spec /\ Goto(s, b) /\ UNCHANGED threw
    <3>1. /\ disk[p] \in Record /\ disk[p].stage # "deployment_ready"
          /\ disk[p].edits \subseteq Accepted(p) /\ BuildFits(p, builds[s])
          /\ p \in EngineOne => ~disk[p].spec
      BY <1>0, <1>1, <1>7, BuildKnown
    <3>2. /\ b.mem.stage = disk[p].stage
          /\ b.mem.edits = disk[p].edits \cup builds[s].entry.decisions
      BY <1>1, <1>2, <3>1 DEF Save, Record, UnsignedExecution
    <3>3. Accepted(p)' = Accepted(p)
      BY <1>1, RequestsStay
    <3>4. BuildFits(p, b)'
      BY <1>1, <1>4, <2>2, <3>1, <3>2, <3>3 DEF BuildFits, BuildHolds, files
    <3> QED BY <1>0, <1>1, <1>4, <1>7, <2>2, <3>4, GoesOnQuietly DEF files
  <2> QED BY <1>3, <2>1, <2>2
<1> QED BY <1>1, <1>6, <1>7 DEF JobsFit

LEMMA FitDefect == ASSUME IInv, JobsFit, NEW s \in Slots, Defect(s) PROVE JobsFit'
<1>0. PICK p \in Jobs : p = builds[s].entry.job
  BY AtWork DEF IInv, Defect
<1>1. /\ builds[s].pc = "work" /\ builds[s] \in UnsignedExecution
      /\ Goto(s, Throw(builds[s])) /\ threw' = threw \cup Accepted(p)
      /\ UNCHANGED <<files, requests, crossed, dropped>> /\ OnlyFilesOf(p)
  BY <1>0, AtWork DEF IInv, Defect, OnlyFilesOf, files
<1>2. \E x : Goto(s, x) /\ x.entry = builds[s].entry /\ x.pc # "free"
  BY <1>1, ThrowFits
<1>3. ASSUME NEW j \in Jobs \ crossed, j # p PROVE JobFits(j)'
  BY <1>0, <1>1, <1>2, <1>3, BuildElsewhere
<1>4. ASSUME p \notin crossed PROVE JobFits(p)'
  BY <1>0, <1>1, <1>4, ThrownFits DEF files
<1> QED BY <1>1, <1>3, <1>4 DEF JobsFit

LEMMA FitWork == ASSUME IInv, JobsFit, NEW s \in Slots, Work(s) PROVE JobsFit'
<1> DEFINE v1 == builds[s].entry.job \in EngineOne
           saved(stage) == [builds[s].mem EXCEPT !.stage = stage, !.old = FALSE, !.ms = v1,
                              !.spec = @ \/ (stage = "building" /\ ~v1)]
           then(stage) == IF stage = "building" THEN "work" ELSE "end"
           next(stage) == [builds[s] EXCEPT !.mem = saved(stage), !.pc = "move",
                                            !.then = then(stage)]
<1>0. PICK p \in Jobs : p = builds[s].entry.job
  BY AtWork DEF IInv, Work
<1>1. /\ builds[s].pc = "work" /\ builds[s] \in UnsignedExecution
      /\ builds[s].mem \in Unsigned /\ builds[s].mem \in Record
      /\ UNCHANGED requests /\ UNCHANGED crossed
  BY AtWork, Kinds DEF IInv, Work
<1>2. PICK stage \in Outcomes(builds[s].mem) :
        \/ /\ WriteScratch(builds[s].entry.job, saved(stage)) /\ Goto(s, next(stage))
           /\ UNCHANGED <<threw, dropped>>
        \/ WriteFails /\ SaveFailed(s, next(stage))
  BY DEF Work
<1>3. PICK rec : rec = saved(stage)
  OBVIOUS
<1>4. stage \in Stages /\ v1 \in BOOLEAN
      /\ (builds[s].mem.spec \/ (stage = "building" /\ ~v1)) \in BOOLEAN
  BY DEF Outcomes, Stages
<1>5. rec \in Unsigned
  <2> HIDE DEF v1
  <2> QED BY <1>1, <1>3, <1>4 DEF Unsigned, Record
<1>6. rec.stage = stage /\ rec.edits = builds[s].mem.edits
      /\ (v1 /\ ~builds[s].mem.spec => ~rec.spec)
  BY <1>1, <1>3 DEF Record
<1>7. PICK b : b = next(stage)
  OBVIOUS
<1>8. /\ b \in UnsignedExecution /\ b.entry = builds[s].entry /\ b.pc = "move" /\ b.mem = rec
      /\ b.then = IF stage = "building" THEN "work" ELSE "end"
  <2> HIDE DEF saved
  <2> QED BY <1>1, <1>3, <1>5, <1>7 DEF UnsignedExecution
<1>9. \/ WriteScratch(p, rec) /\ Goto(s, b) /\ UNCHANGED <<threw, dropped>>
      \/ WriteFails /\ SaveFailed(s, b)
  BY <1>0, <1>2, <1>3, <1>7
<1> HIDE DEF saved, next
<1>10. ASSUME p \notin crossed PROVE BuildHolds(p, b)
  <2>1. BuildHolds(p, builds[s])
    BY <1>0, <1>1, <1>10, BuildKnown DEF BuildFits
  <2>2. stage # "building" => ~Unfinished(rec)
    BY <1>2, <1>6 DEF Outcomes, Unfinished, isTerminal
  <2> QED BY <1>0, <1>1, <1>6, <1>8, <2>1, <2>2 DEF BuildHolds
<1>11. OnlyFilesOf(p) /\ disk' = disk
  BY <1>9, FilesOfOne, Published DEF IInv
<1>12. CASE WriteFails /\ SaveFailed(s, b)
  BY <1>0, <1>1, <1>8, <1>10, <1>11, <1>12, FitSaveFailed
<1>13. CASE WriteScratch(p, rec) /\ Goto(s, b) /\ UNCHANGED <<threw, dropped>>
  <2>1. ASSUME NEW j \in Jobs \ crossed, j # p PROVE JobFits(j)'
    BY <1>0, <1>1, <1>8, <1>11, <1>13, <2>1, BuildElsewhere
  <2>2. ASSUME p \notin crossed PROVE JobFits(p)'
    <3>1. scratch'[p] = b.mem /\ Accepted(p)' = Accepted(p)
      BY <1>1, <1>8, <1>13, Published, RequestsStay DEF IInv
    <3>2. BuildFits(p, b)'
      BY <1>8, <1>10, <1>11, <1>13, <2>2, <3>1 DEF BuildFits, BuildHolds
    <3> QED BY <1>0, <1>1, <1>8, <1>11, <1>13, <2>2, <3>2, GoesOnQuietly
  <2> QED BY <1>1, <2>1, <2>2 DEF JobsFit
<1> QED BY <1>9, <1>12, <1>13

LEMMA FitBuildPut == ASSUME IInv, JobsFit, NEW s \in Slots, BuildPut(s) PROVE JobsFit'
<1>0. PICK p \in Jobs : p = builds[s].entry.job
  BY AtWork DEF IInv, BuildPut
<1>1. /\ builds[s].pc = "put" /\ builds[s] \in UnsignedExecution
      /\ UNCHANGED requests /\ UNCHANGED crossed
  BY AtWork DEF IInv, BuildPut
<1>2. OnlyFilesOf(p) /\ disk' = disk
  BY <1>0, FilesOfOne, Published DEF IInv, BuildPut
<1>3. ASSUME p \notin crossed PROVE BuildHolds(p, builds[s])
  BY <1>0, <1>1, <1>3, BuildKnown DEF BuildFits
<1>4. CASE WriteFails /\ SaveFailed(s, builds[s])
  BY <1>0, <1>1, <1>2, <1>3, <1>4, FitSaveFailed
<1>5. CASE /\ WriteScratch(p, builds[s].mem) /\ Goto(s, [builds[s] EXCEPT !.pc = "move"])
           /\ UNCHANGED <<threw, dropped>>
  <2>1. PICK b : b = [builds[s] EXCEPT !.pc = "move"]
    OBVIOUS
  <2>2. /\ b.entry = builds[s].entry /\ b.pc = "move" /\ b.mem = builds[s].mem
        /\ b.then = builds[s].then /\ Goto(s, b)
    BY <1>1, <1>5, <2>1 DEF UnsignedExecution
  <2>3. ASSUME NEW j \in Jobs \ crossed, j # p PROVE JobFits(j)'
    BY <1>0, <1>1, <1>2, <1>5, <2>2, <2>3, BuildElsewhere
  <2>4. ASSUME p \notin crossed PROVE JobFits(p)'
    <3>1. scratch'[p] = b.mem /\ Accepted(p)' = Accepted(p)
      BY <1>1, <1>5, <2>2, Published, RequestsStay DEF IInv
    <3>2. BuildFits(p, b)'
      BY <1>1, <1>2, <1>3, <1>5, <2>2, <2>4, <3>1 DEF BuildFits, BuildHolds
    <3> QED BY <1>0, <1>1, <1>2, <1>5, <2>2, <2>4, <3>2, GoesOnQuietly
  <2> QED BY <1>1, <2>3, <2>4 DEF JobsFit
<1> QED BY <1>0, <1>4, <1>5 DEF BuildPut

\* A save that lands: the execution is over, or goes on in its slot.
LEMMA FitBuildMove == ASSUME IInv, JobsFit, NEW s \in Slots, BuildMove(s) PROVE JobsFit'
<1>0. PICK p \in Jobs : p = builds[s].entry.job
  BY AtWork DEF IInv, BuildMove
<1>1. /\ builds[s].pc = "move" /\ builds[s] \in UnsignedExecution
      /\ builds[s].mem \in Unsigned /\ builds[s].mem \in Record
      /\ UNCHANGED requests /\ UNCHANGED crossed
  BY AtWork, Kinds DEF IInv, BuildMove
<1>2. OnlyFilesOf(p)
  BY <1>0, FilesOfOne DEF IInv, BuildMove
<1>3. CASE RenameFails(p) /\ SaveFailed(s, builds[s])
  <2>1. disk' = disk
    BY <1>3, Published DEF IInv
  <2>2. p \notin crossed => BuildHolds(p, builds[s])
    BY <1>0, <1>1, BuildKnown DEF BuildFits
  <2> QED BY <1>0, <1>1, <1>2, <1>3, <2>1, <2>2, FitSaveFailed
<1>4. PICK again : again = Save(builds[s], restartJob(builds[s].mem), "work")
  OBVIOUS
<1>5. PICK on : on = [builds[s] EXCEPT !.pc = "work"]
  OBVIOUS
<1>6. /\ again.entry = builds[s].entry /\ again.pc = "put" /\ again.then = "work"
      /\ again.mem = restartJob(builds[s].mem)
      /\ on.entry = builds[s].entry /\ on.pc = "work" /\ on.mem = builds[s].mem
      /\ on.then = builds[s].then
  BY <1>1, <1>4, <1>5 DEF Save, UnsignedExecution
<1>7. CASE /\ Rename(p) /\ UNCHANGED <<threw, dropped>>
           /\ \/ builds[s].then \in {"end", "fail", "gave_up"} /\ Finish(s)
              \/ builds[s].then = "start" /\ Goto(s, again)
              \/ builds[s].then = "work" /\ Goto(s, on)
  <2>1. ASSUME NEW j \in Jobs \ crossed, j # p PROVE JobFits(j)'
    BY <1>0, <1>1, <1>2, <1>6, <1>7, <2>1, BuildElsewhere
  <2>2. ASSUME p \notin crossed PROVE JobFits(p)'
    <3>1. /\ JobFits(p) /\ s \in AtWorkOn(p) /\ BuildHolds(p, builds[s])
          /\ OneSeat(waiting, running, builds, p) /\ scratch[p] = builds[s].mem
      BY <1>0, <1>1, <2>2, BuildKnown DEF BuildFits
    <3>2. disk'[p] = builds[s].mem /\ disk'[p] # Nothing
      BY <1>1, <1>7, <3>1, Kinds, Published DEF IInv
    <3>3. /\ (disk[p].edits \cup builds[s].entry.decisions) \ threw' \subseteq disk'[p].edits
          /\ disk'[p].edits \subseteq Accepted(p) /\ (p \in EngineOne => ~disk'[p].spec)
          /\ Accepted(p)' = Accepted(p)
      BY <1>1, <1>7, <3>1, <3>2, RequestsStay DEF BuildHolds
    <3>4. CASE builds[s].then \in {"end", "fail", "gave_up"} /\ Finish(s)
      <4>1. Gone(p)
        BY <1>0, <1>1, <3>1, <3>4, FinishMoves DEF IInv
      <4>2. ~Unfinished(disk'[p])
        BY <3>1, <3>2, <3>4 DEF BuildHolds
      <4> QED BY <1>1, <1>7, <3>1, <3>2, <3>3, <4>1, <4>2, GoneFits
    <3>5. CASE builds[s].then = "start" /\ Goto(s, again)
      <4>1. /\ again.mem.edits = builds[s].mem.edits /\ again.mem.spec = builds[s].mem.spec
            /\ again.mem.stage = "prompt_received"
        BY <1>1, <1>6, RestartKeeps
      <4>2. GoesOn(p, s, again)
        BY <1>0, <1>1, <1>6, <3>1, <3>5, GotoMoves DEF IInv
      <4>3. BuildFits(p, again)'
        BY <1>6, <1>7, <3>1, <3>2, <3>3, <4>1 DEF BuildFits, BuildHolds
      <4>4. disk'[p].stage # "deployment_ready"
        BY <3>1, <3>2, <3>5 DEF BuildHolds
      <4> QED BY <1>1, <1>6, <1>7, <3>1, <3>2, <3>3, <4>2, <4>3, <4>4, GoesOnFits
    <3>6. CASE builds[s].then = "work" /\ Goto(s, on)
      <4>1. GoesOn(p, s, on)
        BY <1>0, <1>1, <1>6, <3>1, <3>6, GotoMoves DEF IInv
      <4>2. BuildFits(p, on)'
        BY <1>6, <1>7, <3>1, <3>2, <3>3, <3>6 DEF BuildFits, BuildHolds
      <4>3. disk'[p].stage # "deployment_ready"
        BY <3>1, <3>2, <3>6 DEF BuildHolds
      <4> QED BY <1>1, <1>6, <1>7, <3>1, <3>2, <3>3, <4>1, <4>2, <4>3, GoesOnFits
    <3> QED BY <1>7, <3>4, <3>5, <3>6
  <2> QED BY <1>1, <2>1, <2>2 DEF JobsFit
<1> QED BY <1>0, <1>3, <1>4, <1>5, <1>7 DEF BuildMove

\* A restart empties the queue and every hand; what is on disk stays.
LEMMA FitCrash == IInv /\ JobsFit /\ Crash => JobsFit'
<1> SUFFICES ASSUME IInv, JobsFit, Crash PROVE JobsFit'
  OBVIOUS
<1>1. /\ waiting' = <<>> /\ running' = {} /\ \A s \in Slots : builds'[s].pc = "free"
      /\ recovered' = FALSE /\ recovery'.pc = "idle" /\ recovery'.todo = {}
      /\ approval'.pc = "idle" /\ UNCHANGED crossed
  BY DEF Crash, FreeSlot, IdleRecovery, IdleRequest
<1>2. \A e \in Edits :
        /\ edits'[e].pc \notin {"put", "move"}
        /\ edits'[e].pc = "queued" =>
             /\ edits'[e] = edits[e] /\ disk[edits[e].job] # Nothing
             /\ e \in disk[edits[e].job].edits
        /\ edits[e].pc = "queued" /\ disk[edits[e].job] # Nothing
             /\ e \in disk[edits[e].job].edits => edits'[e] = edits[e]
  BY DEF Crash, OverRequest, IdleRequest
<1>3. ASSUME NEW j \in Jobs \ crossed PROVE JobFits(j)'
  <2>1. disk[j] # Nothing => /\ disk'[j] # Nothing /\ disk'[j].edits = disk[j].edits
                             /\ disk'[j].spec = disk[j].spec
    <3>1. \/ disk'[j] = disk[j]
          \/ Unfinished(disk[j]) /\ disk'[j] = [disk[j] EXCEPT !.old = TRUE]
      BY DEF Crash
    <3>2. ASSUME disk[j] # Nothing PROVE disk[j] \in Record
      BY <3>2, OnDisk, Kinds DEF IInv
    <3>3. ASSUME disk[j] # Nothing
          PROVE  LET rec == [disk[j] EXCEPT !.old = TRUE] IN
                 /\ rec \in Record /\ rec.edits = disk[j].edits /\ rec.spec = disk[j].spec
      BY <3>2, <3>3 DEF Record
    <3> QED BY <3>1, <3>3, Kinds
  <2>2. disk[j] = Nothing => disk'[j] = Nothing
    BY DEF Crash, Unfinished
  <2>3. JobFits(j) /\ (disk[j] # Nothing => disk[j].edits \subseteq Accepted(j))
    BY DEF JobsFit, JobFits, OnFile
  <2>4. ~Held(j)' /\ ~HeldByApproval(j)' /\ ~HeldByEdit(j)' /\ \A e \in Edits : ~EditHolds(e, j)'
    BY <1>1, <1>2 DEF Held, HeldByEdit, HeldByApproval, EditHolds
  <2>5. Gone(j)
    BY <1>1 DEF Gone, OneSeat, InLine, AtWorkOn, Places, Seats
  <2>6. HandsFit(j)'
    BY <1>1, <2>4 DEF HandsFit, OneHand, EditFits, ApprovalFits, RecoveryFits
  <2>7. disk'[j] # Nothing => disk'[j].edits \subseteq Accepted(j)'
    <3>1. disk'[j] # Nothing => disk[j] # Nothing /\ disk'[j].edits = disk[j].edits
      BY <2>1, <2>2
    <3> QED BY <1>2, <2>3, <3>1 DEF Accepted
  <2>8. OnFile(j)' /\ Watched(j)'
    BY <1>1, <2>1, <2>2, <2>3, <2>4, <2>5, <2>7
       DEF OnFile, Watched, Working, Gone, JobFits, ScanHas
  <2>9. \A e \in Accepted(j)' \ threw' : disk'[j] # Nothing /\ e \in disk'[j].edits
    BY <1>2, <2>1 DEF Accepted
  <2> QED BY <2>5, <2>6, <2>8, <2>9, OutOfLineFits
<1> QED BY <1>1, <1>3 DEF JobsFit

LEMMA FitInit == Init => JobsFit
<1> SUFFICES ASSUME Init PROVE JobsFit
  OBVIOUS
<1>1. /\ recovery.pc = "idle" /\ recovery.todo = {} /\ recovered = FALSE
      /\ approval.pc = "idle" /\ \A e \in Edits : edits[e].pc = "idle"
      /\ waiting = <<>> /\ running = {} /\ \A s \in Slots : builds[s].pc = "free"
      /\ \A j \in Jobs : disk[j] = Nothing
  BY DEF Init, IdleRecovery, IdleRequest, FreeSlot
<1>2. ASSUME NEW j \in Jobs PROVE JobFits(j)
  <2>1. ~Held(j) /\ ~HeldByApproval(j) /\ ~HeldByEdit(j) /\ \A e \in Edits : ~EditHolds(e, j)
    BY <1>1 DEF Held, HeldByEdit, HeldByApproval, EditHolds
  <2>2. InLine(j) = {} /\ AtWorkOn(j) = {} /\ ~Working(j)
        /\ OneSeat(waiting, running, builds, j)
    BY <1>1 DEF OneSeat, Working, InLine, AtWorkOn, Places, Seats
  <2>3. HandsFit(j)
    BY <1>1, <2>1 DEF HandsFit, OneHand, EditFits, ApprovalFits, RecoveryFits
  <2>4. Accepted(j) = {}
    BY <1>1 DEF Accepted
  <2> QED BY <1>1, <2>1, <2>2, <2>3, <2>4
          DEF JobFits, OnFile, QueueFits, Watched, Kept, ScanHas
<1> QED BY <1>2 DEF JobsFit

LEMMA FitNext == IInv /\ JobsFit /\ [Next]_vars => JobsFit'
<1> SUFFICES ASSUME IInv, JobsFit, [Next]_vars PROVE JobsFit'
  OBVIOUS
<1>1. CASE UNCHANGED vars
  <2>1. ASSUME NEW j \in Jobs \ crossed PROVE JobFits(j)'
    <3>1. SameFiles(j) /\ SameQueue(j) /\ SameHands(j)
      BY <1>1, FilesUnchanged, QueueUnchanged, RequestsUnchanged
         DEF vars, files, queue, JobsFit, JobFits, QueueFits
    <3> QED BY <3>1, Elsewhere DEF IInv, JobsFit
  <2> QED BY <1>1, <2>1 DEF JobsFit, vars
<1>2. ASSUME NEW s \in Slots, Build(s) PROVE JobsFit'
  BY <1>2, FitDecide, FitWork, FitDefect, FitBuildPut, FitBuildMove DEF Build
<1>3. CASE Recover
  BY <1>3, FitRecoverList, FitRecoverRead, FitRecoverFilter, FitRecoverPut, FitRecoverMove
     DEF Recover
<1>4. ASSUME NEW e \in Edits, Edit(e) PROVE JobsFit'
  BY <1>4, FitEditPut, FitEditMove DEF Edit
<1> QED BY <1>1, <1>2, <1>3, <1>4, FitStartBuild, FitSubmit, FitSubmitFails, FitApprove,
           FitCrash, FitAnswer, FitApproveRead, FitEditRead DEF Next

\* In at most one place, a job loads the queue at most once.
LEMMA LoadOfOne ==
  ASSUME NEW j \in Jobs, OneSeat(waiting, running, builds, j)
  PROVE  Loads(j) <= 1 /\ (j \in running <=> BuildsOf(j) # {})
<1>1. Entries(j) = Places(waiting, j) /\ BuildsOf(j) = Seats(builds, j)
  BY DEF Entries, BuildsOf, Places, Seats
<1>2. ASSUME NEW S, \A x, y \in S : x = y
      PROVE  Cardinality(S) = IF S = {} THEN 0 ELSE 1
  <2>1. CASE S = {}
    BY <2>1, FS_EmptySet
  <2>2. CASE S # {}
    <3>1. PICK x : S = {x}
      BY <1>2, <2>2
    <3> QED BY <2>2, <3>1, FS_Singleton
  <2> QED BY <2>1, <2>2
<1>3. /\ Cardinality(Entries(j)) = IF Entries(j) = {} THEN 0 ELSE 1
      /\ Cardinality(BuildsOf(j)) = IF BuildsOf(j) = {} THEN 0 ELSE 1
  BY <1>1, <1>2 DEF OneSeat
<1> QED BY <1>1, <1>3 DEF Loads, OneSeat

LEMMA FitIsEnough == JobsFit => OnlyCrossedBuildTwice /\ NothingStranded
<1> SUFFICES ASSUME JobsFit, NEW j \in Jobs \ crossed
             PROVE  /\ Loads(j) <= 1 /\ (j \in running <=> BuildsOf(j) # {})
                    /\ j \notin dropped /\ Unfinished(disk[j])
                         => \/ Waits(j) \/ BuildsOf(j) # {} \/ ScanHas(j)
                            \/ ~TouchedRecently(disk[j])
  BY DEF OnlyCrossedBuildTwice, NothingStranded
<1>1. JobFits(j)
  BY DEF JobsFit
<1>2. Working(j) <=> Waits(j) \/ BuildsOf(j) # {}
  BY DEF Working, InLine, AtWorkOn, Places, Seats, Waits, BuildsOf
<1> QED BY <1>1, <1>2, LoadOfOne DEF JobFits, QueueFits, Watched

LEMMA FitKeepsEdits == IInv /\ JobsFit => EditsKept
<1> SUFFICES ASSUME IInv, JobsFit, NEW e \in Edits, NEW j, j = edits[e].job,
                    edits[e].pc = "queued", j \notin crossed, e \notin threw
             PROVE  \/ e \in disk[j].edits
                    \/ \E i \in Entries(j) : e \in waiting[i].decisions
                    \/ \E s \in BuildsOf(j) : e \in builds[s].entry.decisions
  BY DEF EditsKept
<1>1. j \in Jobs /\ e \in Accepted(j) \ threw
  BY DEF IInv, EditsOK, Accepted
<1> QED BY <1>1 DEF JobsFit, JobFits, Kept, InLine, AtWorkOn, Places, Seats, Entries, BuildsOf

\* Only a job that two requests held across an await at once is ever in the
\* line or executing twice; for every other, running says what executes.
THEOREM OnlyCrossedTwice == Spec => []OnlyCrossedBuildTwice
BY InitIInv, NextIInv, FitInit, FitNext, FitIsEnough, PTL DEF Spec

\* Whatever reads, writes and listings fail and however many jobs the store
\* holds, an unfinished job nobody crossed on is in line, executing, the scan's
\* to pick up or too old for it; or one of the four errors that dropped records
\* let it go: the code swallows those, so this is the most it keeps.
THEOREM NothingIsStranded == Spec => []NothingStranded
BY InitIInv, NextIInv, FitInit, FitNext, FitIsEnough, PTL DEF Spec

\* An edit that was answered ok is in the record on disk or will be folded into
\* it, whatever is edited, built, approved, restarted or fails in between, but
\* for an execution of its job that throws.
THEOREM EditsAreKept == Spec => []EditsKept
BY InitIInv, NextIInv, FitInit, FitNext, FitKeepsEdits, PTL DEF Spec
=============================================================================
