----------------------------- MODULE XDelivery -----------------------------
(***************************************************************************)
(* How mentions reach the engine: ingest.ts (pollOnce, skipExistingMentions,*)
(* ingestPostId), poller.ts (MentionPoller), the webhook and poll routes,   *)
(* and the two tables that remember what was delivered, x_cursor and        *)
(* x_events.  The engine is reduced to what delivery sees of it: a post is  *)
(* claimed, then settled or given back (XEngine models the rest).           *)
(*                                                                          *)
(* Posts are numbered in the order they were written, as X's ids are.  0 is *)
(* the cursor that was never set.                                           *)
(***************************************************************************)
EXTENDS Naturals, FiniteSets, Sequences, SequencesExt

CONSTANTS LastPost,      \* bound: posts 1 .. LastPost are written
          Addressed,     \* the posts that address the bot (addressesBot)
          Batch,         \* how many mentions one read returns, at most
          Passes,        \* running calls of pollOnce: the poller's, the route's
          Poller,        \* the pass the poller runs
          Hooks,         \* running webhook deliveries
          MaxRestarts    \* bound: process restarts

Posts == 1 .. LastPost

ASSUME DeliveryAssumption ==
  /\ LastPost \in Nat /\ Batch \in Nat \ {0} /\ MaxRestarts \in Nat
  /\ Addressed \subseteq Posts
  /\ Passes \cap Hooks = {} /\ Poller \in Passes

VARIABLES newest,     \* the newest post on the bot's timeline, as X has it
          record,     \* x_mentions by post: "none", "claimed" or "settled"
          turned,     \* posts assertMentionAllowed turned away (no row is kept)
          jumped,     \* history: posts a pass went past while another had them claimed
          cursor,     \* x_cursor.since_id
          events,     \* x_events: the posts whose envelope was marked
          at,         \* the await each caller is at
          todo,       \* the posts it has still to handle, the head in hand
          since,      \* pollOnce: the cursor it read
          mark,       \* pollOnce: the local cursor, 0 for null
          caughtUp,   \* MentionPoller.caughtUp
          resting,    \* MentionPoller.backoffUntil is in the future
          floor,      \* the newest post when skipExistingMentions last read
          restarts

locals == <<at, todo, since, mark>>
poller == <<caughtUp, resting, floor>>
vars   == <<newest, record, turned, jumped, cursor, events, locals, poller, restarts>>

Callers == Passes \cup Hooks

Larger(a, b) == IF a > b THEN a ELSE b

TypeOK ==
  /\ newest \in 0 .. LastPost
  /\ record \in [Posts -> {"none", "claimed", "settled"}]
  /\ turned \subseteq Addressed
  /\ jumped \subseteq Addressed
  /\ cursor \in 0 .. LastPost
  /\ events \subseteq Posts
  /\ at \in [Callers -> {"idle", "skipping", "resolving", "reading", "handling", "working"}]
  /\ todo \in [Callers -> Seq(Posts)]
  /\ since \in [Callers -> 0 .. LastPost]
  /\ mark \in [Callers -> 0 .. LastPost]
  /\ caughtUp \in BOOLEAN /\ resting \in BOOLEAN
  /\ floor \in 0 .. LastPost
  /\ restarts \in 0 .. MaxRestarts

\* The bot may be started on a timeline that has posts already.
Init ==
  /\ newest \in 0 .. LastPost
  /\ record = [p \in Posts |-> "none"]
  /\ turned = {}
  /\ jumped = {}
  /\ cursor = 0
  /\ events = {}
  /\ at = [c \in Callers |-> "idle"]
  /\ todo = [c \in Callers |-> <<>>]
  /\ since = [c \in Callers |-> 0]
  /\ mark = [c \in Callers |-> 0]
  /\ caughtUp = FALSE /\ resting = FALSE
  /\ floor = 0
  /\ restarts = 0

NewPost ==
  /\ newest < LastPost
  /\ newest' = newest + 1
  /\ UNCHANGED <<record, turned, jumped, cursor, events, locals, poller, restarts>>

-----------------------------------------------------------------------------
(* pollOnce, and what the poller wraps around it.                           *)

GoTo(c, await) == at' = [at EXCEPT ![c] = await]

\* A call is over: its locals are gone.
Return(c) ==
  /\ GoTo(c, "idle")
  /\ todo' = [todo EXCEPT ![c] = <<>>]
  /\ since' = [since EXCEPT ![c] = 0]
  /\ mark' = [mark EXCEPT ![c] = 0]

\* advanceCursor moves forward only.
AdvanceCursor(to) == cursor' = Larger(cursor, to)

\* The poller runs one pass at a time, waits out a rate limit, and before its
\* first read jumps the cursor over the timeline it finds.  The route's calls
\* of pollOnce do none of the three.
StartPass(a) ==
  /\ at[a] = "idle"
  /\ a = Poller => ~resting
  /\ GoTo(a, IF a = Poller /\ ~caughtUp THEN "skipping" ELSE "resolving")
  /\ UNCHANGED <<todo, since, mark>>
  /\ UNCHANGED <<newest, record, turned, jumped, cursor, events, poller, restarts>>

\* A bug to catch: the poller is told it caught up, and the cursor is not moved.
SkipNothing(a) ==
  /\ at[a] = "skipping"
  /\ caughtUp' = TRUE
  /\ floor' = newest
  /\ GoTo(a, "resolving")
  /\ UNCHANGED <<newest, record, turned, jumped, cursor, events, todo, since, mark, resting, restarts>>

SkipExisting(a) ==
  /\ at[a] = "skipping"
  /\ AdvanceCursor(newest)
  /\ caughtUp' = TRUE
  /\ floor' = newest
  /\ GoTo(a, "resolving")
  /\ UNCHANGED <<newest, record, turned, jumped, events, todo, since, mark, resting, restarts>>

\* resolveIndeterminate returned: the cursor is read and the timeline asked for.
AskForMentions(a) ==
  /\ at[a] = "resolving"
  /\ since' = [since EXCEPT ![a] = cursor]
  /\ GoTo(a, "reading")
  /\ UNCHANGED <<newest, record, turned, jumped, cursor, events, todo, mark, poller, restarts>>

\* A bug to catch: one more than X has.
OneTooMany(after) == [i \in 1 .. (newest + 1) - after |-> after + i]

\* X answers newest first and keeps what is beyond max_results to itself; the
\* client turns the answer round.
Mentions(after) ==
  LET oldest == Larger(after + 1, (newest + 1) - (IF Batch > newest THEN newest ELSE Batch))
  IN  [i \in 1 .. (newest + 1) - oldest |-> oldest + i - 1]

ReadMentions(a) ==
  /\ at[a] = "reading"
  /\ todo' = [todo EXCEPT ![a] = Mentions(since[a])]
  /\ GoTo(a, "handling")
  /\ UNCHANGED <<newest, record, turned, jumped, cursor, events, since, mark, poller, restarts>>

\* X refuses a read, or the parent of the post in hand: the pass is abandoned
\* with its local cursor.  A rate limit makes the poller wait.
PassThrows(a) ==
  /\ \/ at[a] \in {"skipping", "reading"}
     \/ at[a] = "handling" /\ todo[a] # <<>> /\ Head(todo[a]) \in Addressed
  /\ Return(a)
  /\ IF a = Poller THEN resting' \in BOOLEAN ELSE UNCHANGED resting
  /\ UNCHANGED <<newest, record, turned, jumped, cursor, events, caughtUp, floor, restarts>>


Rested ==
  /\ resting
  /\ resting' = FALSE
  /\ UNCHANGED <<newest, record, turned, jumped, cursor, events, locals, caughtUp, floor, restarts>>

\* After the last post, or the one that stopped the loop.
FinishPass(a) ==
  /\ at[a] = "handling"
  /\ todo[a] = <<>>
  /\ IF mark[a] # 0 THEN AdvanceCursor(mark[a]) ELSE UNCHANGED cursor
  /\ Return(a)
  /\ UNCHANGED <<newest, record, turned, jumped, events, poller, restarts>>

-----------------------------------------------------------------------------
(* One post in hand, whoever is the caller.                                 *)

Holding(c, p) == at[c] = "handling" /\ todo[c] # <<>> /\ Head(todo[c]) = p

\* A bug to catch: the pass puts its cursor behind all it has read.
NextPostOfMany(c) ==
  /\ todo' = [todo EXCEPT ![c] = Tail(@)]
  /\ mark' = [mark EXCEPT ![c] = IF c \in Passes THEN Last(todo[c]) ELSE 0]
  /\ GoTo(c, "handling")
  /\ UNCHANGED since

\* The loop goes on to the next post; a pass puts its cursor behind this one.
NextPost(c) ==
  /\ todo' = [todo EXCEPT ![c] = Tail(@)]
  /\ mark' = [mark EXCEPT ![c] = IF c \in Passes THEN Head(todo[c]) ELSE 0]
  /\ GoTo(c, "handling")
  /\ UNCHANGED since

\* Not addressed to the bot: finished business, and nothing is awaited for it.
PassOver(c, p) ==
  /\ Holding(c, p)
  /\ p \notin Addressed
  /\ NextPost(c)
  /\ UNCHANGED <<newest, record, turned, jumped, cursor, events, poller, restarts>>

\* assertMentionAllowed refuses a blocked or a rate limited account for good.
TurnAway(c, p) ==
  /\ Holding(c, p)
  /\ p \in Addressed
  /\ turned' = turned \cup {p}
  /\ NextPost(c)
  /\ UNCHANGED <<newest, record, jumped, cursor, events, poller, restarts>>

Claim(c, p) ==
  /\ Holding(c, p)
  /\ p \in Addressed
  /\ record[p] = "none"
  /\ record' = [record EXCEPT ![p] = "claimed"]
  /\ GoTo(c, "working")
  /\ UNCHANGED <<newest, turned, jumped, cursor, events, todo, since, mark, poller, restarts>>

\* ALREADY_HANDLED, whether it is settled or another caller still works on it.
Duplicate(c, p) ==
  /\ Holding(c, p)
  /\ p \in Addressed
  /\ record[p] # "none"
  /\ jumped' = jumped \cup {q \in {p} : c \in Passes /\ record[q] = "claimed"}
  /\ NextPost(c)
  /\ UNCHANGED <<newest, record, turned, cursor, events, poller, restarts>>

SettleHead(c) ==
  /\ at[c] = "working"
  /\ record' = [record EXCEPT ![Head(todo[c])] = "settled"]
  /\ NextPost(c)
  /\ UNCHANGED <<newest, turned, jumped, cursor, events, poller, restarts>>

\* A bug to catch: the loop does not stop at a post that should be tried again.
ReleaseGoesOn(c) ==
  /\ at[c] = "working"
  /\ record' = [record EXCEPT ![Head(todo[c])] = "none"]
  /\ NextPost(c)
  /\ UNCHANGED <<newest, turned, jumped, cursor, events, poller, restarts>>

\* A retryable failure.  A pass stops there; a webhook goes on to its next id.
ReleaseHead(c) ==
  /\ at[c] = "working"
  /\ record' = [record EXCEPT ![Head(todo[c])] = "none"]
  /\ todo' = [todo EXCEPT ![c] = IF c \in Passes THEN <<>> ELSE Tail(@)]
  /\ GoTo(c, "handling")
  /\ UNCHANGED <<newest, turned, jumped, cursor, events, since, mark, poller, restarts>>

-----------------------------------------------------------------------------
(* The webhook.  An envelope carries one post, and X may send it any number *)
(* of times; the bytes are the same, so the post stands for the key.        *)

Deliver(k, p) ==
  /\ at[k] = "idle"
  /\ p <= newest
  /\ p \notin events
  /\ events' = events \cup {p}
  /\ todo' = [todo EXCEPT ![k] = <<p>>]
  /\ GoTo(k, "handling")
  /\ UNCHANGED <<newest, record, turned, jumped, cursor, since, mark, poller, restarts>>

\* client.post or mentionFromPost throws: the route answers an error.
HookThrows(k) ==
  /\ at[k] = "handling"
  /\ todo[k] # <<>>
  /\ Return(k)
  /\ UNCHANGED <<newest, record, turned, jumped, cursor, events, poller, restarts>>

HookReturns(k) ==
  /\ at[k] = "handling"
  /\ todo[k] = <<>>
  /\ Return(k)
  /\ UNCHANGED <<newest, record, turned, jumped, cursor, events, poller, restarts>>

\* The tables survive; every running call and the poller's memory are gone.
Restart ==
  /\ restarts < MaxRestarts
  /\ restarts' = restarts + 1
  /\ at' = [c \in Callers |-> "idle"]
  /\ todo' = [c \in Callers |-> <<>>]
  /\ since' = [c \in Callers |-> 0]
  /\ mark' = [c \in Callers |-> 0]
  /\ caughtUp' = FALSE
  /\ resting' = FALSE
  /\ UNCHANGED <<newest, record, turned, jumped, cursor, events, floor>>

-----------------------------------------------------------------------------
PassStep(a) ==
  \/ StartPass(a)
  \/ SkipExisting(a)
  \/ AskForMentions(a)
  \/ ReadMentions(a)
  \/ PassThrows(a)
  \/ FinishPass(a)

PostStep(c, p) ==
  PassOver(c, p) \/ TurnAway(c, p) \/ Claim(c, p) \/ Duplicate(c, p)

HookStep(k) ==
  (\E p \in Posts : Deliver(k, p)) \/ HookThrows(k) \/ HookReturns(k)

Next ==
  \/ NewPost
  \/ \E a \in Passes : PassStep(a)
  \/ \E c \in Callers, p \in Posts : PostStep(c, p)
  \/ \E c \in Callers : SettleHead(c) \/ ReleaseHead(c)
  \/ \E k \in Hooks : HookStep(k)
  \/ Rested
  \/ Restart

Spec == Init /\ [][Next]_vars

\* The poller's timer is chained for ever and a rate limit ends.  An outage of
\* X or of the model ends too: a read, a claim and an answer that keep being
\* tried succeed at last.
Fairness ==
  /\ WF_vars(Rested)
  /\ \A a \in Passes :
       /\ WF_vars(StartPass(a))
       /\ SF_vars(SkipExisting(a))
       /\ WF_vars(AskForMentions(a))
       /\ SF_vars(ReadMentions(a))
       /\ WF_vars(FinishPass(a))
       /\ SF_vars(SettleHead(a))
  /\ \A a \in Passes, p \in Posts :
       /\ WF_vars(PassOver(a, p))
       /\ SF_vars(Claim(a, p))
       /\ SF_vars(Duplicate(a, p))

FairSpec == Spec /\ Fairness

-----------------------------------------------------------------------------
\* Finished business, as the code means it: the post has its answer, or its
\* account was turned away, or it was on the timeline before the bot started.
Finished(p) == record[p] = "settled" \/ p \in turned \/ p <= floor

\* A post addressed to the bot that is neither finished nor claimed.
Open(p) == p <= newest /\ record[p] = "none" /\ ~Finished(p)

\* Somebody has it in hand, or will: a pass will read past the cursor to it, or
\* X's envelope for it has not been used up.
Deliverable(p) ==
  \/ \E c \in Callers : p \in ToSet(todo[c])
  \/ Passes # {} /\ p > cursor
  \/ Hooks # {} /\ p \notin events

\* "The cursor only moves over finished work" and "a mention that failed for a
\* transient reason stops the cursor where it is, so the next pass sees it
\* again" (ingest.ts); releasing a claim "is what lets an outage be retried
\* rather than swallowed" (engine.ts).
NothingSwallowed == \A p \in Addressed : Open(p) => Deliverable(p)

\* Passes of the poller and of the route, a skip and webhooks write the cursor
\* from batches that they read before one another, and it still moves over
\* finished work only, but for one thing: to a pass that meets a post while
\* another caller has it claimed it is a duplicate, and if that other then gives
\* it back it may be behind the cursor.
OnlyOverlapSwallows == \A p \in Addressed \ jumped : Open(p) => Deliverable(p)

\* After a restart the poller answers no post that was already there: "only
\* posts newer than this cursor are a request this process is responsible for"
\* (ingest.ts, skipExistingMentions).
OldPostsStayUnanswered ==
  [][\A p \in Posts :
       /\ record[p] = "none"
       /\ record'[p] = "claimed"
       /\ at[Poller] # "working" /\ at'[Poller] = "working"
       => p > floor]_vars


=============================================================================
