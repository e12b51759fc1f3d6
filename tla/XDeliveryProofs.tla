--------------------------- MODULE XDeliveryProofs ---------------------------
(***************************************************************************)
(* For every timeline, every set of passes and webhook deliveries and any   *)
(* number of restarts: the poller answers no post that was there before it  *)
(* started; and where a read covers the backlog, the cursor is moved over   *)
(* finished posts, and such as another caller had claimed, only.  One pass  *)
(* by itself therefore swallows nothing.                                    *)
(***************************************************************************)
EXTENDS XDelivery, TLAPS

USE DeliveryAssumption

Busy == {"handling", "working"}

\* Who works has the post he works on in hand.
WorkInHand == \A c \in Callers : at[c] = "working" => todo[c] # <<>>

TypeInv == TypeOK /\ WorkInHand

\* What the poller has asked for, and what it was given, is newer than what
\* was on the timeline when it started.
AboveFloor ==
  /\ floor <= cursor
  /\ \A c \in Callers : at[c] = "skipping" => c = Poller
  /\ at[Poller] = "reading" => floor <= since[Poller]
  /\ at[Poller] \in Busy => \A i \in 1 .. Len(todo[Poller]) : floor < todo[Poller][i]

FloorInv == TypeInv /\ AboveFloor

\* A read returns all there is.
Covers == LastPost <= Batch

\* A caller at work has claimed the post it has in hand, alone.
WorkInv ==
  \A c \in Callers :
    at[c] = "working" =>
      /\ record[Head(todo[c])] = "claimed"
      /\ \A d \in Callers \ {c} : at[d] = "working" => Head(todo[d]) # Head(todo[c])

\* A post that is behind a cursor for good, or was jumped over.
Safe(p) == Finished(p) \/ p \in jumped

\* All posts up to p, p included, are safe.
SafeTo(p) == \A q \in Addressed : q <= p => Safe(q)

\* A pass has every post behind its cursors safe, and goes through the others
\* without a gap.
NoGap(a) ==
  /\ at[a] = "reading" => SafeTo(since[a])
  /\ SafeTo(mark[a])
  /\ at[a] \in Busy /\ todo[a] # <<>> =>
       /\ SafeTo(todo[a][1] - 1)
       /\ \A i \in 1 .. Len(todo[a]) : todo[a][i] = todo[a][1] + i - 1

CursorInv == floor <= newest /\ SafeTo(cursor)

SafeInv == TypeInv /\ WorkInv /\ CursorInv /\ \A a \in Passes : NoGap(a)

\* Only one pass delivers.
OnePassOf(a) == Passes = {a} /\ Hooks = {}

\* What one pass finds claimed is left from a restart: no one gives it back.
LeftClaimed(a) ==
  \A p \in jumped :
    record[p] # "none" /\ ~(at[a] = "working" /\ Head(todo[a]) = p)

-----------------------------------------------------------------------------
(* The operators.                                                           *)

\* An answer of X holds posts, each newer than the cursor it was asked after.
LEMMA MentionsAreNewer ==
  ASSUME NEW after \in 0 .. LastPost, newest \in 0 .. LastPost
  PROVE  /\ Mentions(after) \in Seq(Posts)
         /\ \A i \in 1 .. Len(Mentions(after)) : after < Mentions(after)[i]
<1> DEFINE held == IF Batch > newest THEN newest ELSE Batch
           oldest == Larger(after + 1, (newest + 1) - held)
           n == IF newest + 1 >= oldest THEN (newest + 1) - oldest ELSE 0
<1>1. held \in Nat /\ held <= newest
  OBVIOUS
<1>2. oldest \in Nat /\ oldest >= after + 1 /\ oldest >= 1
  BY <1>1 DEF Larger
<1>3. 1 .. (newest + 1) - oldest = 1 .. n /\ n \in Nat
  BY <1>2
<1>4. Mentions(after) = [j \in 1 .. n |-> oldest + j - 1]
  <2>1. Mentions(after) = [j \in 1 .. (newest + 1) - oldest |-> oldest + j - 1]
    BY DEF Mentions
  <2> HIDE DEF oldest, n
  <2> QED
    BY <1>3, <2>1
<1>5. \A j \in 1 .. n : oldest + j - 1 \in Posts /\ after < oldest + j - 1
  BY <1>2 DEF Posts
<1> HIDE DEF n, oldest
<1>6. Mentions(after) \in [1 .. n -> Posts]
  BY <1>4, <1>5
<1>7. Mentions(after) \in Seq(Posts) /\ Len(Mentions(after)) = n
  BY <1>3, <1>6
<1> QED
  BY <1>4, <1>5, <1>7

\* What a sequence of posts loses at its head.
LEMMA TailOfPosts ==
  ASSUME NEW s \in Seq(Posts), s # <<>>
  PROVE  /\ Head(s) \in Posts /\ Head(s) = s[1] /\ Len(s) \in Nat \ {0}
         /\ Tail(s) \in Seq(Posts) /\ Len(Tail(s)) = Len(s) - 1
         /\ \A i \in 1 .. Len(Tail(s)) : Tail(s)[i] = s[i + 1]
  OBVIOUS

\* A call that is over, and a loop that goes on to its next post.
LEMMA ReturnTypes ==
  ASSUME TypeInv, NEW c \in Callers, Return(c)
  PROVE  /\ at' \in [Callers -> {"idle", "skipping", "resolving", "reading", "handling", "working"}]
         /\ todo' \in [Callers -> Seq(Posts)]
         /\ since' \in [Callers -> 0 .. LastPost] /\ mark' \in [Callers -> 0 .. LastPost]
         /\ WorkInHand'
<1>1. <<>> \in Seq(Posts) /\ 0 \in 0 .. LastPost
  OBVIOUS
<1> QED
  BY <1>1 DEF Return, GoTo, TypeInv, TypeOK, WorkInHand

LEMMA NextPostTypes ==
  ASSUME TypeInv, NEW c \in Callers, todo[c] # <<>>, NextPost(c)
  PROVE  /\ at' \in [Callers -> {"idle", "skipping", "resolving", "reading", "handling", "working"}]
         /\ todo' \in [Callers -> Seq(Posts)]
         /\ since' \in [Callers -> 0 .. LastPost] /\ mark' \in [Callers -> 0 .. LastPost]
         /\ WorkInHand'
<1>1. todo[c] \in Seq(Posts)
  BY DEF TypeInv, TypeOK
<1>2. Tail(todo[c]) \in Seq(Posts) /\ Head(todo[c]) \in 0 .. LastPost /\ 0 \in 0 .. LastPost
  <2>1. Tail(todo[c]) \in Seq(Posts) /\ Head(todo[c]) \in Posts
    BY <1>1, TailOfPosts
  <2> QED
    BY <2>1 DEF Posts
<1> QED
  BY <1>2 DEF NextPost, GoTo, TypeInv, TypeOK, WorkInHand

-----------------------------------------------------------------------------
(* Types.                                                                   *)

\* Before a call, and after a restart.
LEMMA IdleTypes ==
  /\ [c \in Callers |-> <<>>] \in [Callers -> Seq(Posts)]
  /\ [c \in Callers |-> 0] \in [Callers -> 0 .. LastPost]
<1>1. <<>> \in Seq(Posts) /\ 0 \in 0 .. LastPost
  OBVIOUS
<1> QED
  BY <1>1

LEMMA TypeInit == Init => TypeInv
<1> SUFFICES ASSUME Init PROVE TypeInv
  OBVIOUS
<1>1. WorkInHand
  BY DEF Init, WorkInHand
<1>2. /\ todo \in [Callers -> Seq(Posts)]
      /\ since \in [Callers -> 0 .. LastPost] /\ mark \in [Callers -> 0 .. LastPost]
  BY IdleTypes, Zenon DEF Init
<1>3. /\ newest \in 0 .. LastPost /\ record = [p \in Posts |-> "none"]
      /\ turned = {} /\ jumped = {} /\ cursor = 0 /\ events = {} /\ at = [c \in Callers |-> "idle"]
      /\ caughtUp = FALSE /\ resting = FALSE /\ floor = 0 /\ restarts = 0
  BY DEF Init
<1>4. 0 \in 0 .. LastPost /\ 0 \in 0 .. MaxRestarts
  OBVIOUS
<1>5. record \in [Posts -> {"none", "claimed", "settled"}]
  BY <1>3
<1>6. at \in [Callers -> {"idle", "skipping", "resolving", "reading", "handling", "working"}]
  BY <1>3
<1> QED
  BY <1>1, <1>2, <1>3, <1>4, <1>5, <1>6, Zenon DEF TypeInv, TypeOK

\* A step of a pass.
LEMMA PassTypes ==
  ASSUME TypeInv, NEW a \in Passes, PassStep(a)
  PROVE  TypeInv'
<1>1. a \in Callers
  BY DEF Callers
<1>2. CASE StartPass(a)
  BY <1>1, <1>2 DEF StartPass, GoTo, poller, TypeInv, TypeOK, WorkInHand
<1>3. CASE SkipExisting(a)
  BY <1>1, <1>3 DEF SkipExisting, AdvanceCursor, Larger, GoTo, TypeInv, TypeOK, WorkInHand
<1>4. CASE AskForMentions(a)
  BY <1>1, <1>4 DEF AskForMentions, GoTo, poller, TypeInv, TypeOK, WorkInHand
<1>5. CASE ReadMentions(a)
  <2>1. since[a] \in 0 .. LastPost /\ newest \in 0 .. LastPost
    BY <1>1 DEF TypeInv, TypeOK
  <2>2. Mentions(since[a]) \in Seq(Posts)
    BY <2>1, MentionsAreNewer
  <2> QED
    BY <1>1, <1>5, <2>2 DEF ReadMentions, GoTo, poller, TypeInv, TypeOK, WorkInHand
<1>6. CASE PassThrows(a)
  <2>1. Return(a)
    BY <1>6 DEF PassThrows
  <2> QED
    BY <1>1, <1>6, <2>1, ReturnTypes DEF PassThrows, TypeInv, TypeOK
<1>7. CASE FinishPass(a)
  <2>1. Return(a)
    BY <1>7 DEF FinishPass
  <2>2. cursor' \in 0 .. LastPost
    BY <1>1, <1>7 DEF FinishPass, AdvanceCursor, Larger, TypeInv, TypeOK
  <2> QED
    BY <1>1, <1>7, <2>1, <2>2, ReturnTypes DEF FinishPass, poller, TypeInv, TypeOK
<1> QED
  BY <1>2, <1>3, <1>4, <1>5, <1>6, <1>7 DEF PassStep

\* A step with a post in hand.
LEMMA PostTypes ==
  ASSUME TypeInv, NEW c \in Callers,
         (\E p \in Posts : PostStep(c, p)) \/ SettleHead(c) \/ ReleaseHead(c)
  PROVE  TypeInv'
<1>1. CASE \E p \in Posts : PassOver(c, p) \/ TurnAway(c, p) \/ Duplicate(c, p)
  <2>1. todo[c] # <<>> /\ NextPost(c)
    BY <1>1 DEF PassOver, TurnAway, Duplicate, Holding
  <2>2. turned' \subseteq Addressed /\ jumped' \subseteq Addressed
    BY <1>1 DEF PassOver, TurnAway, Duplicate, TypeInv, TypeOK
  <2> QED
    BY <1>1, <2>1, <2>2, NextPostTypes
    DEF PassOver, TurnAway, Duplicate, poller, TypeInv, TypeOK
<1>2. ASSUME NEW p \in Posts, Claim(c, p) PROVE TypeInv'
  BY <1>2 DEF Claim, Holding, GoTo, poller, TypeInv, TypeOK, WorkInHand
<1>3. CASE SettleHead(c)
  <2>1. todo[c] # <<>> /\ NextPost(c)
    BY <1>3 DEF SettleHead, TypeInv, WorkInHand
  <2> QED
    BY <1>3, <2>1, NextPostTypes DEF SettleHead, poller, TypeInv, TypeOK
<1>4. CASE ReleaseHead(c)
  <2>1. todo[c] # <<>> /\ todo[c] \in Seq(Posts)
    BY <1>4 DEF ReleaseHead, TypeInv, TypeOK, WorkInHand
  <2>2. <<>> \in Seq(Posts) /\ Tail(todo[c]) \in Seq(Posts)
    BY <2>1, TailOfPosts
  <2> QED
    BY <1>4, <2>2 DEF ReleaseHead, GoTo, poller, TypeInv, TypeOK, WorkInHand
<1> QED
  BY <1>1, <1>2, <1>3, <1>4 DEF PostStep

\* A step of the webhook.
LEMMA HookTypes ==
  ASSUME TypeInv, NEW k \in Hooks, HookStep(k)
  PROVE  TypeInv'
<1>1. k \in Callers
  BY DEF Callers
<1>2. ASSUME NEW p \in Posts, Deliver(k, p) PROVE TypeInv'
  <2>1. <<p>> \in Seq(Posts)
    OBVIOUS
  <2> QED
    BY <1>1, <1>2, <2>1 DEF Deliver, GoTo, poller, TypeInv, TypeOK, WorkInHand
<1>3. CASE HookThrows(k) \/ HookReturns(k)
  <2>1. Return(k)
    BY <1>3 DEF HookThrows, HookReturns
  <2> QED
    BY <1>1, <1>3, <2>1, ReturnTypes DEF HookThrows, HookReturns, poller, TypeInv, TypeOK
<1> QED
  BY <1>2, <1>3 DEF HookStep

LEMMA RestartTypes == TypeInv /\ Restart => TypeInv'
<1> SUFFICES ASSUME TypeInv, Restart PROVE TypeInv'
  OBVIOUS
<1>1. WorkInHand'
  BY DEF Restart, WorkInHand
<1>2. /\ todo' \in [Callers -> Seq(Posts)]
      /\ since' \in [Callers -> 0 .. LastPost] /\ mark' \in [Callers -> 0 .. LastPost]
  BY IdleTypes, Zenon DEF Restart
<1>3. /\ restarts < MaxRestarts /\ restarts' = restarts + 1
      /\ at' = [c \in Callers |-> "idle"] /\ caughtUp' = FALSE /\ resting' = FALSE
      /\ newest' = newest /\ record' = record /\ turned' = turned /\ cursor' = cursor
      /\ jumped' = jumped /\ events' = events /\ floor' = floor
  BY DEF Restart
<1>4. restarts' \in 0 .. MaxRestarts
  BY <1>3 DEF TypeInv, TypeOK
<1>5. at' \in [Callers -> {"idle", "skipping", "resolving", "reading", "handling", "working"}]
  BY <1>3
<1>6. caughtUp' \in BOOLEAN /\ resting' \in BOOLEAN
  BY <1>3
<1> QED
  BY <1>1, <1>2, <1>3, <1>4, <1>5, <1>6, Zenon DEF TypeInv, TypeOK

LEMMA TypeStep == TypeInv /\ [Next]_vars => TypeInv'
<1> SUFFICES ASSUME TypeInv, [Next]_vars PROVE TypeInv'
  OBVIOUS
<1>1. CASE NewPost
  BY <1>1 DEF NewPost, locals, poller, TypeInv, TypeOK, WorkInHand
<1>2. CASE Rested
  BY <1>2 DEF Rested, locals, TypeInv, TypeOK, WorkInHand
<1>3. CASE UNCHANGED vars
  BY <1>3 DEF vars, locals, poller, TypeInv, TypeOK, WorkInHand
<1> QED
  BY <1>1, <1>2, <1>3, PassTypes, PostTypes, HookTypes, RestartTypes DEF Next

\* Every variable of the delivery keeps its type, and a caller at work has a
\* post in hand.
THEOREM DeliveryTypes == Spec => []TypeOK
<1>1. TypeInv => TypeOK
  BY DEF TypeInv
<1> QED
  BY <1>1, TypeInit, TypeStep, PTL DEF Spec

-----------------------------------------------------------------------------
(* The floor.                                                               *)

\* The loop of a caller goes on, or stops, within the posts it was given.
Shortened(c) ==
  /\ Len(todo'[c]) \in Nat
  /\ \A i \in 1 .. Len(todo'[c]) : \E j \in 1 .. Len(todo[c]) : todo'[c][i] = todo[c][j]

LEMMA NextPostShortens ==
  ASSUME TypeInv, NEW c \in Callers, todo[c] # <<>>,
         \/ NextPost(c)
         \/ todo' = [todo EXCEPT ![c] = IF c \in Passes THEN <<>> ELSE Tail(@)]
  PROVE  Shortened(c)
<1>1. todo[c] \in Seq(Posts) /\ todo \in [Callers -> Seq(Posts)]
  BY DEF TypeInv, TypeOK
<1>2. todo'[c] = Tail(todo[c]) \/ todo'[c] = <<>>
  BY <1>1 DEF NextPost
<1>3. CASE todo'[c] = <<>>
  BY <1>3 DEF Shortened
<1>4. CASE todo'[c] = Tail(todo[c])
  <2>1. /\ Len(todo[c]) \in Nat \ {0} /\ Len(Tail(todo[c])) = Len(todo[c]) - 1
        /\ \A i \in 1 .. Len(Tail(todo[c])) : Tail(todo[c])[i] = todo[c][i + 1]
    BY <1>1, TailOfPosts
  <2>2. \A i \in 1 .. Len(Tail(todo[c])) : i + 1 \in 1 .. Len(todo[c])
    BY <2>1
  <2>3. Len(Tail(todo[c])) \in Nat
    BY <2>1
  <2> QED
    BY <1>4, <2>1, <2>2, <2>3 DEF Shortened
<1> QED
  BY <1>2, <1>3, <1>4

LEMMA FloorInit == Init => AboveFloor
  BY DEF Init, AboveFloor, Callers, Busy

\* A step of a pass: the poller skips before it asks, and asks before it reads.
LEMMA PassFloor ==
  ASSUME FloorInv, NEW a \in Passes, PassStep(a)
  PROVE  AboveFloor'
<1>1. /\ a \in Callers /\ Poller \in Callers
      /\ at \in [Callers -> {"idle", "skipping", "resolving", "reading", "handling", "working"}]
      /\ todo \in [Callers -> Seq(Posts)]
      /\ since \in [Callers -> 0 .. LastPost] /\ mark \in [Callers -> 0 .. LastPost]
      /\ cursor \in 0 .. LastPost /\ newest \in 0 .. LastPost /\ floor \in 0 .. LastPost
  BY DEF Callers, FloorInv, TypeInv, TypeOK
<1>2. AboveFloor
  BY DEF FloorInv
<1>3. CASE StartPass(a)
  BY <1>1, <1>2, <1>3 DEF StartPass, GoTo, poller, AboveFloor, Busy
<1>4. CASE SkipExisting(a)
  <2>1. a = Poller /\ at'[Poller] = "resolving"
    BY <1>1, <1>2, <1>4 DEF SkipExisting, GoTo, AboveFloor
  <2>2. floor' <= cursor'
    BY <1>1, <1>4 DEF SkipExisting, AdvanceCursor, Larger
  <2>3. \A c \in Callers : at'[c] = "skipping" => c = Poller
    BY <1>1, <1>2, <1>4 DEF SkipExisting, GoTo, AboveFloor
  <2> QED
    BY <2>1, <2>2, <2>3 DEF AboveFloor, Busy
<1>5. CASE AskForMentions(a)
  BY <1>1, <1>2, <1>5 DEF AskForMentions, GoTo, poller, AboveFloor, Busy
<1>6. CASE ReadMentions(a)
  <2>1. /\ floor' = floor /\ cursor' = cursor /\ since' = since
        /\ at' = [at EXCEPT ![a] = "handling"]
        /\ todo' = [todo EXCEPT ![a] = Mentions(since[a])]
    BY <1>6 DEF ReadMentions, GoTo, poller
  <2>2. \A c \in Callers : at'[c] = "skipping" => c = Poller
    BY <1>1, <1>2, <2>1 DEF AboveFloor
  <2>3. ASSUME a = Poller
        PROVE  \A i \in 1 .. Len(todo'[Poller]) : floor' < todo'[Poller][i]
    <3>1. floor <= since[Poller]
      BY <1>2, <1>6, <2>3 DEF ReadMentions, AboveFloor
    <3>2. since[Poller] \in 0 .. LastPost /\ todo'[Poller] = Mentions(since[Poller])
      BY <1>1, <2>1, <2>3
    <3>3. /\ Mentions(since[Poller]) \in Seq(Posts)
          /\ \A i \in 1 .. Len(Mentions(since[Poller])) : since[Poller] < Mentions(since[Poller])[i]
      BY <1>1, <3>2, MentionsAreNewer
    <3>4. ASSUME NEW i \in 1 .. Len(todo'[Poller]) PROVE floor' < todo'[Poller][i]
      <4>1. todo'[Poller][i] \in Posts /\ since[Poller] < todo'[Poller][i]
        BY <3>2, <3>3, <3>4
      <4>2. todo'[Poller][i] \in Nat
        BY <4>1 DEF Posts
      <4> QED
        BY <1>1, <2>1, <3>1, <3>2, <4>1, <4>2
    <3> QED
      BY <3>4
  <2>4. ASSUME a # Poller
        PROVE  /\ at'[Poller] = at[Poller] /\ todo'[Poller] = todo[Poller]
               /\ since'[Poller] = since[Poller]
    BY <1>1, <2>1, <2>4
  <2>5. a = Poller => at'[Poller] = "handling"
    BY <1>1, <2>1
  <2> QED
    BY <1>2, <2>1, <2>2, <2>3, <2>4, <2>5 DEF AboveFloor, Busy
<1>7. CASE PassThrows(a) \/ FinishPass(a)
  <2>1. /\ floor' = floor
        /\ at' = [at EXCEPT ![a] = "idle"] /\ todo' = [todo EXCEPT ![a] = <<>>]
        /\ since' = [since EXCEPT ![a] = 0]
    BY <1>7 DEF PassThrows, FinishPass, Return, GoTo, poller
  <2>2. cursor' >= cursor /\ cursor' \in Nat
    BY <1>1, <1>7 DEF PassThrows, FinishPass, AdvanceCursor, Larger
  <2> QED
    BY <1>1, <1>2, <2>1, <2>2 DEF AboveFloor, Busy
<1> QED
  BY <1>3, <1>4, <1>5, <1>6, <1>7 DEF PassStep

\* A step with a post in hand.
LEMMA PostFloor ==
  ASSUME FloorInv, NEW c \in Callers,
         (\E p \in Posts : PostStep(c, p)) \/ SettleHead(c) \/ ReleaseHead(c)
  PROVE  AboveFloor'
<1>1. /\ at \in [Callers -> {"idle", "skipping", "resolving", "reading", "handling", "working"}]
      /\ todo \in [Callers -> Seq(Posts)] /\ floor \in 0 .. LastPost
      /\ Poller \in Callers /\ TypeInv
  BY DEF Callers, FloorInv, TypeInv, TypeOK
<1>2. AboveFloor
  BY DEF FloorInv
<1>3. ASSUME NEW p \in Posts, Claim(c, p) PROVE AboveFloor'
  BY <1>1, <1>2, <1>3 DEF Claim, Holding, GoTo, poller, AboveFloor, Busy
<1>4. CASE (\E p \in Posts : PassOver(c, p) \/ TurnAway(c, p) \/ Duplicate(c, p))
             \/ SettleHead(c) \/ ReleaseHead(c)
  <2>1. /\ floor' = floor /\ cursor' = cursor /\ since' = since
        /\ at[c] \in Busy /\ at' = [at EXCEPT ![c] = "handling"]
        /\ \A d \in Callers : d # c => todo'[d] = todo[d]
    BY <1>1, <1>4
    DEF PassOver, TurnAway, Duplicate, SettleHead, ReleaseHead, NextPost, Holding, GoTo,
        poller, Busy
  <2>2. Shortened(c)
    <3>1. todo[c] # <<>>
      BY <1>1, <1>4
      DEF PassOver, TurnAway, Duplicate, SettleHead, ReleaseHead, Holding, TypeInv, WorkInHand
    <3>2. \/ NextPost(c)
          \/ todo' = [todo EXCEPT ![c] = IF c \in Passes THEN <<>> ELSE Tail(@)]
      BY <1>4 DEF PassOver, TurnAway, Duplicate, SettleHead, ReleaseHead
    <3> QED
      BY <1>1, <3>1, <3>2, NextPostShortens
  <2>3. CASE c = Poller
    <3>1. \A i \in 1 .. Len(todo'[Poller]) : floor < todo'[Poller][i]
      BY <1>2, <2>1, <2>2, <2>3 DEF Shortened, AboveFloor
    <3>2. at'[Poller] = "handling" /\ \A d \in Callers : d # Poller => at'[d] = at[d]
      BY <1>1, <2>1, <2>3
    <3> QED
      BY <1>1, <1>2, <2>1, <3>1, <3>2 DEF AboveFloor, Busy
  <2>4. CASE c # Poller
    BY <1>1, <1>2, <2>1, <2>4 DEF AboveFloor, Busy
  <2> QED
    BY <2>3, <2>4
<1> QED
  BY <1>3, <1>4 DEF PostStep

\* No webhook touches the poller's call.
LEMMA HookFloor ==
  ASSUME FloorInv, NEW k \in Hooks, HookStep(k)
  PROVE  AboveFloor'
<1>1. k \in Callers /\ Poller \in Callers /\ k # Poller
  BY DEF Callers
<1>2. /\ at \in [Callers -> {"idle", "skipping", "resolving", "reading", "handling", "working"}]
      /\ todo \in [Callers -> Seq(Posts)] /\ since \in [Callers -> 0 .. LastPost]
      /\ AboveFloor
  BY DEF FloorInv, TypeInv, TypeOK
<1>3. /\ floor' = floor /\ cursor' = cursor
      /\ at'[Poller] = at[Poller] /\ since'[Poller] = since[Poller]
      /\ todo'[Poller] = todo[Poller]
  BY <1>1, <1>2 DEF HookStep, Deliver, HookThrows, HookReturns, Return, GoTo, poller
<1>4. \A c \in Callers : at'[c] = "skipping" => at[c] = "skipping"
  BY <1>1, <1>2 DEF HookStep, Deliver, HookThrows, HookReturns, Return, GoTo
<1> QED
  BY <1>2, <1>3, <1>4 DEF AboveFloor, Busy

LEMMA FloorStep == FloorInv /\ [Next]_vars => FloorInv'
<1> SUFFICES ASSUME FloorInv, [Next]_vars PROVE AboveFloor'
  BY TypeStep DEF FloorInv
<1>1. CASE NewPost \/ Rested \/ UNCHANGED vars
  BY <1>1 DEF NewPost, Rested, vars, locals, poller, FloorInv, AboveFloor
<1>2. CASE Restart
  BY <1>2 DEF Restart, FloorInv, AboveFloor, Callers, Busy
<1> QED
  BY <1>1, <1>2, PassFloor, PostFloor, HookFloor DEF Next

\* "Only posts newer than this cursor are a request this process is responsible
\* for" (ingest.ts, skipExistingMentions): after no restart, beside whatever
\* other passes and hooks, does the poller answer a post that was there before.
THEOREM PollerAnswersNewPosts == Spec => OldPostsStayUnanswered
<1>1. FloorInv /\ [Next]_vars =>
        [\A p \in Posts :
           /\ record[p] = "none"
           /\ record'[p] = "claimed"
           /\ at[Poller] # "working" /\ at'[Poller] = "working"
           => p > floor]_vars
  <2> SUFFICES ASSUME FloorInv, Next, NEW p \in Posts,
                      record[p] = "none", record'[p] = "claimed",
                      at[Poller] # "working", at'[Poller] = "working"
               PROVE  p > floor
    OBVIOUS
  <2>1. /\ Poller \in Callers
        /\ at \in [Callers -> {"idle", "skipping", "resolving", "reading", "handling", "working"}]
        /\ record \in [Posts -> {"none", "claimed", "settled"}]
        /\ todo \in [Callers -> Seq(Posts)] /\ floor \in 0 .. LastPost
    BY DEF Callers, FloorInv, TypeInv, TypeOK
  <2>2. PICK c \in Callers, q \in Posts : Claim(c, q)
    <3>1. ~(NewPost \/ Rested \/ Restart)
      BY <2>1 DEF NewPost, Rested, Restart
    <3>2. \A a \in Passes : ~PassStep(a)
      BY <2>1 DEF PassStep, StartPass, SkipExisting, AskForMentions, ReadMentions, PassThrows,
                  FinishPass, Return, GoTo
    <3>3. \A c \in Callers : ~(SettleHead(c) \/ ReleaseHead(c))
      BY <2>1 DEF SettleHead, ReleaseHead
    <3>4. \A k \in Hooks : ~HookStep(k)
      BY <2>1 DEF HookStep, Deliver, HookThrows, HookReturns
    <3>5. \A c \in Callers, q \in Posts : ~(PassOver(c, q) \/ TurnAway(c, q) \/ Duplicate(c, q))
      BY <2>1 DEF PassOver, TurnAway, Duplicate
    <3> QED
      BY <3>1, <3>2, <3>3, <3>4, <3>5 DEF Next, PostStep
  <2>3. c = Poller /\ q = p
    BY <2>1, <2>2 DEF Claim, GoTo
  <2>4. at[Poller] = "handling" /\ todo[Poller] # <<>> /\ Head(todo[Poller]) = p
    BY <2>2, <2>3 DEF Claim, Holding
  <2>5. todo[Poller][1] = p /\ 1 \in 1 .. Len(todo[Poller])
    BY <2>1, <2>4, TailOfPosts
  <2>6. floor < todo[Poller][1]
    BY <2>4, <2>5 DEF FloorInv, AboveFloor, Busy
  <2> QED
    BY <2>1, <2>5, <2>6 DEF Posts
<1>2. Init => FloorInv
  BY TypeInit, FloorInit DEF FloorInv
<1> QED
  BY <1>1, <1>2, FloorStep, PTL DEF Spec, OldPostsStayUnanswered

-----------------------------------------------------------------------------
(* The cursor.                                                              *)

\* The types the steps below need, of a caller.
LEMMA CallerTypes ==
  ASSUME TypeInv, NEW c \in Callers
  PROVE  /\ at \in [Callers -> {"idle", "skipping", "resolving", "reading", "handling", "working"}]
         /\ todo \in [Callers -> Seq(Posts)] /\ todo[c] \in Seq(Posts)
         /\ since \in [Callers -> 0 .. LastPost] /\ mark \in [Callers -> 0 .. LastPost]
         /\ since[c] \in 0 .. LastPost /\ mark[c] \in 0 .. LastPost
         /\ cursor \in 0 .. LastPost /\ newest \in 0 .. LastPost /\ floor \in 0 .. LastPost
         /\ record \in [Posts -> {"none", "claimed", "settled"}]
         /\ at[c] = "working" => todo[c] # <<>>
         /\ todo[c] # <<>> => Head(todo[c]) \in Posts /\ Head(todo[c]) = todo[c][1]
         /\ \A p \in Addressed : p \in Posts /\ p \in 1 .. LastPost
<1>1. todo[c] # <<>> => Head(todo[c]) \in Posts /\ Head(todo[c]) = todo[c][1]
  BY TailOfPosts DEF TypeInv, TypeOK
<1> QED
  BY <1>1 DEF TypeInv, TypeOK, WorkInHand, Posts

\* An answer leaves nothing out where the read covers the backlog.
LEMMA MentionsAreAll ==
  ASSUME Covers, NEW after \in 0 .. LastPost, newest \in 0 .. LastPost,
         Mentions(after) # <<>>
  PROVE  /\ Mentions(after)[1] = after + 1
         /\ \A i \in 1 .. Len(Mentions(after)) : Mentions(after)[i] = after + i
<1> DEFINE n == IF newest >= after THEN newest - after ELSE 0
<1>1. Larger(after + 1, (newest + 1) - (IF Batch > newest THEN newest ELSE Batch)) = after + 1
  BY DEF Larger, Covers
<1>2. Mentions(after) = [i \in 1 .. (newest + 1) - (after + 1) |-> (after + 1) + i - 1]
  BY <1>1 DEF Mentions
<1>3. n \in Nat /\ 1 .. (newest + 1) - (after + 1) = 1 .. n
  OBVIOUS
<1> HIDE DEF n
<1>4. Mentions(after) = [i \in 1 .. n |-> (after + 1) + i - 1]
  BY <1>2, <1>3
<1>5. Mentions(after) \in Seq(Posts) /\ Len(Mentions(after)) = n
  <2>1. \A i \in 1 .. n : (after + 1) + i - 1 \in Posts
    BY DEF n, Posts
  <2>2. Mentions(after) \in [1 .. n -> Posts]
    BY <1>4, <2>1
  <2> QED
    BY <1>3, <2>2
<1>6. n # 0
  BY <1>5
<1> QED
  BY <1>3, <1>4, <1>5, <1>6

\* A step that writes the rows leaves a caller's claims its own.
LEMMA PostWork ==
  ASSUME TypeInv, WorkInv, NEW c \in Callers,
         (\E p \in Posts : PostStep(c, p)) \/ SettleHead(c) \/ ReleaseHead(c)
  PROVE  WorkInv'
<1> SUFFICES ASSUME NEW d \in Callers, at'[d] = "working"
             PROVE  /\ record'[Head(todo'[d])] = "claimed"
                    /\ \A e \in Callers \ {d} :
                         at'[e] = "working" => Head(todo'[e]) # Head(todo'[d])
  BY DEF WorkInv
<1>1. /\ at \in [Callers -> {"idle", "skipping", "resolving", "reading", "handling", "working"}]
      /\ todo \in [Callers -> Seq(Posts)]
      /\ record \in [Posts -> {"none", "claimed", "settled"}]
      /\ \A e \in Callers : at[e] = "working" => Head(todo[e]) \in Posts
  BY CallerTypes
<1>2. ASSUME NEW p \in Posts, Claim(c, p)
      PROVE  /\ record'[Head(todo'[d])] = "claimed"
             /\ \A e \in Callers \ {d} :
                  at'[e] = "working" => Head(todo'[e]) # Head(todo'[d])
  <2>1. /\ Head(todo[c]) = p /\ record[p] = "none" /\ todo' = todo
        /\ record' = [record EXCEPT ![p] = "claimed"]
        /\ at' = [at EXCEPT ![c] = "working"]
    BY <1>2 DEF Claim, Holding, GoTo
  <2>2. \A e \in Callers \ {c} :
          at'[e] = "working" => at[e] = "working" /\ Head(todo[e]) # p
    BY <1>1, <2>1 DEF WorkInv
  <2> QED
    BY <1>1, <2>1, <2>2 DEF WorkInv
<1>3. CASE (\E p \in Posts : PassOver(c, p) \/ TurnAway(c, p) \/ Duplicate(c, p))
             \/ SettleHead(c) \/ ReleaseHead(c)
  <2>1. /\ at' = [at EXCEPT ![c] = "handling"]
        /\ \A e \in Callers \ {c} : todo'[e] = todo[e]
    BY <1>1, <1>3
    DEF PassOver, TurnAway, Duplicate, SettleHead, ReleaseHead, NextPost, GoTo
  <2>2. \A e \in Callers : at'[e] = "working" => e # c /\ at[e] = "working"
    BY <1>1, <2>1
  <2>3. \/ record' = record
        \/ /\ at[c] = "working"
           /\ \A q \in Posts \ {Head(todo[c])} : record'[q] = record[q]
    BY <1>1, <1>3 DEF PassOver, TurnAway, Duplicate, SettleHead, ReleaseHead
  <2>4. record'[Head(todo[d])] = record[Head(todo[d])]
    BY <1>1, <2>2, <2>3 DEF WorkInv
  <2> QED
    BY <2>1, <2>2, <2>4 DEF WorkInv
<1> QED
  BY <1>2, <1>3 DEF PostStep

LEMMA WorkStep == TypeInv /\ WorkInv /\ [Next]_vars => WorkInv'
<1> SUFFICES ASSUME TypeInv, WorkInv, [Next]_vars PROVE WorkInv'
  OBVIOUS
<1>1. /\ at \in [Callers -> {"idle", "skipping", "resolving", "reading", "handling", "working"}]
      /\ todo \in [Callers -> Seq(Posts)]
  BY DEF TypeInv, TypeOK
<1>2. CASE NewPost \/ Rested \/ UNCHANGED vars
  BY <1>2 DEF NewPost, Rested, vars, locals, WorkInv
<1>3. CASE Restart
  BY <1>3 DEF Restart, WorkInv
<1>4. ASSUME NEW c \in Callers,
             (c \in Passes /\ PassStep(c)) \/ (c \in Hooks /\ HookStep(c))
      PROVE  WorkInv'
  <2>1. /\ record' = record /\ at'[c] # "working"
        /\ \A d \in Callers \ {c} : at'[d] = at[d] /\ todo'[d] = todo[d]
    BY <1>1, <1>4
    DEF PassStep, StartPass, SkipExisting, AskForMentions, ReadMentions, PassThrows,
        FinishPass, HookStep, Deliver, HookThrows, HookReturns, Return, GoTo
  <2> QED
    BY <2>1 DEF WorkInv
<1>5. \A c \in Passes \cup Hooks : c \in Callers
  BY DEF Callers
<1> QED
  BY <1>2, <1>3, <1>4, <1>5, PostWork DEF Next

\* What is safe stays so: a settled row is no one's to give back, and the floor
\* only rises.
LEMMA SafeStays ==
  ASSUME SafeInv, [Next]_vars, NEW q \in Addressed, Safe(q)
  PROVE  Safe(q)'
<1>1. /\ q \in Posts /\ q \in Nat /\ floor \in Nat /\ newest \in Nat /\ floor <= newest
      /\ record \in [Posts -> {"none", "claimed", "settled"}]
  BY DEF SafeInv, CursorInv, TypeInv, TypeOK, Posts
<1>2. floor <= floor'
  BY <1>1
  DEF Next, vars, poller, NewPost, Rested, Restart, PassStep, StartPass, SkipExisting,
      AskForMentions, ReadMentions, PassThrows, FinishPass, PostStep, PassOver, TurnAway,
      Claim, Duplicate, SettleHead, ReleaseHead, HookStep, Deliver, HookThrows, HookReturns
<1>3. turned \subseteq turned' /\ jumped \subseteq jumped'
  BY DEF Next, vars, NewPost, Rested, Restart, PassStep, StartPass, SkipExisting,
      AskForMentions, ReadMentions, PassThrows, FinishPass, PostStep, PassOver, TurnAway,
      Claim, Duplicate, SettleHead, ReleaseHead, HookStep, Deliver, HookThrows, HookReturns
<1>4. record[q] = "settled" => record'[q] = "settled"
  <2> SUFFICES ASSUME record[q] = "settled" PROVE record'[q] = "settled"
    OBVIOUS
  <2>1. ASSUME NEW c \in Callers, SettleHead(c) \/ ReleaseHead(c)
        PROVE  record'[q] = "settled"
    <3>1. at[c] = "working" /\ record[Head(todo[c])] = "claimed"
      BY <2>1 DEF SettleHead, ReleaseHead, SafeInv, WorkInv
    <3> QED
      BY <1>1, <2>1, <3>1 DEF SettleHead, ReleaseHead
  <2>2. ASSUME NEW c \in Callers, NEW p \in Posts, PostStep(c, p)
        PROVE  record'[q] = "settled"
    BY <1>1, <2>2 DEF PostStep, PassOver, TurnAway, Claim, Duplicate
  <2>3. ASSUME NEW a \in Passes, PassStep(a)
        PROVE  record'[q] = "settled"
    BY <2>3
    DEF PassStep, StartPass, SkipExisting, AskForMentions, ReadMentions, PassThrows, FinishPass
  <2>4. ASSUME NEW k \in Hooks, HookStep(k)
        PROVE  record'[q] = "settled"
    BY <2>4 DEF HookStep, Deliver, HookThrows, HookReturns
  <2>5. CASE NewPost \/ Rested \/ Restart \/ UNCHANGED vars
    BY <2>5 DEF NewPost, Rested, Restart, vars
  <2> QED
    BY <2>1, <2>2, <2>3, <2>4, <2>5 DEF Next
<1>5. floor' \in Nat
  BY TypeStep DEF SafeInv, TypeInv, TypeOK
<1> QED
  BY <1>1, <1>2, <1>3, <1>4, <1>5 DEF Safe, Finished

\* So all posts up to one stay safe.
LEMMA SafeToStays ==
  ASSUME SafeInv, [Next]_vars, NEW n, SafeTo(n)
  PROVE  \A q \in Addressed : q <= n => Safe(q)'
  BY SafeStays DEF SafeTo

\* A pass whose locals a step leaves alone goes on without a gap.
LEMMA OthersNoGap ==
  ASSUME SafeInv, [Next]_vars, NEW a \in Passes,
         at'[a] = at[a], todo'[a] = todo[a], since'[a] = since[a], mark'[a] = mark[a]
  PROVE  NoGap(a)'
<1>1. NoGap(a)
  BY DEF SafeInv
<1>2. at[a] = "reading" => \A q \in Addressed : q <= since[a] => Safe(q)'
  BY <1>1, SafeToStays DEF NoGap
<1>3. \A q \in Addressed : q <= mark[a] => Safe(q)'
  BY <1>1, SafeToStays DEF NoGap
<1>4. at[a] \in Busy /\ todo[a] # <<>> =>
        \A q \in Addressed : q <= todo[a][1] - 1 => Safe(q)'
  BY <1>1, SafeToStays DEF NoGap
<1>5. SafeTo(mark[a])' /\ (at[a] = "reading" => SafeTo(since[a])')
  BY <1>2, <1>3 DEF SafeTo
<1>6. at[a] \in Busy /\ todo[a] # <<>> => SafeTo(todo[a][1] - 1)'
  BY <1>4 DEF SafeTo
<1> QED
  BY <1>1, <1>5, <1>6 DEF NoGap

\* The next post becomes the first, and the one before it is safe.
LEMMA NextPostNoGap ==
  ASSUME SafeInv, [Next]_vars, NEW a \in Passes, at[a] \in Busy, todo[a] # <<>>,
         NextPost(a), \A q \in Addressed : q = Head(todo[a]) => Safe(q)'
  PROVE  NoGap(a)'
<1>1. /\ a \in Callers
      /\ at \in [Callers -> {"idle", "skipping", "resolving", "reading", "handling", "working"}]
      /\ todo \in [Callers -> Seq(Posts)] /\ todo[a] \in Seq(Posts)
      /\ mark \in [Callers -> 0 .. LastPost]
      /\ \A p \in Addressed : p \in 1 .. LastPost
  BY CallerTypes DEF SafeInv, Callers
<1>2. PICK h \in 1 .. LastPost :
      /\ h = Head(todo[a]) /\ h = todo[a][1] /\ Len(todo[a]) \in Nat \ {0}
      /\ Len(Tail(todo[a])) = Len(todo[a]) - 1
      /\ \A i \in 1 .. Len(Tail(todo[a])) : Tail(todo[a])[i] = todo[a][i + 1]
      /\ Tail(todo[a]) \in Seq(Posts)
  <2>1. /\ Head(todo[a]) = todo[a][1] /\ Head(todo[a]) \in Posts /\ Len(todo[a]) \in Nat \ {0}
        /\ Len(Tail(todo[a])) = Len(todo[a]) - 1
        /\ \A i \in 1 .. Len(Tail(todo[a])) : Tail(todo[a])[i] = todo[a][i + 1]
        /\ Tail(todo[a]) \in Seq(Posts)
    BY <1>1, TailOfPosts
  <2> QED
    BY <2>1 DEF Posts
<1>3. at'[a] = "handling" /\ todo'[a] = Tail(todo[a]) /\ mark'[a] = h
  BY <1>1, <1>2 DEF NextPost, GoTo
<1>4. /\ SafeTo(h - 1)
      /\ \A i \in 1 .. Len(todo[a]) : todo[a][i] = h + i - 1
  BY <1>2 DEF SafeInv, NoGap
<1>5. \A q \in Addressed : q <= h => Safe(q)'
  <2>1. \A q \in Addressed : q <= h - 1 => Safe(q)'
    BY <1>4, SafeToStays
  <2>2. \A q \in Addressed : q <= h => q <= h - 1 \/ q = h
    BY <1>1, <1>2
  <2> QED
    BY <1>2, <2>1, <2>2
<1>6. ASSUME todo'[a] # <<>>
      PROVE  /\ todo'[a][1] = h + 1
             /\ \A i \in 1 .. Len(todo'[a]) : todo'[a][i] = todo'[a][1] + i - 1
  <2>1. Len(Tail(todo[a])) # 0
    <3>1. Tail(todo[a]) # <<>> /\ Tail(todo[a]) \in Seq(Posts)
      BY <1>2, <1>3, <1>6
    <3>2. \A s \in Seq(Posts) : s # <<>> => Len(s) # 0
      OBVIOUS
    <3> QED
      BY <3>1, <3>2, Zenon
  <2>2. \A i \in 1 .. Len(Tail(todo[a])) : Tail(todo[a])[i] = h + i
    <3> SUFFICES ASSUME NEW i \in 1 .. Len(Tail(todo[a])) PROVE Tail(todo[a])[i] = h + i
      OBVIOUS
    <3>1. i + 1 \in 1 .. Len(todo[a]) /\ i \in Int
      BY <1>2
    <3>2. Tail(todo[a])[i] = h + (i + 1) - 1
      BY <1>2, <1>4, <3>1
    <3> QED
      BY <1>2, <3>1, <3>2
  <2>3. Len(Tail(todo[a])) \in Nat \ {0}
    BY <1>2, <2>1
  <2>4. 1 \in 1 .. Len(Tail(todo[a]))
    <3>1. \A n \in Nat \ {0} : 1 \in 1 .. n
      OBVIOUS
    <3> QED
      BY <2>3, <3>1, Zenon
  <2>5. Tail(todo[a])[1] = h + 1
    BY <2>2, <2>4
  <2>6. \A i \in 1 .. Len(Tail(todo[a])) : h + i = (h + 1) + i - 1
    OBVIOUS
  <2> QED
    BY <1>3, <2>2, <2>5, <2>6
<1>7. SafeTo(mark[a])'
  BY <1>3, <1>5 DEF SafeTo
<1>8. todo'[a] # <<>> => SafeTo(todo[a][1] - 1)'
  <2>1. h + 1 - 1 = h
    BY <1>2
  <2> QED
    BY <1>5, <1>6, <2>1 DEF SafeTo
<1> QED
  BY <1>3, <1>6, <1>7, <1>8 DEF NoGap, Busy

\* A call that is over, or that asked for nothing yet, leaves no gap.
LEMMA IdleNoGap ==
  ASSUME NEW a \in Passes, at'[a] \notin Busy \cup {"reading"}, SafeTo(mark[a])'
  PROVE  NoGap(a)'
  BY DEF NoGap

\* No post is before the first.
LEMMA NothingBefore ==
  ASSUME NEW n, n = 0
  PROVE  SafeTo(n) /\ SafeTo(n)'
<1>1. \A p \in Addressed : p \in Nat \ {0}
  BY DEF Posts
<1> QED
  BY <1>1 DEF SafeTo

\* A step of a pass.
LEMMA PassNoGap ==
  ASSUME SafeInv, Covers, NEW a \in Passes, PassStep(a), [Next]_vars
  PROVE  CursorInv' /\ NoGap(a)'
<1>0. /\ a \in Callers /\ TypeInv
  BY DEF SafeInv, Callers
<1>1. /\ at \in [Callers -> {"idle", "skipping", "resolving", "reading", "handling", "working"}]
      /\ todo \in [Callers -> Seq(Posts)] /\ todo[a] \in Seq(Posts)
      /\ since \in [Callers -> 0 .. LastPost] /\ mark \in [Callers -> 0 .. LastPost]
      /\ cursor \in 0 .. LastPost /\ newest \in 0 .. LastPost /\ floor \in 0 .. LastPost
      /\ since[a] \in 0 .. LastPost /\ mark[a] \in 0 .. LastPost
      /\ \A p \in Addressed : p \in 1 .. LastPost
  BY <1>0, CallerTypes
<1>2. NoGap(a) /\ CursorInv
  BY DEF SafeInv
<1>3. /\ \A q \in Addressed : q <= cursor => Safe(q)'
      /\ \A q \in Addressed : q <= mark[a] => Safe(q)'
  BY <1>2, SafeToStays DEF NoGap, CursorInv
<1>4. cursor' = cursor /\ floor' = floor /\ newest' = newest => CursorInv'
  BY <1>2, <1>3 DEF CursorInv, SafeTo
<1>5. mark'[a] = mark[a] \/ mark'[a] = 0 => SafeTo(mark[a])'
  BY <1>3, NothingBefore DEF SafeTo
<1>6. CASE StartPass(a)
  <2>1. /\ UNCHANGED <<cursor, newest, mark, floor>>
        /\ at'[a] \notin Busy \cup {"reading"}
    BY <1>1, <1>0, <1>6 DEF StartPass, GoTo, poller, Busy
  <2> QED
    BY <1>4, <1>5, <2>1, IdleNoGap
<1>7. CASE SkipExisting(a)
  <2>1. /\ newest' = newest /\ mark' = mark
        /\ floor' = newest /\ cursor' = Larger(cursor, newest)
        /\ at'[a] \notin Busy \cup {"reading"}
    BY <1>1, <1>0, <1>7 DEF SkipExisting, AdvanceCursor, GoTo, Busy
  <2>2. \A q \in Addressed : q <= newest => Safe(q)'
    BY <2>1 DEF Safe, Finished
  <2>3. \A q \in Addressed : q <= Larger(cursor, newest) => Safe(q)'
    BY <1>3, <2>2 DEF Larger
  <2>4. CursorInv'
    BY <1>1, <2>1, <2>3 DEF CursorInv, SafeTo
  <2> QED
    BY <1>5, <2>1, <2>4, IdleNoGap
<1>8. CASE AskForMentions(a)
  <2>1. /\ UNCHANGED <<cursor, newest, mark, floor>>
        /\ at'[a] = "reading" /\ since'[a] = cursor
    BY <1>1, <1>0, <1>8 DEF AskForMentions, GoTo, poller
  <2>2. SafeTo(since[a])'
    BY <1>3, <2>1 DEF SafeTo
  <2> QED
    BY <1>4, <1>5, <2>1, <2>2 DEF NoGap, Busy
<1>9. CASE ReadMentions(a)
  <2>1. /\ UNCHANGED <<cursor, newest, mark, floor>>
        /\ at[a] = "reading" /\ at'[a] = "handling"
        /\ todo'[a] = Mentions(since[a])
    BY <1>1, <1>0, <1>9 DEF ReadMentions, GoTo, poller
  <2>2. \A q \in Addressed : q <= since[a] => Safe(q)'
    BY <1>2, <2>1, SafeToStays DEF NoGap
  <2>3. ASSUME todo'[a] # <<>>
        PROVE  /\ todo'[a][1] = since[a] + 1
               /\ \A i \in 1 .. Len(todo'[a]) : todo'[a][i] = todo'[a][1] + i - 1
               /\ SafeTo(todo[a][1] - 1)'
    <3>1. Mentions(since[a]) # <<>>
      BY <2>1, <2>3
    <3>2. /\ Mentions(since[a])[1] = since[a] + 1
          /\ \A i \in 1 .. Len(Mentions(since[a])) : Mentions(since[a])[i] = since[a] + i
      BY <1>1, <3>1, MentionsAreAll
    <3>3. \A i \in 1 .. Len(Mentions(since[a])) : since[a] + i = (since[a] + 1) + i - 1
      <4>1. Len(Mentions(since[a])) \in Nat
        BY <1>1, MentionsAreNewer
      <4>2. since[a] \in Int
        BY <1>1
      <4> QED
        BY <4>1, <4>2
    <3>4. (since[a] + 1) - 1 = since[a]
      BY <1>1
    <3>5. todo'[a][1] = since[a] + 1
      BY <2>1, <3>2
    <3>6. SafeTo(todo[a][1] - 1)'
      BY <2>2, <3>4, <3>5 DEF SafeTo
    <3> QED
      BY <2>1, <3>2, <3>3, <3>6
  <2> QED
    BY <1>4, <1>5, <2>1, <2>3 DEF NoGap, Busy
<1>10. CASE PassThrows(a)
  <2>1. /\ UNCHANGED <<cursor, newest, floor>>
        /\ at'[a] = "idle" /\ mark'[a] = 0
    BY <1>1, <1>0, <1>10 DEF PassThrows, Return, GoTo
  <2> QED
    BY <1>4, <1>5, <2>1, IdleNoGap DEF Busy
<1>11. CASE FinishPass(a)
  <2>1. /\ UNCHANGED <<newest, floor>>
        /\ at'[a] = "idle" /\ mark'[a] = 0
        /\ cursor' = cursor \/ cursor' = mark[a]
    BY <1>1, <1>0, <1>11 DEF FinishPass, AdvanceCursor, Larger, Return, GoTo, poller
  <2>2. CursorInv'
    BY <1>2, <1>3, <2>1 DEF CursorInv, SafeTo
  <2> QED
    BY <1>5, <2>1, <2>2, IdleNoGap DEF Busy
<1> QED
  BY <1>6, <1>7, <1>8, <1>9, <1>10, <1>11 DEF PassStep

\* A step with a post in hand: it goes on behind what is safe, or stops.
LEMMA PostNoGap ==
  ASSUME SafeInv, [Next]_vars, NEW a \in Passes,
         (\E p \in Posts : PostStep(a, p)) \/ SettleHead(a) \/ ReleaseHead(a)
  PROVE  NoGap(a)'
<1>0. /\ a \in Callers /\ TypeInv
  BY DEF SafeInv, Callers
<1>1. /\ at \in [Callers -> {"idle", "skipping", "resolving", "reading", "handling", "working"}]
      /\ todo \in [Callers -> Seq(Posts)] /\ todo[a] \in Seq(Posts)
      /\ record \in [Posts -> {"none", "claimed", "settled"}]
      /\ todo[a] # <<>> => Head(todo[a]) \in Posts
  BY <1>0, CallerTypes
<1>2. NoGap(a)
  BY DEF SafeInv
<1>3. at[a] \in Busy /\ todo[a] # <<>>
  BY <1>0
  DEF PostStep, PassOver, TurnAway, Claim, Duplicate, Holding, SettleHead, ReleaseHead,
      TypeInv, WorkInHand, Busy
<1>4. CASE (\E p \in Posts : PassOver(a, p) \/ TurnAway(a, p) \/ Duplicate(a, p)) \/ SettleHead(a)
  <2>1. NextPost(a)
    BY <1>4 DEF PassOver, TurnAway, Duplicate, SettleHead
  <2>2. ASSUME NEW q \in Addressed, q = Head(todo[a]) PROVE Safe(q)'
    <3>1. ASSUME NEW p \in Posts, PassOver(a, p) PROVE FALSE
      BY <2>2, <3>1 DEF PassOver, Holding
    <3>2. ASSUME NEW p \in Posts, TurnAway(a, p) PROVE q \in turned'
      BY <2>2, <3>2 DEF TurnAway, Holding
    <3>3. ASSUME NEW p \in Posts, Duplicate(a, p)
          PROVE  q \in jumped' \/ record'[q] = "settled"
      BY <1>1, <2>2, <3>3 DEF Duplicate, Holding
    <3>4. SettleHead(a) => record'[q] = "settled"
      BY <1>1, <1>3, <2>2 DEF SettleHead
    <3> QED
      BY <1>4, <3>1, <3>2, <3>3, <3>4 DEF Safe, Finished
  <2> QED
    BY <1>3, <2>1, <2>2, NextPostNoGap
<1>5. SafeTo(mark[a])' \/ mark'[a] # mark[a]
  <2>1. \A q \in Addressed : q <= mark[a] => Safe(q)'
    BY <1>2, SafeToStays DEF NoGap
  <2> QED
    BY <2>1 DEF SafeTo
<1>6. ASSUME NEW p \in Posts, Claim(a, p) PROVE NoGap(a)'
  <2>1. UNCHANGED <<todo, since, mark>> /\ at'[a] = "working"
    BY <1>0, <1>1, <1>6 DEF Claim, GoTo
  <2>2. \A q \in Addressed : q <= todo[a][1] - 1 => Safe(q)'
    BY <1>2, <1>3, SafeToStays DEF NoGap
  <2>3. SafeTo(todo[a][1] - 1)'
    BY <2>1, <2>2 DEF SafeTo
  <2> QED
    BY <1>2, <1>3, <1>5, <2>1, <2>3 DEF NoGap, Busy
<1>7. CASE ReleaseHead(a)
  <2>1. at'[a] = "handling" /\ todo'[a] = <<>> /\ mark' = mark
    BY <1>0, <1>1, <1>7 DEF ReleaseHead, GoTo
  <2> QED
    BY <1>5, <2>1 DEF NoGap
<1> QED
  BY <1>4, <1>6, <1>7 DEF PostStep

LEMMA SafeInit == Init => SafeInv
<1> SUFFICES ASSUME Init PROVE SafeInv
  OBVIOUS
<1>1. WorkInv
  BY DEF Init, WorkInv
<1>2. SafeTo(cursor) /\ floor <= newest
  BY NothingBefore DEF Init
<1>3. ASSUME NEW a \in Passes PROVE NoGap(a)
  <2>1. at[a] = "idle" /\ mark[a] = 0
    BY DEF Init, Callers
  <2> QED
    BY <2>1, NothingBefore DEF NoGap, Busy
<1> QED
  BY <1>1, <1>2, <1>3, TypeInit DEF SafeInv, CursorInv

LEMMA SafeStep == ASSUME Covers PROVE SafeInv /\ [Next]_vars => SafeInv'
<1> SUFFICES ASSUME SafeInv, [Next]_vars PROVE CursorInv' /\ \A a \in Passes : NoGap(a)'
  BY TypeStep, WorkStep DEF SafeInv
<1>1. /\ newest \in 0 .. LastPost /\ floor \in 0 .. LastPost /\ CursorInv
      /\ at \in [Callers -> {"idle", "skipping", "resolving", "reading", "handling", "working"}]
      /\ todo \in [Callers -> Seq(Posts)]
      /\ since \in [Callers -> 0 .. LastPost] /\ mark \in [Callers -> 0 .. LastPost]
      /\ \A a \in Passes : a \in Callers
  BY DEF SafeInv, TypeInv, TypeOK, Callers
<1>2. cursor' = cursor /\ floor' = floor /\ newest <= newest' /\ newest' \in Nat => CursorInv'
  BY <1>1, SafeToStays DEF CursorInv, SafeTo
<1>3. CASE NewPost \/ Rested \/ UNCHANGED vars
  <2>1. /\ UNCHANGED <<cursor, at, todo, since, mark, floor>>
        /\ newest <= newest' /\ newest' \in Nat
    BY <1>1, <1>3 DEF NewPost, Rested, vars, locals, poller
  <2> QED
    BY <1>2, <2>1, OthersNoGap
<1>4. CASE Restart
  <2>1. /\ UNCHANGED <<cursor, newest, floor>>
        /\ \A a \in Passes : at'[a] = "idle" /\ mark'[a] = 0
    BY <1>1, <1>4 DEF Restart
  <2>2. CursorInv'
    BY <1>1, <1>2, <2>1
  <2>3. ASSUME NEW a \in Passes PROVE NoGap(a)'
    BY <2>1, NothingBefore, IdleNoGap DEF Busy
  <2> QED
    BY <2>2, <2>3
<1>5. ASSUME NEW c \in Callers,
             \/ c \in Passes /\ PassStep(c)
             \/ c \in Hooks /\ HookStep(c)
             \/ \E p \in Posts : PostStep(c, p)
             \/ SettleHead(c) \/ ReleaseHead(c)
      PROVE  \A a \in Passes : a # c => NoGap(a)'
  <2>1. \A d \in Callers \ {c} : /\ at'[d] = at[d] /\ todo'[d] = todo[d]
                                 /\ since'[d] = since[d] /\ mark'[d] = mark[d]
    BY <1>1, <1>5
    DEF PassStep, StartPass, SkipExisting, AskForMentions, ReadMentions, PassThrows,
        FinishPass, HookStep, Deliver, HookThrows, HookReturns, Return, GoTo,
        PostStep, PassOver, TurnAway, Claim, Duplicate, SettleHead, ReleaseHead, NextPost
  <2> QED
    BY <1>1, <2>1, OthersNoGap
<1>6. ASSUME NEW a \in Passes, PassStep(a)
      PROVE  CursorInv' /\ \A b \in Passes : NoGap(b)'
  BY <1>1, <1>5, <1>6, PassNoGap
<1>7. ASSUME NEW c \in Callers,
             \/ \E p \in Posts : PostStep(c, p)
             \/ SettleHead(c) \/ ReleaseHead(c)
      PROVE  CursorInv' /\ \A b \in Passes : NoGap(b)'
  <2>1. UNCHANGED <<cursor, newest, floor>>
    BY <1>7 DEF PostStep, PassOver, TurnAway, Claim, Duplicate, SettleHead, ReleaseHead, poller
  <2>2. CursorInv'
    BY <1>1, <1>2, <2>1
  <2>3. c \in Passes => NoGap(c)'
    BY <1>7, PostNoGap
  <2>4. \A b \in Passes : b # c => NoGap(b)'
    BY <1>5, <1>7
  <2> QED
    BY <2>2, <2>3, <2>4
<1>8. ASSUME NEW k \in Hooks, HookStep(k)
      PROVE  CursorInv' /\ \A b \in Passes : NoGap(b)'
  <2>1. k \in Callers /\ k \notin Passes
    BY DEF Callers
  <2>2. UNCHANGED <<cursor, newest, floor>>
    BY <1>8 DEF HookStep, Deliver, HookThrows, HookReturns, poller
  <2> QED
    BY <1>1, <1>2, <1>5, <1>8, <2>1, <2>2
<1> QED
  BY <1>3, <1>4, <1>6, <1>7, <1>8 DEF Next

\* "The cursor only moves over finished work" (ingest.ts, pollOnce): for any
\* passes and webhook deliveries, whatever fails, is turned away or restarts,
\* where a read covers the backlog, an addressed post that is not finished and
\* that no one has claimed is ahead of the cursor, unless a pass went past it
\* while another caller had it claimed.
THEOREM NothingElseSwallowed ==
  ASSUME Covers, Passes # {}
  PROVE  Spec => []OnlyOverlapSwallows
<1>1. SafeInv => OnlyOverlapSwallows
  <2> SUFFICES ASSUME SafeInv, NEW p \in Addressed \ jumped, Open(p)
               PROVE  p > cursor
    BY DEF OnlyOverlapSwallows, Deliverable
  <2>1. ~Safe(p)
    BY DEF Safe, Open
  <2>2. ~(p <= cursor)
    BY <2>1 DEF SafeInv, CursorInv, SafeTo
  <2> QED
    BY <2>2 DEF SafeInv, TypeInv, TypeOK, Posts
<1> QED
  BY <1>1, SafeInit, SafeStep, PTL DEF Spec

-----------------------------------------------------------------------------
(* One pass at a time.                                                      *)

LEMMA LeftClaimedStep ==
  ASSUME NEW a, OnePassOf(a), SafeInv, LeftClaimed(a), [Next]_vars
  PROVE  LeftClaimed(a)'
<1>0. a \in Callers /\ Callers = {a} /\ TypeInv
  BY DEF OnePassOf, Callers, SafeInv
<1>1. /\ at \in [Callers -> {"idle", "skipping", "resolving", "reading", "handling", "working"}]
      /\ record \in [Posts -> {"none", "claimed", "settled"}]
      /\ jumped \subseteq Posts
      /\ at[a] = "working" => Head(todo[a]) \in Posts
  BY <1>0, CallerTypes DEF TypeInv, TypeOK
<1>2. ASSUME NEW p \in Posts, Claim(a, p) PROVE LeftClaimed(a)'
  <2>1. /\ record[p] = "none" /\ Head(todo[a]) = p /\ todo' = todo
        /\ record' = [record EXCEPT ![p] = "claimed"] /\ jumped' = jumped
    BY <1>2 DEF Claim, Holding
  <2>2. p \notin jumped
    BY <2>1 DEF LeftClaimed
  <2> QED
    BY <1>1, <2>1, <2>2 DEF LeftClaimed
<1>3. ASSUME NEW p \in Posts, Duplicate(a, p) PROVE LeftClaimed(a)'
  <2>1. /\ record[p] # "none" /\ record' = record /\ jumped' \subseteq jumped \cup {p}
        /\ at'[a] = "handling"
    BY <1>0, <1>1, <1>3 DEF Duplicate, NextPost, GoTo
  <2> QED
    BY <2>1 DEF LeftClaimed
<1>4. ASSUME NEW p \in Posts, PassOver(a, p) \/ TurnAway(a, p) PROVE LeftClaimed(a)'
  <2>1. record' = record /\ jumped' = jumped /\ at'[a] = "handling"
    BY <1>0, <1>1, <1>4 DEF PassOver, TurnAway, NextPost, GoTo
  <2> QED
    BY <2>1 DEF LeftClaimed
<1>5. CASE SettleHead(a) \/ ReleaseHead(a)
  <2>1. /\ at[a] = "working" /\ at'[a] = "handling" /\ jumped' = jumped
        /\ \A q \in Posts \ {Head(todo[a])} : record'[q] = record[q]
    BY <1>0, <1>1, <1>5 DEF SettleHead, ReleaseHead, NextPost, GoTo
  <2>2. Head(todo[a]) \notin jumped
    BY <2>1 DEF LeftClaimed
  <2> QED
    BY <1>1, <2>1, <2>2 DEF LeftClaimed
<1>6. CASE PassStep(a) \/ Restart
  <2>1. record' = record /\ jumped' = jumped /\ at'[a] # "working"
    BY <1>0, <1>1, <1>6
    DEF Restart, PassStep, StartPass, SkipExisting, AskForMentions, ReadMentions,
        PassThrows, FinishPass, Return, GoTo
  <2> QED
    BY <2>1 DEF LeftClaimed
<1>7. CASE NewPost \/ Rested \/ UNCHANGED vars
  BY <1>7 DEF NewPost, Rested, vars, locals, LeftClaimed
<1> QED
  BY <1>0, <1>2, <1>3, <1>4, <1>5, <1>6, <1>7 DEF Next, OnePassOf, PostStep

\* "A mention that failed for a transient reason stops the cursor where it is,
\* so the next pass sees it again" (ingest.ts, pollOnce): where one pass at a
\* time delivers and a read covers the backlog, no post is lost, whatever
\* fails, is turned away, or restarts.
THEOREM OnePassSwallowsNothing ==
  ASSUME NEW a, OnePassOf(a), Covers
  PROVE  Spec => []NothingSwallowed
<1>1. Init => LeftClaimed(a)
  BY DEF Init, LeftClaimed
<1>2. SafeInv /\ LeftClaimed(a) => NothingSwallowed
  <2> SUFFICES ASSUME SafeInv, LeftClaimed(a), NEW p \in Addressed, Open(p)
               PROVE  Passes # {} /\ p > cursor
    BY DEF NothingSwallowed, Deliverable
  <2>1. ~Safe(p)
    BY DEF Safe, Open, LeftClaimed
  <2>2. ~(p <= cursor)
    BY <2>1 DEF SafeInv, CursorInv, SafeTo
  <2> QED
    BY <2>2 DEF OnePassOf, SafeInv, TypeInv, TypeOK, Posts
<1>3. SafeInv /\ LeftClaimed(a) /\ [Next]_vars => SafeInv' /\ LeftClaimed(a)'
  BY SafeStep, LeftClaimedStep
<1> QED
  BY <1>1, <1>2, <1>3, SafeInit, PTL DEF Spec

=============================================================================
