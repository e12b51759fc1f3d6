------------------------------ MODULE XEngine ------------------------------
(***************************************************************************)
(* One post becomes at most one market.                                     *)
(*                                                                          *)
(* The mention bot of apps/agen/src/app/lib/x: engine.ts (handleMention,    *)
(* launch, trade, resolveIndeterminate), the tables of store.ts it writes,  *)
(* and as much of the chain as it waits for.  Delivery is not modelled      *)
(* here: a post may be presented to the engine at any time and any number   *)
(* of times, by the poller, the webhook and the poll route at once.         *)
(*                                                                          *)
(* A handler is one running call of handleMention.  The process is a single *)
(* JavaScript thread, so what happens between two awaits is one step and    *)
(* handlers interleave at awaits; pc[h] names the await h is at.            *)
(***************************************************************************)
EXTENDS XBudget, FiniteSets, FiniteSetsExt

CONSTANTS Posts,        \* command posts
          Users,        \* X accounts
          Author,       \* Author[p]: the account that wrote p
          TradePosts,   \* the posts parseCommand reads as a trade
          Handlers,     \* running calls of handleMention
          Resolvers,    \* running calls of resolveIndeterminate
          Tx,           \* create transactions the sponsor may send
          LastDay,      \* UTC days 0 .. LastDay
          SeatGas,      \* what deploying a seat costs
          CreateGas,    \* what a create transaction costs, mined or reverted
          CooldownOn,   \* perUserCooldownSeconds > 0
          MaxCrashes,   \* bound: process deaths
          MaxSwaps,     \* bound: swaps filled for one post
          Faults,       \* the failures and operator acts this instance has
          NoPost, NoTx

FaultKinds ==
  {"lost_reply",     \* the node takes a transaction and the call still throws
   "seat_failure",   \* ensureSeat throws
   "reply_failure",  \* X refuses the reply that announces a market or a trade
   "force_idle",     \* GET /api/x/poll?id= on a post no handler is working on
   "force_live"}     \* the same, on any post

ASSUME EngineAssumption ==
  /\ Author \in [Posts -> Users]
  /\ TradePosts \subseteq Posts
  /\ LastDay \in Nat /\ MaxCrashes \in Nat /\ MaxSwaps \in Nat
  /\ SeatGas \in Nat /\ CreateGas \in Nat
  /\ CooldownOn \in BOOLEAN
  /\ Faults \subseteq FaultKinds
  /\ NoPost \notin Posts
  /\ NoTx \notin Tx

VARIABLES outcome,   \* x_mentions: outcome by post, "none" where there is no row
          replied,   \* x_mentions: reply_post_id is set
          status,    \* x_launches: status by post, "none" where there is no row
          hash,      \* x_launches: tx_hash
          fresh,     \* x_launches: created_at is within the cooldown
          days,      \* x_days
          userDays,  \* x_user_days
          today,     \* utcDay()
          pc,        \* the await each handler is at
          job,       \* the post it was called with
          sent,      \* launch(): sentSomething
          seated,    \* launch(): seat.deployed
          created,   \* signAndSend: the create transaction the node took
          takenOn,   \* the day its reservation was taken on
          looking,   \* the resolvers: the post whose row is being resolved
          asked,     \* and the hash of the row's snapshot
          txStatus, txPost, txDay,   \* create transactions, on the chain or in the mempool
          seats,     \* accounts whose seat is deployed
          swaps,     \* swaps filled on the chain for a post
          paid,      \* gas the sponsor's wallet has paid so far
          crashes

mentions  == <<outcome, replied>>
rows      == <<status, hash, fresh>>
budget    == <<days, userDays>>
locals    == <<job, sent, seated, created, takenOn>>
handlers  == <<pc, locals>>
resolvers == <<looking, asked>>
txs       == <<txStatus, txPost, txDay>>
chain     == <<txs, seats, swaps, paid>>
vars      == <<mentions, rows, budget, today, handlers, resolvers, chain, crashes>>

Days == 0 .. LastDay

Settled == {"launched", "answered", "traded", "ignored", "refused", "failed"}

Outcomes == Settled \cup {"none", "claimed"}

Statuses == {"none", "reserved", "sending", "launched", "indeterminate", "failed"}

\* The awaits of handleMention, in the order launch() reaches them.
Awaits ==
  {"idle", "routing", "answering", "trading", "confirming", "refusing",
   "pricing", "funding", "preparing", "seating", "sending", "submitted",
   "waiting", "announcing"}

TxStatuses == {"unused", "pending", "success", "reverted"}

MentionsOK ==
  /\ outcome \in [Posts -> Outcomes]
  /\ replied \in [Posts -> BOOLEAN]

RowsOK ==
  /\ status \in [Posts -> Statuses]
  /\ hash \in [Posts -> Tx \cup {NoTx}]
  /\ fresh \in [Posts -> BOOLEAN]

BudgetOK ==
  /\ days \in [Days -> DayRows]
  /\ userDays \in [Users \X Days -> Nat]

HandlersOK ==
  /\ pc \in [Handlers -> Awaits]
  /\ job \in [Handlers -> Posts \cup {NoPost}]
  /\ sent \in [Handlers -> BOOLEAN]
  /\ seated \in [Handlers -> BOOLEAN]
  /\ created \in [Handlers -> Tx \cup {NoTx}]
  /\ takenOn \in [Handlers -> Days]
  /\ \A h \in Handlers : pc[h] = "idle" <=> job[h] = NoPost

ResolversOK ==
  /\ looking \in [Resolvers -> Posts \cup {NoPost}]
  /\ asked \in [Resolvers -> Tx \cup {NoTx}]
  /\ \A r \in Resolvers : looking[r] = NoPost <=> asked[r] = NoTx

ChainOK ==
  /\ txStatus \in [Tx -> TxStatuses]
  /\ txPost \in [Tx -> Posts \cup {NoPost}]
  /\ txDay \in [Tx -> Days]
  /\ seats \in SUBSET Users
  /\ swaps \in [Posts -> Nat]
  /\ paid \in Nat

TypeOK ==
  /\ MentionsOK
  /\ RowsOK
  /\ BudgetOK
  /\ HandlersOK
  /\ ResolversOK
  /\ ChainOK
  /\ today \in Days
  /\ crashes \in Nat

Init ==
  /\ outcome = [p \in Posts |-> "none"]
  /\ replied = [p \in Posts |-> FALSE]
  /\ status = [p \in Posts |-> "none"]
  /\ hash = [p \in Posts |-> NoTx]
  /\ fresh = [p \in Posts |-> FALSE]
  /\ days = [d \in Days |-> EmptyDay]
  /\ userDays = [ud \in Users \X Days |-> 0]
  /\ today = 0
  /\ pc = [h \in Handlers |-> "idle"]
  /\ job = [h \in Handlers |-> NoPost]
  /\ sent = [h \in Handlers |-> FALSE]
  /\ seated = [h \in Handlers |-> FALSE]
  /\ created = [h \in Handlers |-> NoTx]
  /\ takenOn = [h \in Handlers |-> 0]
  /\ looking = [r \in Resolvers |-> NoPost]
  /\ asked = [r \in Resolvers |-> NoTx]
  /\ txStatus = [t \in Tx |-> "unused"]
  /\ txPost = [t \in Tx |-> NoPost]
  /\ txDay = [t \in Tx |-> 0]
  /\ seats \in SUBSET Users
  /\ swaps = [p \in Posts |-> 0]
  /\ paid = 0
  /\ crashes = 0

-----------------------------------------------------------------------------
(* The three ways a call of handleMention lets go of its post.              *)

At(h, await) == pc[h] = await

GoTo(h, await) == pc' = [pc EXCEPT ![h] = await] /\ UNCHANGED locals

Done(h) ==
  /\ pc' = [pc EXCEPT ![h] = "idle"]
  /\ job' = [job EXCEPT ![h] = NoPost]
  /\ sent' = [sent EXCEPT ![h] = FALSE]
  /\ seated' = [seated EXCEPT ![h] = FALSE]
  /\ created' = [created EXCEPT ![h] = NoTx]
  /\ takenOn' = [takenOn EXCEPT ![h] = 0]

\* settleMention
Settle(p, end, spoken) ==
  /\ outcome' = [outcome EXCEPT ![p] = end]
  /\ replied' = [replied EXCEPT ![p] = spoken]

\* releaseMention deletes the row, so the next delivery can claim the post.
Release(p) == Settle(p, "none", FALSE)

\* A throw that reaches handleMention's catch: retryable ones release the
\* claim, the others speak and then settle (SettleRefusal).
Throw(h, retryable) ==
  IF retryable
    THEN /\ Release(job[h])
         /\ Done(h)
    ELSE /\ GoTo(h, "refusing")
         /\ UNCHANGED mentions

SettleRefusal(h, spoken) ==
  /\ At(h, "refusing")
  /\ Settle(job[h], "refused", spoken)
  /\ Done(h)
  /\ UNCHANGED <<rows, budget, today, resolvers, chain, crashes>>

-----------------------------------------------------------------------------
(* handleMention up to launch().                                            *)

\* reserveMention: the insert is the lock.  A delivery of a post that has a
\* row already, or whose author is blocked or rate limited, changes nothing.
Claim(h, p) ==
  /\ At(h, "idle")
  /\ outcome[p] = "none"
  /\ Settle(p, "claimed", FALSE)
  /\ pc' = [pc EXCEPT ![h] = IF p \in TradePosts THEN "trading" ELSE "routing"]
  /\ job' = [job EXCEPT ![h] = p]
  /\ UNCHANGED <<sent, seated, created, takenOn>>
  /\ UNCHANGED <<rows, budget, today, resolvers, chain, crashes>>

\* enrichMention and routeMention return: a question or a wallet is answered,
\* a launch passes launch()'s free guards and asks for the gas price.
Route(h, next) ==
  /\ At(h, "routing")
  /\ next \in {"answering", "pricing"}
  /\ GoTo(h, next)
  /\ UNCHANGED <<mentions, rows, budget, today, resolvers, chain, crashes>>

Ignore(h) ==
  /\ At(h, "routing")
  /\ Settle(job[h], "ignored", FALSE)
  /\ Done(h)
  /\ UNCHANGED <<rows, budget, today, resolvers, chain, crashes>>

\* A model outage, an X outage, a refused guard, an unreadable gas price.
EarlyThrow(h, retryable) ==
  /\ pc[h] \in {"routing", "answering", "pricing"}
  /\ Throw(h, retryable)
  /\ UNCHANGED <<rows, budget, today, resolvers, chain, crashes>>

\* postReply returns null, not an id, while replies are disabled.
Answer(h, spoken) ==
  /\ At(h, "answering")
  /\ Settle(job[h], "answered", spoken)
  /\ Done(h)
  /\ UNCHANGED <<rows, budget, today, resolvers, chain, crashes>>

-----------------------------------------------------------------------------
(* trade(): every outcome settles the mention.                              *)

SwapFills(h) ==
  LET p == job[h] IN
  /\ At(h, "trading")
  /\ swaps[p] < MaxSwaps
  /\ swaps' = [swaps EXCEPT ![p] = @ + 1]
  /\ GoTo(h, "confirming")
  /\ UNCHANGED <<mentions, rows, budget, today, resolvers, txs, seats, paid, crashes>>

SwapRefused(h) ==
  /\ At(h, "trading")
  /\ GoTo(h, "refusing")
  /\ UNCHANGED <<mentions, rows, budget, today, resolvers, chain, crashes>>

SettleTrade(h) ==
  /\ At(h, "confirming")
  /\ Settle(job[h], "traded", TRUE)
  /\ Done(h)
  /\ UNCHANGED <<rows, budget, today, resolvers, chain, crashes>>

\* A bug to catch: an unconfirmed trade is given back, as a launch would be.
TradeRetried(h) ==
  /\ At(h, "confirming")
  /\ "reply_failure" \in Faults
  /\ Throw(h, TRUE)
  /\ UNCHANGED <<rows, budget, today, resolvers, chain, crashes>>

\* The swap filled, and either its receipt never came or the reply was refused.
TradeUnconfirmed(h) ==
  /\ At(h, "confirming")
  /\ "reply_failure" \in Faults
  /\ GoTo(h, "refusing")
  /\ UNCHANGED <<mentions, rows, budget, today, resolvers, chain, crashes>>

-----------------------------------------------------------------------------
(* launch(), to the row.                                                    *)

\* The cooldown query of reserveLaunch: a recent row that reached the chain.
Cooling(u) ==
  /\ CooldownOn
  /\ \E p \in Posts : /\ Author[p] = u
                      /\ fresh[p]
                      /\ status[p] \in {"sending", "launched", "indeterminate"}

MayReserve(u) == HasRoom(days[today], userDays[<<u, today>>]) /\ ~Cooling(u)

\* A bug to catch: the account's own counter is checked and never moved.
ReserveUncounted(h) ==
  /\ At(h, "pricing")
  /\ MayReserve(Author[job[h]])
  /\ days' = [days EXCEPT ![today] = TakeRoom(@)]
  /\ pc' = [pc EXCEPT ![h] = "funding"]
  /\ takenOn' = [takenOn EXCEPT ![h] = today]
  /\ UNCHANGED <<job, sent, seated, created>>
  /\ UNCHANGED <<mentions, rows, userDays, today, resolvers, chain, crashes>>

ReserveLaunch(h) ==
  LET u == Author[job[h]] IN
  /\ At(h, "pricing")
  /\ MayReserve(u)
  /\ days' = [days EXCEPT ![today] = TakeRoom(@)]
  /\ userDays' = [userDays EXCEPT ![<<u, today>>] = @ + 1]
  /\ pc' = [pc EXCEPT ![h] = "funding"]
  /\ takenOn' = [takenOn EXCEPT ![h] = today]
  /\ UNCHANGED <<job, sent, seated, created>>
  /\ UNCHANGED <<mentions, rows, today, resolvers, chain, crashes>>

\* A bug to catch: a refused reservation returns without settling.
RefusedSilently(h) ==
  /\ At(h, "pricing")
  /\ ~MayReserve(Author[job[h]])
  /\ Done(h)
  /\ UNCHANGED <<mentions, rows, budget, today, resolvers, chain, crashes>>

ReserveRefused(h) ==
  /\ At(h, "pricing")
  /\ ~MayReserve(Author[job[h]])
  /\ GoTo(h, "refusing")
  /\ UNCHANGED <<mentions, rows, budget, today, resolvers, chain, crashes>>

\* assertSponsorFunded, then seatFor, which reads the chain.
FindSeat(h) ==
  /\ At(h, "funding")
  /\ pc' = [pc EXCEPT ![h] = "preparing"]
  /\ seated' = [seated EXCEPT ![h] = Author[job[h]] \in seats]
  /\ UNCHANGED <<job, sent, created, takenOn>>
  /\ UNCHANGED <<mentions, rows, budget, today, resolvers, chain, crashes>>

\* What a catch that sent nothing undoes.  The day is the day of the failure.
ReleaseReservation(u) ==
  /\ days' = [days EXCEPT ![today] = GiveBack(@)]
  /\ userDays' = [userDays EXCEPT ![<<u, today>>] = Monus(@, 1)]

\* A throw before the row is written: launchId names no row, so none changes.
PrepareThrows(h, retryable) ==
  /\ pc[h] \in {"funding", "preparing"}
  /\ ReleaseReservation(Author[job[h]])
  /\ Throw(h, retryable)
  /\ UNCHANGED <<rows, today, resolvers, chain, crashes>>

\* A bug to catch: an unresolved row is taken for one that never got far.
ReusableUnresolved == {"none", "failed", "reserved", "indeterminate"}

Reusable == {"none", "failed", "reserved"}

\* prepareLaunch returns: insert the row, or reuse one that never got far.
WriteRow(h) ==
  LET p == job[h] IN
  /\ At(h, "preparing")
  /\ status[p] \in Reusable
  /\ status' = [status EXCEPT ![p] = "reserved"]
  /\ hash' = [hash EXCEPT ![p] = NoTx]
  /\ fresh' = [fresh EXCEPT ![p] = @ \/ status[p] = "none"]
  /\ GoTo(h, "seating")
  /\ UNCHANGED <<mentions, budget, today, resolvers, chain, crashes>>

\* ALREADY_HANDLED from launchByCommandPost.
RowTaken(h) ==
  /\ At(h, "preparing")
  /\ status[job[h]] \notin Reusable
  /\ ReleaseReservation(Author[job[h]])
  /\ GoTo(h, "refusing")
  /\ UNCHANGED <<mentions, rows, today, resolvers, chain, crashes>>

-----------------------------------------------------------------------------
(* launch(), from the row to the receipt.                                   *)

SetStatus(p, to) ==
  /\ status' = [status EXCEPT ![p] = to]
  /\ UNCHANGED <<hash, fresh>>

\* The catch when nothing was sent.
FailUnsent(h, retryable) ==
  /\ ~sent[h]
  /\ ReleaseReservation(Author[job[h]])
  /\ SetStatus(job[h], "failed")
  /\ Throw(h, retryable)

\* A bug to catch: the claim of a sent launch is given back for a retry.
FailReleased(h) ==
  /\ sent[h]
  /\ SetStatus(job[h], "indeterminate")
  /\ days' = [days EXCEPT ![today] = Charge(@, EstimateGas)]
  /\ Release(job[h])
  /\ Done(h)
  /\ UNCHANGED userDays

\* A bug to catch: a launch whose receipt never came is written off.
FailForgotten(h) ==
  /\ sent[h]
  /\ SetStatus(job[h], "failed")
  /\ days' = [days EXCEPT ![today] = Charge(@, EstimateGas)]
  /\ Settle(job[h], "failed", FALSE)
  /\ Done(h)
  /\ UNCHANGED userDays

\* A bug to catch: the reservation of a sent launch is given back.
FailRefunded(h) ==
  /\ sent[h]
  /\ SetStatus(job[h], "indeterminate")
  /\ ReleaseReservation(Author[job[h]])
  /\ Settle(job[h], "failed", FALSE)
  /\ Done(h)

\* The catch when something was sent: charge the estimate, keep the claim.
FailSent(h) ==
  /\ sent[h]
  /\ SetStatus(job[h], "indeterminate")
  /\ days' = [days EXCEPT ![today] = Charge(@, EstimateGas)]
  /\ Settle(job[h], "failed", FALSE)
  /\ Done(h)
  /\ UNCHANGED userDays

SeatStands(h) ==
  /\ At(h, "seating")
  /\ seated[h]
  /\ SetStatus(job[h], "sending")
  /\ GoTo(h, "sending")
  /\ UNCHANGED <<mentions, budget, today, resolvers, chain, crashes>>

\* ensureSeat: CreatorSeatFactory.deploy is idempotent, so a seat another
\* handler deployed meanwhile costs a transaction and nothing else.
DeploySeat(h) ==
  /\ At(h, "seating")
  /\ ~seated[h]
  /\ seats' = seats \cup {Author[job[h]]}
  /\ paid' = paid + SeatGas
  /\ SetStatus(job[h], "sending")
  /\ pc' = [pc EXCEPT ![h] = "sending"]
  /\ sent' = [sent EXCEPT ![h] = TRUE]
  /\ UNCHANGED <<job, seated, created, takenOn>>
  /\ UNCHANGED <<mentions, budget, today, resolvers, txs, swaps, crashes>>

\* ensureSeat throws: refused, reverted, or mined after the wait gave up.
SeatThrows(h) ==
  /\ At(h, "seating")
  /\ ~seated[h]
  /\ "seat_failure" \in Faults
  /\ \/ UNCHANGED <<seats, paid>>
     \/ paid' = paid + SeatGas /\ UNCHANGED seats
     \/ paid' = paid + SeatGas /\ seats' = seats \cup {Author[job[h]]}
  /\ FailUnsent(h, FALSE)
  /\ UNCHANGED <<today, resolvers, txs, swaps, crashes>>

\* executeSponsoredLaunch throws before it has a transaction to send.
BuildThrows(h, retryable) ==
  /\ At(h, "sending")
  /\ FailUnsent(h, retryable) \/ FailSent(h)
  /\ UNCHANGED <<today, resolvers, chain, crashes>>

\* signAndSend: the node takes the transaction; the hash has not come back.
Submit(h, t) ==
  /\ At(h, "sending")
  /\ txStatus[t] = "unused"
  /\ txStatus' = [txStatus EXCEPT ![t] = "pending"]
  /\ txPost' = [txPost EXCEPT ![t] = job[h]]
  /\ txDay' = [txDay EXCEPT ![t] = takenOn[h]]
  /\ pc' = [pc EXCEPT ![h] = "submitted"]
  /\ created' = [created EXCEPT ![h] = t]
  /\ UNCHANGED <<job, sent, seated, takenOn>>
  /\ UNCHANGED <<mentions, rows, budget, today, resolvers, seats, swaps, paid, crashes>>

\* onHash, before the receipt is waited for.
RecordHash(h) ==
  /\ At(h, "submitted")
  /\ hash' = [hash EXCEPT ![job[h]] = created[h]]
  /\ pc' = [pc EXCEPT ![h] = "waiting"]
  /\ sent' = [sent EXCEPT ![h] = TRUE]
  /\ UNCHANGED <<status, fresh, job, seated, created, takenOn>>
  /\ UNCHANGED <<mentions, budget, today, resolvers, chain, crashes>>

\* A bug to catch: a lost response is retried like any other outage.
LostHashRetried(h) ==
  /\ At(h, "submitted")
  /\ "lost_reply" \in Faults
  /\ FailUnsent(h, TRUE) \/ FailSent(h)
  /\ UNCHANGED <<today, resolvers, chain, crashes>>

\* The node took it and the response was lost: sendTransaction throws, and
\* what it throws is not an XError, so never retryable.
LoseHash(h) ==
  /\ At(h, "submitted")
  /\ "lost_reply" \in Faults
  /\ FailUnsent(h, FALSE) \/ FailSent(h)
  /\ UNCHANGED <<today, resolvers, chain, crashes>>

Mine(t, ok) ==
  /\ txStatus[t] = "pending"
  /\ txStatus' = [txStatus EXCEPT ![t] = IF ok THEN "success" ELSE "reverted"]
  /\ UNCHANGED <<txPost, txDay>>
  /\ paid' = paid + CreateGas
  /\ UNCHANGED <<mentions, rows, budget, today, handlers, resolvers, seats, swaps, crashes>>

\* Both transactions this handler paid for: its own seat's, if it deployed it.
GasWei(h) == CreateGas + (IF seated[h] THEN 0 ELSE SeatGas)

Launched(h) ==
  /\ At(h, "waiting")
  /\ txStatus[created[h]] = "success"
  /\ status' = [status EXCEPT ![job[h]] = "launched"]
  /\ hash' = [hash EXCEPT ![job[h]] = created[h]]
  /\ UNCHANGED fresh
  /\ days' = [days EXCEPT ![today] = Charge(@, GasWei(h))]
  /\ GoTo(h, "announcing")
  /\ UNCHANGED <<mentions, userDays, today, resolvers, chain, crashes>>

\* LAUNCH_REVERTED, or the wait for the receipt gave up.
ReceiptThrows(h) ==
  /\ At(h, "waiting")
  /\ FailSent(h)
  /\ UNCHANGED <<today, resolvers, chain, crashes>>

Announce(h) ==
  /\ At(h, "announcing")
  /\ Settle(job[h], "launched", TRUE)
  /\ Done(h)
  /\ UNCHANGED <<rows, budget, today, resolvers, chain, crashes>>

\* postReply throws inside the same try the launch ran in.
AnnounceThrows(h) ==
  /\ At(h, "announcing")
  /\ "reply_failure" \in Faults
  /\ FailSent(h)
  /\ UNCHANGED <<today, resolvers, chain, crashes>>

-----------------------------------------------------------------------------
(* resolveIndeterminate: a snapshot of the rows, then a receipt for each.   *)

\* A bug to catch: only rows a catch marked are looked up, not a dead process's.
LookMarkedOnly(r, p) ==
  /\ looking[r] = NoPost
  /\ status[p] = "indeterminate"
  /\ hash[p] # NoTx
  /\ looking' = [looking EXCEPT ![r] = p]
  /\ asked' = [asked EXCEPT ![r] = hash[p]]
  /\ UNCHANGED <<mentions, rows, budget, today, handlers, chain, crashes>>

Look(r, p) ==
  /\ looking[r] = NoPost
  /\ status[p] \in {"sending", "indeterminate"}
  /\ hash[p] # NoTx
  /\ looking' = [looking EXCEPT ![r] = p]
  /\ asked' = [asked EXCEPT ![r] = hash[p]]
  /\ UNCHANGED <<mentions, rows, budget, today, handlers, chain, crashes>>

\* A bug to catch: a transaction that is not mined yet is taken for a failure.
ResolveEagerly(r) ==
  LET p == looking[r] IN
  /\ looking[r] # NoPost
  /\ looking' = [looking EXCEPT ![r] = NoPost]
  /\ asked' = [asked EXCEPT ![r] = NoTx]
  /\ SetStatus(p, IF txStatus[asked[r]] = "success" THEN "launched" ELSE "failed")
  /\ UNCHANGED <<mentions, budget, today, handlers, chain, crashes>>

Resolve(r) ==
  LET p == looking[r]
      t == asked[r]
  IN
  /\ looking[r] # NoPost
  /\ looking' = [looking EXCEPT ![r] = NoPost]
  /\ asked' = [asked EXCEPT ![r] = NoTx]
  /\ CASE txStatus[t] = "success"  -> SetStatus(p, "launched")
       [] txStatus[t] = "reverted" -> SetStatus(p, "failed")
       [] OTHER                     -> UNCHANGED rows
  /\ UNCHANGED <<mentions, budget, today, handlers, chain, crashes>>

-----------------------------------------------------------------------------
(* The operator, the clock and the process.                                 *)

Working(p) == \E h \in Handlers : job[h] = p

\* GET /api/x/poll?id=: release a mention that has no recorded reply and was
\* not traded or launched; the delivery that follows is a Claim.
ForceRetry(p) ==
  /\ Faults \cap {"force_idle", "force_live"} # {}
  /\ Working(p) => "force_live" \in Faults
  /\ outcome[p] \notin {"none", "traded", "launched"}
  /\ ~replied[p]
  /\ Release(p)
  /\ UNCHANGED <<rows, budget, today, handlers, resolvers, chain, crashes>>

Midnight ==
  /\ today < LastDay
  /\ today' = today + 1
  /\ UNCHANGED <<mentions, rows, budget, handlers, resolvers, chain, crashes>>

CooldownLapses(p) ==
  /\ fresh[p]
  /\ fresh' = [fresh EXCEPT ![p] = FALSE]
  /\ UNCHANGED <<status, hash>>
  /\ UNCHANGED <<mentions, budget, today, handlers, resolvers, chain, crashes>>

\* The tables and the chain survive; every running call is gone.
Crash ==
  /\ crashes < MaxCrashes
  /\ crashes' = crashes + 1
  /\ pc' = [h \in Handlers |-> "idle"]
  /\ job' = [h \in Handlers |-> NoPost]
  /\ sent' = [h \in Handlers |-> FALSE]
  /\ seated' = [h \in Handlers |-> FALSE]
  /\ created' = [h \in Handlers |-> NoTx]
  /\ takenOn' = [h \in Handlers |-> 0]
  /\ looking' = [r \in Resolvers |-> NoPost]
  /\ asked' = [r \in Resolvers |-> NoTx]
  /\ UNCHANGED <<mentions, rows, budget, today, chain>>

-----------------------------------------------------------------------------
HandlerStep(h) ==
  \/ \E spoken \in BOOLEAN : SettleRefusal(h, spoken)
  \/ \E next \in Awaits : Route(h, next)
  \/ Ignore(h)
  \/ \E retryable \in BOOLEAN : EarlyThrow(h, retryable)
  \/ \E spoken \in BOOLEAN : Answer(h, spoken)
  \/ SwapFills(h)
  \/ SwapRefused(h)
  \/ SettleTrade(h)
  \/ TradeUnconfirmed(h)
  \/ ReserveLaunch(h)
  \/ ReserveRefused(h)
  \/ FindSeat(h)
  \/ \E retryable \in BOOLEAN : PrepareThrows(h, retryable)
  \/ WriteRow(h)
  \/ RowTaken(h)
  \/ SeatStands(h)
  \/ DeploySeat(h)
  \/ SeatThrows(h)
  \/ \E retryable \in BOOLEAN : BuildThrows(h, retryable)
  \/ \E t \in Tx : Submit(h, t)
  \/ RecordHash(h)
  \/ LoseHash(h)
  \/ Launched(h)
  \/ ReceiptThrows(h)
  \/ Announce(h)
  \/ AnnounceThrows(h)

ResolverStep(r) == Resolve(r) \/ \E p \in Posts : Look(r, p)

Next ==
  \/ \E h \in Handlers, p \in Posts : Claim(h, p)
  \/ \E h \in Handlers : HandlerStep(h)
  \/ \E t \in Tx, ok \in BOOLEAN : Mine(t, ok)
  \/ \E r \in Resolvers : ResolverStep(r)
  \/ \E p \in Posts : ForceRetry(p)
  \/ Midnight
  \/ \E p \in Posts : CooldownLapses(p)
  \/ Crash

Spec == Init /\ [][Next]_vars

\* Every await returns (the HTTP and RPC clients time out), the poller runs a
\* pass for ever and each pass visits every pending row, and the chain mines
\* what it took.  Nothing is assumed of deliveries, operators or crashes.
Fairness ==
  /\ \A h \in Handlers : WF_vars(HandlerStep(h))
  /\ \A r \in Resolvers : WF_vars(Resolve(r))
  /\ \A r \in Resolvers, p \in Posts : SF_vars(Look(r, p))
  /\ \A t \in Tx : WF_vars(\E ok \in BOOLEAN : Mine(t, ok))

FairSpec == Spec /\ Fairness

-----------------------------------------------------------------------------
(* Safety.                                                                  *)

\* The create transactions of a post that made a market, or still may.
Live(p) == {t \in Tx : txPost[t] = p /\ txStatus[t] \in {"pending", "success"}}

\* "A launch cannot happen twice for one post" (store.ts, reserveMention):
\* of all the transactions ever sent for a post, at most one can stand.
OneMarketPerPost == \A p \in Posts : \A t, u \in Live(p) : t = u

\* A claim is deleted "only ever ... for a failure that happened before a
\* transaction was sent": a post open to be claimed has nothing on the chain.
ReleasedMeansUnsent ==
  \A p \in Posts : outcome[p] = "none" => Live(p) = {}

\* "Every outcome settles the mention", so that one post which asked to spend
\* 0.01 ETH cannot spend 0.02 (engine.ts, trade).
OneSwapPerPost == \A p \in Posts : swaps[p] <= 1

\* "No failure can leave money spent with nothing recorded" (engine.ts,
\* launch): once no call works on a post, its market has a row that says so.
MarketIsRecorded ==
  \A p \in Posts :
    /\ \E t \in Tx : txPost[t] = p /\ txStatus[t] = "success"
    /\ ~Working(p)
    => status[p] \in {"sending", "launched", "indeterminate"}

\* A row that says launched names the transaction that made the market, and
\* one that says failed belongs to a post that has none.
RowsTellTheTruth ==
  \A p \in Posts :
    /\ status[p] = "launched" =>
         hash[p] \in Tx /\ txStatus[hash[p]] = "success"
    /\ status[p] = "failed" => Live(p) = {}

\* The sponsor's launches of a day stay within launchesPerDay, whatever else
\* was in flight: every transaction counts for the day its room was taken on.
SentOn(d) == {t \in Tx : txStatus[t] # "unused" /\ txDay[t] = d}

WithinDailyCap == \A d \in Days : Cardinality(SentOn(d)) <= MaxPerDay

\* The same for one account and launchesPerUserPerDay.
WithinUserCap ==
  \A d \in Days, u \in Users :
    Cardinality({t \in SentOn(d) : Author[txPost[t]] = u}) <= MaxPerUserPerDay

dayGas == [d \in Days |-> UsedGas(days[d])]

\* "Every send reports the gas it burned, and the caller meters it" (sponsor.ts):
\* what the wallet has paid is never more than what the ledger holds for it.
GasIsMetered == paid <= MapThenSumSet(LAMBDA d : dayGas[d], Days)

-----------------------------------------------------------------------------
(* What eventually happens, and the promise this engine implements.         *)

\* A claimed post does not stay claimed while the process lives: it is settled
\* or given back (engine.ts, handleMention: every path out of the claim).
ClaimsEnd ==
  \A p \in Posts : outcome[p] = "claimed" ~> outcome[p] # "claimed" \/ crashes > 0

\* A pending row whose hash was recorded is resolved by reading the chain,
\* whoever died meanwhile (engine.ts, resolveIndeterminate).
PendingResolves ==
  \A p \in Posts :
    status[p] \in {"sending", "indeterminate"} /\ hash[p] # NoTx
      ~> status[p] \in {"launched", "failed"}

Fate(p) ==
  IF \E t \in Live(p) : txStatus[t] = "success" THEN "market"
  ELSE IF Live(p) # {} THEN "pending"
  ELSE CASE outcome[p] = "none"    -> "open"
         [] outcome[p] = "claimed" -> "held"
         [] OTHER                          -> "closed"

fates == [p \in Posts |-> Fate(p)]

Life == INSTANCE PostLife WITH fate <- fates

\* Every behaviour of the engine is a life PostLife allows.
KeepsThePromise == Life!Spec

=============================================================================
