--------------------------- MODULE XEngineProofs ---------------------------
(***************************************************************************)
(* Theorems about XEngine: the types; that no post yields two markets,     *)
(* where no post is forced while its call is at work; that the detailed    *)
(* engine is a PostLife; that the ledger meters every wei of gas; that no  *)
(* cap of a day is passed; and that the rows tell the truth.  Lemmas about *)
(* the helpers of the engine (Settle, Done, Throw, ReleaseReservation)     *)
(* are stated once and cited by every action.                              *)
(***************************************************************************)
EXTENDS XEngine, SumLemmas, TLAPS

-----------------------------------------------------------------------------
(* The day ledger.                                                          *)

\* Every transaction of the ledger leaves a row of natural numbers.
LEMMA LedgerTypes ==
  ASSUME NEW day \in DayRows
  PROVE  /\ TakeRoom(day) \in DayRows
         /\ GiveBack(day) \in DayRows
         /\ \A actual \in Nat : Charge(day, actual) \in DayRows
BY BudgetAssumption DEF DayRows, TakeRoom, GiveBack, Charge, Monus

\* What the catch that sent nothing undoes keeps the ledger's types.
LEMMA ReleaseTypes ==
  ASSUME TypeOK, NEW u \in Users, ReleaseReservation(u)
  PROVE  BudgetOK'
<1>1. days' \in [Days -> DayRows]
  BY LedgerTypes DEF TypeOK, BudgetOK, ReleaseReservation
<1>2. userDays' \in [Users \X Days -> Nat]
  BY DEF TypeOK, BudgetOK, ReleaseReservation, Monus
<1> QED BY <1>1, <1>2 DEF BudgetOK

\* A charge to the day of the call keeps them too.
LEMMA ChargeTypes ==
  ASSUME TypeOK, NEW actual \in Nat, UNCHANGED userDays,
         days' = [days EXCEPT ![today] = Charge(@, actual)]
  PROVE  BudgetOK'
BY LedgerTypes DEF TypeOK, BudgetOK

-----------------------------------------------------------------------------
(* Types.                                                                   *)

\* A step that leaves a group of variables alone leaves its types alone.
LEMMA Untouched ==
  ASSUME TypeOK
  PROVE  /\ UNCHANGED mentions => MentionsOK'
         /\ UNCHANGED rows => RowsOK'
         /\ UNCHANGED budget => BudgetOK'
         /\ UNCHANGED handlers => HandlersOK'
         /\ UNCHANGED resolvers => ResolversOK'
         /\ UNCHANGED chain => ChainOK'
<1> USE DEF TypeOK
<1>1. UNCHANGED mentions => MentionsOK'
  BY DEF MentionsOK, mentions
<1>2. UNCHANGED rows => RowsOK'
  BY DEF RowsOK, rows
<1>3. UNCHANGED budget => BudgetOK'
  BY DEF BudgetOK, budget
<1>4. UNCHANGED handlers => HandlersOK'
  BY DEF HandlersOK, handlers, locals
<1>5. UNCHANGED resolvers => ResolversOK'
  BY DEF ResolversOK, resolvers
<1>6. UNCHANGED chain => ChainOK'
  BY DEF ChainOK, chain, txs
<1> QED BY <1>1, <1>2, <1>3, <1>4, <1>5, <1>6

\* A handler that is at some await works on a post, and its author is a user.
LEMMA AtWork ==
  ASSUME TypeOK, NEW h \in Handlers, pc[h] # "idle"
  PROVE  job[h] \in Posts /\ Author[job[h]] \in Users
BY EngineAssumption DEF TypeOK, HandlersOK

LEMMA SettleTypes ==
  ASSUME TypeOK, NEW p \in Posts, NEW end \in Outcomes, NEW spoken \in BOOLEAN,
         Settle(p, end, spoken)
  PROVE  MentionsOK'
BY DEF TypeOK, MentionsOK, Settle

LEMMA DoneTypes ==
  ASSUME TypeOK, NEW h \in Handlers, Done(h)
  PROVE  HandlersOK'
<1>1. 0 \in Days
  BY EngineAssumption DEF Days
<1> QED BY <1>1, EngineAssumption DEF TypeOK, HandlersOK, Done, Awaits

LEMMA GoToTypes ==
  ASSUME TypeOK, NEW h \in Handlers, pc[h] # "idle",
         NEW await \in Awaits \ {"idle"}, GoTo(h, await)
  PROVE  HandlersOK'
BY DEF TypeOK, HandlersOK, GoTo, locals

LEMMA ThrowTypes ==
  ASSUME TypeOK, NEW h \in Handlers, pc[h] # "idle",
         NEW retryable \in BOOLEAN, Throw(h, retryable)
  PROVE  MentionsOK' /\ HandlersOK'
<1>1. CASE retryable
  BY <1>1, AtWork, SettleTypes, DoneTypes DEF Throw, Release, Outcomes
<1>2. CASE ~retryable
  BY <1>2, GoToTypes, Untouched DEF Throw, Awaits
<1> QED BY <1>1, <1>2

LEMMA SetStatusTypes ==
  ASSUME TypeOK, NEW p \in Posts, NEW to \in Statuses, SetStatus(p, to)
  PROVE  RowsOK'
BY DEF TypeOK, RowsOK, SetStatus

\* The two catches of launch().
LEMMA FailTypes ==
  ASSUME TypeOK, NEW h \in Handlers, pc[h] # "idle",
         \/ FailSent(h)
         \/ \E retryable \in BOOLEAN : FailUnsent(h, retryable)
  PROVE  MentionsOK' /\ RowsOK' /\ BudgetOK' /\ HandlersOK'
<1>1. CASE FailSent(h)
  <2>1. MentionsOK' /\ RowsOK' /\ HandlersOK'
    BY <1>1, AtWork, SettleTypes, SetStatusTypes, DoneTypes
       DEF FailSent, Outcomes, Settled, Statuses
  <2>2. BudgetOK'
    BY <1>1, ChargeTypes, BudgetAssumption DEF FailSent
  <2> QED BY <2>1, <2>2
<1>2. ASSUME NEW retryable \in BOOLEAN, FailUnsent(h, retryable)
      PROVE  MentionsOK' /\ RowsOK' /\ BudgetOK' /\ HandlersOK'
  BY <1>2, AtWork, ThrowTypes, SetStatusTypes, ReleaseTypes DEF FailUnsent, Statuses
<1> QED BY <1>1, <1>2

LEMMA TypeStep ==
  ASSUME TypeOK, [Next]_vars
  PROVE  TypeOK'
<1> USE EngineAssumption, BudgetAssumption DEF TypeOK, At
<1>1. ASSUME NEW h \in Handlers, NEW p \in Posts, Claim(h, p)
      PROVE  TypeOK'
  <2>1. MentionsOK'
    BY <1>1, SettleTypes DEF Claim, Outcomes
  <2>2. HandlersOK'
    BY <1>1 DEF Claim, HandlersOK, Awaits
  <2> QED BY <1>1, <2>1, <2>2, Untouched DEF Claim
<1>2. ASSUME NEW h \in Handlers, NEW spoken \in BOOLEAN, SettleRefusal(h, spoken)
      PROVE  TypeOK'
  BY <1>2, Untouched, AtWork, SettleTypes, DoneTypes DEF SettleRefusal, Outcomes, Settled
<1>3. ASSUME NEW h \in Handlers, NEW next \in Awaits, Route(h, next)
      PROVE  TypeOK'
  BY <1>3, Untouched, AtWork, GoToTypes DEF Route, Awaits
<1>4. ASSUME NEW h \in Handlers, Ignore(h)
      PROVE  TypeOK'
  BY <1>4, Untouched, AtWork, SettleTypes, DoneTypes DEF Ignore, Outcomes, Settled
<1>5. ASSUME NEW h \in Handlers, NEW retryable \in BOOLEAN, EarlyThrow(h, retryable)
      PROVE  TypeOK'
  BY <1>5, Untouched, AtWork, ThrowTypes DEF EarlyThrow
<1>6. ASSUME NEW h \in Handlers, NEW spoken \in BOOLEAN, Answer(h, spoken)
      PROVE  TypeOK'
  BY <1>6, Untouched, AtWork, SettleTypes, DoneTypes DEF Answer, Outcomes, Settled
<1>7. ASSUME NEW h \in Handlers, SwapFills(h)
      PROVE  TypeOK'
  <2>1. HandlersOK'
    BY <1>7, GoToTypes DEF SwapFills, Awaits
  <2>2. ChainOK'
    BY <1>7, AtWork DEF SwapFills, ChainOK, txs
  <2> QED BY <1>7, <2>1, <2>2, Untouched DEF SwapFills
<1>8. ASSUME NEW h \in Handlers, SwapRefused(h)
      PROVE  TypeOK'
  BY <1>8, Untouched, AtWork, GoToTypes DEF SwapRefused, Awaits
<1>9. ASSUME NEW h \in Handlers, SettleTrade(h)
      PROVE  TypeOK'
  BY <1>9, Untouched, AtWork, SettleTypes, DoneTypes DEF SettleTrade, Outcomes, Settled
<1>10. ASSUME NEW h \in Handlers, TradeUnconfirmed(h)
      PROVE  TypeOK'
  BY <1>10, Untouched, AtWork, GoToTypes DEF TradeUnconfirmed, Awaits
<1>11. ASSUME NEW h \in Handlers, ReserveLaunch(h)
      PROVE  TypeOK'
  <2>1. BudgetOK'
    BY <1>11, AtWork, LedgerTypes DEF ReserveLaunch, BudgetOK
  <2>2. HandlersOK'
    BY <1>11 DEF ReserveLaunch, HandlersOK, Awaits
  <2> QED BY <1>11, <2>1, <2>2, Untouched DEF ReserveLaunch
<1>12. ASSUME NEW h \in Handlers, ReserveRefused(h)
      PROVE  TypeOK'
  BY <1>12, Untouched, AtWork, GoToTypes DEF ReserveRefused, Awaits
<1>13. ASSUME NEW h \in Handlers, FindSeat(h)
      PROVE  TypeOK'
  <2>1. HandlersOK'
    BY <1>13 DEF FindSeat, HandlersOK, Awaits
  <2> QED BY <1>13, <2>1, Untouched DEF FindSeat
<1>14. ASSUME NEW h \in Handlers, NEW retryable \in BOOLEAN, PrepareThrows(h, retryable)
      PROVE  TypeOK'
  BY <1>14, Untouched, AtWork, ThrowTypes, ReleaseTypes DEF PrepareThrows
<1>15. ASSUME NEW h \in Handlers, WriteRow(h)
      PROVE  TypeOK'
  <2>1. RowsOK'
    BY <1>15, AtWork DEF WriteRow, RowsOK, Statuses
  <2>2. HandlersOK'
    BY <1>15, GoToTypes DEF WriteRow, Awaits
  <2> QED BY <1>15, <2>1, <2>2, Untouched DEF WriteRow
<1>16. ASSUME NEW h \in Handlers, RowTaken(h)
      PROVE  TypeOK'
  BY <1>16, Untouched, AtWork, GoToTypes, ReleaseTypes DEF RowTaken, Awaits
<1>17. ASSUME NEW h \in Handlers, SeatStands(h)
      PROVE  TypeOK'
  BY <1>17, Untouched, AtWork, GoToTypes, SetStatusTypes DEF SeatStands, Awaits, Statuses
<1>18. ASSUME NEW h \in Handlers, DeploySeat(h)
      PROVE  TypeOK'
  <2>1. RowsOK'
    BY <1>18, AtWork, SetStatusTypes DEF DeploySeat, Statuses
  <2>2. HandlersOK'
    BY <1>18 DEF DeploySeat, HandlersOK, Awaits
  <2>3. ChainOK'
    BY <1>18, AtWork DEF DeploySeat, ChainOK, txs
  <2> QED BY <1>18, <2>1, <2>2, <2>3, Untouched DEF DeploySeat
<1>19. ASSUME NEW h \in Handlers, SeatThrows(h)
      PROVE  TypeOK'
  <2>1. MentionsOK' /\ RowsOK' /\ BudgetOK' /\ HandlersOK'
    BY <1>19, FailTypes DEF SeatThrows
  <2>2. ChainOK'
    BY <1>19, AtWork DEF SeatThrows, ChainOK, txs
  <2> QED BY <1>19, <2>1, <2>2, Untouched DEF SeatThrows
<1>20. ASSUME NEW h \in Handlers, NEW retryable \in BOOLEAN, BuildThrows(h, retryable)
      PROVE  TypeOK'
  BY <1>20, Untouched, AtWork, FailTypes DEF BuildThrows
<1>21. ASSUME NEW h \in Handlers, NEW t \in Tx, Submit(h, t)
      PROVE  TypeOK'
  <2>1. HandlersOK'
    BY <1>21 DEF Submit, HandlersOK, Awaits
  <2>2. ChainOK'
    BY <1>21, AtWork DEF Submit, ChainOK, HandlersOK, TxStatuses
  <2> QED BY <1>21, <2>1, <2>2, Untouched DEF Submit
<1>22. ASSUME NEW h \in Handlers, RecordHash(h)
      PROVE  TypeOK'
  <2>1. RowsOK'
    BY <1>22, AtWork DEF RecordHash, RowsOK, HandlersOK
  <2>2. HandlersOK'
    BY <1>22 DEF RecordHash, HandlersOK, Awaits
  <2> QED BY <1>22, <2>1, <2>2, Untouched DEF RecordHash
<1>23. ASSUME NEW h \in Handlers, LoseHash(h)
      PROVE  TypeOK'
  BY <1>23, Untouched, AtWork, FailTypes DEF LoseHash
<1>24. ASSUME NEW h \in Handlers, Launched(h)
      PROVE  TypeOK'
  <2>0. GasWei(h) \in Nat
    BY DEF GasWei
  <2>1. RowsOK'
    BY <1>24, AtWork DEF Launched, RowsOK, HandlersOK, Statuses
  <2>2. BudgetOK'
    BY <1>24, <2>0, ChargeTypes DEF Launched
  <2>3. HandlersOK'
    BY <1>24, GoToTypes DEF Launched, Awaits
  <2> QED BY <1>24, <2>1, <2>2, <2>3, Untouched DEF Launched
<1>25. ASSUME NEW h \in Handlers, ReceiptThrows(h)
      PROVE  TypeOK'
  BY <1>25, Untouched, AtWork, FailTypes DEF ReceiptThrows
<1>26. ASSUME NEW h \in Handlers, Announce(h)
      PROVE  TypeOK'
  BY <1>26, Untouched, AtWork, SettleTypes, DoneTypes DEF Announce, Outcomes, Settled
<1>27. ASSUME NEW h \in Handlers, AnnounceThrows(h)
      PROVE  TypeOK'
  BY <1>27, Untouched, AtWork, FailTypes DEF AnnounceThrows
<1>28. ASSUME NEW t \in Tx, NEW ok \in BOOLEAN, Mine(t, ok)
      PROVE  TypeOK'
  <2>1. ChainOK'
    BY <1>28 DEF Mine, ChainOK, TxStatuses
  <2> QED BY <1>28, <2>1, Untouched DEF Mine
<1>29. ASSUME NEW r \in Resolvers, NEW p \in Posts, Look(r, p)
      PROVE  TypeOK'
  <2>1. ResolversOK'
    BY <1>29 DEF Look, ResolversOK, RowsOK
  <2> QED BY <1>29, <2>1, Untouched DEF Look
<1>30. ASSUME NEW r \in Resolvers, Resolve(r)
      PROVE  TypeOK'
  <2>1. ResolversOK'
    BY <1>30 DEF Resolve, ResolversOK
  <2>2. RowsOK'
    <3>1. looking[r] \in Posts
      BY <1>30 DEF Resolve, ResolversOK
    <3> QED BY <1>30, <3>1, SetStatusTypes, Untouched DEF Resolve, Statuses
  <2> QED BY <1>30, <2>1, <2>2, Untouched DEF Resolve
<1>31. ASSUME NEW p \in Posts, ForceRetry(p)
      PROVE  TypeOK'
  BY <1>31, SettleTypes, Untouched DEF ForceRetry, Release, Outcomes
<1>32. CASE Midnight
  BY <1>32, Untouched DEF Midnight, Days
<1>33. ASSUME NEW p \in Posts, CooldownLapses(p)
      PROVE  TypeOK'
  <2>1. RowsOK'
    BY <1>33 DEF CooldownLapses, RowsOK
  <2> QED BY <1>33, <2>1, Untouched DEF CooldownLapses
<1>34. CASE Crash
  <2>1. 0 \in Days
    BY DEF Days
  <2>2. HandlersOK' /\ ResolversOK'
    BY <1>34, <2>1 DEF Crash, HandlersOK, ResolversOK, Awaits
  <2> QED BY <1>34, <2>2, Untouched DEF Crash
<1>35. CASE UNCHANGED vars
  BY <1>35, Untouched DEF vars
<1>36. ASSUME NEW h \in Handlers, HandlerStep(h)
      PROVE  TypeOK'
  BY <1>36, <1>2, <1>3, <1>4, <1>5, <1>6, <1>7, <1>8, <1>9, <1>10, <1>11, <1>12, <1>13, <1>14, <1>15, <1>16, <1>17, <1>18, <1>19, <1>20, <1>21, <1>22, <1>23, <1>24, <1>25, <1>26, <1>27 DEF HandlerStep
<1>37. ASSUME NEW r \in Resolvers, ResolverStep(r)
      PROVE  TypeOK'
  BY <1>37, <1>29, <1>30 DEF ResolverStep
<1> QED
  BY <1>1, <1>28, <1>31, <1>32, <1>33, <1>34, <1>35, <1>36, <1>37 DEF Next

LEMMA TypeInit == Init => TypeOK
<1> SUFFICES ASSUME Init PROVE TypeOK
  OBVIOUS
<1>1. 0 \in Days /\ EmptyDay \in DayRows
  BY EngineAssumption DEF Days, EmptyDay, DayRows
<1> QED
  BY <1>1, EngineAssumption
     DEF Init, TypeOK, MentionsOK, RowsOK, BudgetOK, HandlersOK, ResolversOK, ChainOK,
         Outcomes, Statuses, Awaits, TxStatuses

\* The tables, the handlers and the chain always hold values of their types,
\* however many posts, handlers, days and faults there are.
THEOREM TypeCorrect == Spec => []TypeOK
<1>1. Init => TypeOK
  BY TypeInit
<1>2. TypeOK /\ [Next]_vars => TypeOK'
  BY TypeStep
<1> QED
  BY <1>1, <1>2, PTL DEF Spec

-----------------------------------------------------------------------------
(* One post, one market.  Where nobody forces a retry, a post is on the     *)
(* chain only while it is claimed or after it was settled: the invariant    *)
(* follows the claim (who holds it) and the chain (what was sent for it).   *)

NoForcing == Faults \cap {"force_idle", "force_live"} = {}

\* Nothing was sent for p that may still stand.
Clean(p) == Live(p) = {} /\ swaps[p] = 0

\* The awaits before anything is sent.
BeforeSend ==
  {"routing", "answering", "trading", "pricing", "funding", "preparing",
   "seating", "sending"}

\* A call at work holds the claim of its post, alone.
OneHolder ==
  \A h \in Handlers :
    pc[h] # "idle" =>
      /\ outcome[job[h]] = "claimed"
      /\ \A g \in Handlers : job[g] = job[h] => g = h

HeldIsClean == \A h \in Handlers : pc[h] \in BeforeSend => Clean(job[h])

OpenIsClean == \A p \in Posts : outcome[p] = "none" => Clean(p)

ClaimInv ==
  /\ OneHolder
  /\ HeldIsClean
  /\ OpenIsClean
  /\ OneSwapPerPost
  /\ OneMarketPerPost

LEMMA CleanStays ==
  ASSUME UNCHANGED <<txs, swaps>>
  PROVE  /\ \A p \in Posts : Live(p)' = Live(p) /\ swaps'[p] = swaps[p]
         /\ \A p \in Posts : Clean(p)' <=> Clean(p)
BY DEF txs, Clean, Live

\* A step of h between two awaits that sends nothing and keeps the claim.
LEMMA MoveKeepsClaims ==
  ASSUME TypeOK, ClaimInv, UNCHANGED <<outcome, job, txs, swaps>>,
         NEW h \in Handlers, pc[h] # "idle",
         NEW await \in Awaits \ {"idle"}, pc' = [pc EXCEPT ![h] = await],
         await \in BeforeSend => pc[h] \in BeforeSend
  PROVE  ClaimInv'
<1>1. OneHolder'
  BY DEF OneHolder, ClaimInv, TypeOK, HandlersOK
<1>2. HeldIsClean'
  BY CleanStays DEF HeldIsClean, ClaimInv, TypeOK, HandlersOK, BeforeSend
<1>3. OpenIsClean'
  BY CleanStays DEF OpenIsClean, ClaimInv
<1>4. OneSwapPerPost' /\ OneMarketPerPost'
  BY CleanStays DEF OneSwapPerPost, OneMarketPerPost, ClaimInv
<1> QED BY <1>1, <1>2, <1>3, <1>4 DEF ClaimInv

\* A step in which h lets go of its post, which is given back only if clean.
LEMMA LetGoKeepsClaims ==
  ASSUME TypeOK, ClaimInv, UNCHANGED <<txs, swaps>>,
         NEW h \in Handlers, pc[h] # "idle",
         NEW end \in Settled \cup {"none"}, NEW spoken \in BOOLEAN,
         Settle(job[h], end, spoken), Done(h),
         end = "none" => pc[h] \in BeforeSend
  PROVE  ClaimInv'
<1>1. job[h] \in Posts
  BY AtWork
<1>2. \A g \in Handlers : pc'[g] # "idle" =>
        g # h /\ pc'[g] = pc[g] /\ job'[g] = job[g] /\ job[g] # job[h] /\ job[g] \in Posts
  BY DEF Done, OneHolder, ClaimInv, TypeOK, HandlersOK
<1>3. \A g \in Handlers : job'[g] \in {job[g], NoPost}
  BY DEF Done, TypeOK, HandlersOK
<1>4. OneHolder'
  BY <1>1, <1>2, <1>3, EngineAssumption DEF OneHolder, ClaimInv, Settle, TypeOK, MentionsOK
<1>5. HeldIsClean'
  BY <1>2, CleanStays DEF HeldIsClean, ClaimInv, BeforeSend
<1>6. OpenIsClean'
  BY <1>1, CleanStays DEF OpenIsClean, HeldIsClean, ClaimInv, Settle, TypeOK, MentionsOK
<1>7. OneSwapPerPost' /\ OneMarketPerPost'
  BY CleanStays DEF OneSwapPerPost, OneMarketPerPost, ClaimInv
<1> QED BY <1>4, <1>5, <1>6, <1>7 DEF ClaimInv

LEMMA ThrowKeepsClaims ==
  ASSUME TypeOK, ClaimInv, UNCHANGED <<txs, swaps>>,
         NEW h \in Handlers, pc[h] # "idle",
         NEW retryable \in BOOLEAN, Throw(h, retryable),
         retryable => pc[h] \in BeforeSend
  PROVE  ClaimInv'
<1>1. CASE retryable
  BY <1>1, LetGoKeepsClaims DEF Throw, Release
<1>2. CASE ~retryable
  BY <1>2, MoveKeepsClaims DEF Throw, GoTo, locals, mentions, Awaits, BeforeSend
<1> QED BY <1>1, <1>2

\* The two catches of launch(): a claim is released only before the send.
LEMMA FailKeepsClaims ==
  ASSUME TypeOK, ClaimInv, UNCHANGED <<txs, swaps>>,
         NEW h \in Handlers, pc[h] # "idle",
         \/ FailSent(h)
         \/ FailUnsent(h, FALSE)
         \/ FailUnsent(h, TRUE) /\ pc[h] \in BeforeSend
  PROVE  ClaimInv'
<1>1. CASE FailSent(h)
  BY <1>1, LetGoKeepsClaims DEF FailSent, Settled
<1>2. CASE FailUnsent(h, FALSE)
  BY <1>2, ThrowKeepsClaims DEF FailUnsent
<1>3. CASE FailUnsent(h, TRUE) /\ pc[h] \in BeforeSend
  BY <1>3, ThrowKeepsClaims DEF FailUnsent
<1> QED BY <1>1, <1>2, <1>3

\* A step that touches no claim, no handler and no chain.
LEMMA ElsewhereKeepsClaims ==
  ASSUME ClaimInv, UNCHANGED <<outcome, pc, job, txs, swaps>>
  PROVE  ClaimInv'
BY CleanStays
   DEF ClaimInv, OneHolder, HeldIsClean, OpenIsClean, OneSwapPerPost, OneMarketPerPost,
       Clean, Live, txs

\* The claim is what every step of a handler preserves.
LEMMA HandlerKeepsClaims ==
  ASSUME TypeOK, ClaimInv, NEW h \in Handlers, HandlerStep(h)
  PROVE  ClaimInv'
<1> USE DEF At
<1>1. ASSUME NEW spoken \in BOOLEAN, SettleRefusal(h, spoken)
      PROVE  ClaimInv'
  BY <1>1, LetGoKeepsClaims DEF SettleRefusal, chain, Settled
<1>2. ASSUME NEW next \in Awaits, Route(h, next)
      PROVE  ClaimInv'
  BY <1>2, MoveKeepsClaims DEF Route, GoTo, locals, mentions, chain, Awaits, BeforeSend
<1>3. CASE Ignore(h)
  BY <1>3, LetGoKeepsClaims DEF Ignore, chain, Settled
<1>4. ASSUME NEW retryable \in BOOLEAN, EarlyThrow(h, retryable)
      PROVE  ClaimInv'
  BY <1>4, ThrowKeepsClaims DEF EarlyThrow, chain, BeforeSend
<1>5. ASSUME NEW spoken \in BOOLEAN, Answer(h, spoken)
      PROVE  ClaimInv'
  BY <1>5, LetGoKeepsClaims DEF Answer, chain, Settled
<1>6. CASE SwapFills(h)
  <2>1. job[h] \in Posts /\ swaps[job[h]] = 0
    BY <1>6, AtWork DEF SwapFills, ClaimInv, HeldIsClean, BeforeSend, Clean
  <2>2. OneHolder'
    BY <1>6 DEF SwapFills, GoTo, locals, mentions, OneHolder, ClaimInv, TypeOK, HandlersOK
  <2>3. \A p \in Posts : /\ Live(p)' = Live(p)
                         /\ p # job[h] => Clean(p)' = Clean(p)
    BY <1>6, <2>1 DEF SwapFills, Clean, Live, txs, TypeOK, ChainOK
  <2>4. HeldIsClean'
    <3> SUFFICES ASSUME NEW g \in Handlers, pc'[g] \in BeforeSend
                 PROVE  Clean(job[g])'
      BY <1>6 DEF HeldIsClean, SwapFills, GoTo, locals
    <3>1. g # h /\ pc[g] \in BeforeSend /\ job[g] \in Posts
      BY <1>6, AtWork DEF SwapFills, GoTo, TypeOK, HandlersOK, BeforeSend
    <3>2. job[g] # job[h]
      BY <1>6, <3>1 DEF OneHolder, ClaimInv, SwapFills
    <3> QED
      BY <1>6, <2>3, <3>1, <3>2 DEF HeldIsClean, ClaimInv, SwapFills, GoTo, locals
  <2>5. OpenIsClean'
    BY <1>6, <2>3 DEF OpenIsClean, OneHolder, ClaimInv, SwapFills, mentions
  <2>6. OneSwapPerPost'
    BY <1>6, <2>1 DEF OneSwapPerPost, ClaimInv, SwapFills, TypeOK, ChainOK
  <2>7. OneMarketPerPost'
    BY <2>3 DEF OneMarketPerPost, ClaimInv
  <2> QED BY <2>2, <2>4, <2>5, <2>6, <2>7 DEF ClaimInv
<1>7. CASE SwapRefused(h)
  BY <1>7, MoveKeepsClaims DEF SwapRefused, GoTo, locals, mentions, chain, Awaits, BeforeSend
<1>8. CASE SettleTrade(h)
  BY <1>8, LetGoKeepsClaims DEF SettleTrade, chain, Settled
<1>9. CASE TradeUnconfirmed(h)
  BY <1>9, MoveKeepsClaims DEF TradeUnconfirmed, GoTo, locals, mentions, chain, Awaits, BeforeSend
<1>10. CASE ReserveLaunch(h)
  BY <1>10, MoveKeepsClaims DEF ReserveLaunch, mentions, chain, Awaits, BeforeSend
<1>11. CASE ReserveRefused(h)
  BY <1>11, MoveKeepsClaims DEF ReserveRefused, GoTo, locals, mentions, chain, Awaits, BeforeSend
<1>12. CASE FindSeat(h)
  BY <1>12, MoveKeepsClaims DEF FindSeat, mentions, chain, Awaits, BeforeSend
<1>13. ASSUME NEW retryable \in BOOLEAN, PrepareThrows(h, retryable)
      PROVE  ClaimInv'
  BY <1>13, ThrowKeepsClaims DEF PrepareThrows, chain, BeforeSend
<1>14. CASE WriteRow(h)
  BY <1>14, MoveKeepsClaims DEF WriteRow, GoTo, locals, mentions, chain, Awaits, BeforeSend
<1>15. CASE RowTaken(h)
  BY <1>15, MoveKeepsClaims DEF RowTaken, GoTo, locals, mentions, chain, Awaits, BeforeSend
<1>16. CASE SeatStands(h)
  BY <1>16, MoveKeepsClaims DEF SeatStands, GoTo, locals, mentions, chain, Awaits, BeforeSend
<1>17. CASE DeploySeat(h)
  BY <1>17, MoveKeepsClaims DEF DeploySeat, mentions, Awaits, BeforeSend
<1>18. CASE SeatThrows(h)
  BY <1>18, FailKeepsClaims DEF SeatThrows
<1>19. ASSUME NEW retryable \in BOOLEAN, BuildThrows(h, retryable)
      PROVE  ClaimInv'
  BY <1>19, FailKeepsClaims DEF BuildThrows, chain, BeforeSend
<1>20. ASSUME NEW t \in Tx, Submit(h, t)
      PROVE  ClaimInv'
  <2>1. job[h] \in Posts /\ Live(job[h]) = {}
    BY <1>20, AtWork DEF Submit, ClaimInv, HeldIsClean, BeforeSend, Clean
  <2>2. OneHolder'
    BY <1>20 DEF Submit, mentions, OneHolder, ClaimInv, TypeOK, HandlersOK
  <2>3. \A p \in Posts : Live(p)' = IF p = job[h] THEN {t} ELSE Live(p)
    BY <1>20, <2>1 DEF Submit, Live, TypeOK, ChainOK, TxStatuses
  <2>4. HeldIsClean'
    <3> SUFFICES ASSUME NEW g \in Handlers, pc'[g] \in BeforeSend
                 PROVE  Clean(job[g])'
      BY <1>20 DEF HeldIsClean, Submit
    <3>1. g # h /\ pc[g] \in BeforeSend /\ job[g] \in Posts
      BY <1>20, AtWork DEF Submit, TypeOK, HandlersOK, BeforeSend
    <3>2. job[g] # job[h]
      BY <1>20, <3>1 DEF OneHolder, ClaimInv, Submit
    <3> QED
      BY <1>20, <2>3, <3>1, <3>2 DEF HeldIsClean, ClaimInv, Submit, Clean
  <2>5. OpenIsClean'
    BY <1>20, <2>3 DEF OpenIsClean, OneHolder, ClaimInv, Submit, mentions, Clean
  <2>6. OneSwapPerPost'
    BY <1>20 DEF OneSwapPerPost, ClaimInv, Submit
  <2>7. OneMarketPerPost'
    <3> SUFFICES ASSUME NEW p \in Posts, NEW u \in Live(p)', NEW v \in Live(p)'
                 PROVE  u = v
      BY DEF OneMarketPerPost
    <3>1. CASE p = job[h]
      BY <3>1, <2>3
    <3>2. CASE p # job[h]
      BY <3>2, <2>3 DEF OneMarketPerPost, ClaimInv
    <3> QED BY <3>1, <3>2
  <2> QED BY <2>2, <2>4, <2>5, <2>6, <2>7 DEF ClaimInv
<1>21. CASE RecordHash(h)
  BY <1>21, MoveKeepsClaims DEF RecordHash, mentions, chain, Awaits, BeforeSend
<1>22. CASE LoseHash(h)
  BY <1>22, FailKeepsClaims DEF LoseHash, chain
<1>23. CASE Launched(h)
  BY <1>23, MoveKeepsClaims DEF Launched, GoTo, locals, mentions, chain, Awaits, BeforeSend
<1>24. CASE ReceiptThrows(h)
  BY <1>24, FailKeepsClaims DEF ReceiptThrows, chain
<1>25. CASE Announce(h)
  BY <1>25, LetGoKeepsClaims DEF Announce, chain, Settled
<1>26. CASE AnnounceThrows(h)
  BY <1>26, FailKeepsClaims DEF AnnounceThrows, chain
<1> QED
  BY <1>1, <1>2, <1>3, <1>4, <1>5, <1>6, <1>7, <1>8, <1>9, <1>10, <1>11, <1>12, <1>13, <1>14, <1>15, <1>16, <1>17, <1>18, <1>19, <1>20, <1>21, <1>22, <1>23, <1>24, <1>25, <1>26 DEF HandlerStep

LEMMA ClaimStep ==
  ASSUME NoForcing, TypeOK, ClaimInv, [Next]_vars
  PROVE  ClaimInv'
<1>1. ASSUME NEW h \in Handlers, NEW p \in Posts, Claim(h, p)
      PROVE  ClaimInv'
  <2>1. /\ \A g \in Handlers : job'[g] = IF g = h THEN p ELSE job[g]
        /\ \A g \in Handlers : g # h => pc'[g] = pc[g]
        /\ pc'[h] \in BeforeSend
    BY <1>1 DEF Claim, TypeOK, HandlersOK, BeforeSend
  <2>2. \A q \in Posts : outcome'[q] = IF q = p THEN "claimed" ELSE outcome[q]
    BY <1>1 DEF Claim, Settle, TypeOK, MentionsOK
  <2>3. \A g \in Handlers : job[g] # p
    BY <1>1, EngineAssumption DEF Claim, OneHolder, ClaimInv, TypeOK, HandlersOK
  <2>4. UNCHANGED <<txs, swaps>>
    BY <1>1 DEF Claim, chain
  <2>5. OneHolder'
    BY <2>1, <2>2, <2>3, AtWork DEF OneHolder, ClaimInv
  <2>6. HeldIsClean'
    BY <1>1, <2>1, <2>4, CleanStays, AtWork
       DEF HeldIsClean, OpenIsClean, ClaimInv, Claim, BeforeSend
  <2>7. OpenIsClean'
    BY <2>2, <2>4, CleanStays DEF OpenIsClean, ClaimInv
  <2>8. OneSwapPerPost' /\ OneMarketPerPost'
    BY <2>4, CleanStays DEF OneSwapPerPost, OneMarketPerPost, ClaimInv
  <2> QED BY <2>5, <2>6, <2>7, <2>8 DEF ClaimInv
<1>2. ASSUME NEW h \in Handlers, HandlerStep(h)
      PROVE  ClaimInv'
  BY <1>2, HandlerKeepsClaims
<1>3. ASSUME NEW t \in Tx, NEW ok \in BOOLEAN, Mine(t, ok)
      PROVE  ClaimInv'
  <2>1. \A p \in Posts : Live(p)' \subseteq Live(p)
    BY <1>3 DEF Mine, Live, TypeOK, ChainOK, TxStatuses
  <2>2. UNCHANGED <<outcome, pc, job, swaps>>
    BY <1>3 DEF Mine, mentions, handlers, locals
  <2>3. \A p \in Posts : Clean(p) => Clean(p)'
    BY <2>1, <2>2 DEF Clean
  <2>4. OneHolder'
    BY <2>2 DEF OneHolder, ClaimInv
  <2>5. HeldIsClean'
    BY <2>2, <2>3, AtWork DEF HeldIsClean, ClaimInv, BeforeSend
  <2>6. OpenIsClean'
    BY <2>2, <2>3 DEF OpenIsClean, ClaimInv
  <2>7. OneSwapPerPost' /\ OneMarketPerPost'
    BY <2>1, <2>2 DEF OneSwapPerPost, OneMarketPerPost, ClaimInv
  <2> QED BY <2>4, <2>5, <2>6, <2>7 DEF ClaimInv
<1>4. ASSUME NEW r \in Resolvers, ResolverStep(r)
      PROVE  ClaimInv'
  BY <1>4, ElsewhereKeepsClaims
     DEF ResolverStep, Look, Resolve, mentions, handlers, locals, chain
<1>5. ASSUME NEW p \in Posts
      PROVE  ~ForceRetry(p)
  BY DEF ForceRetry, NoForcing
<1>6. CASE Midnight
  BY <1>6, ElsewhereKeepsClaims DEF Midnight, mentions, handlers, locals, chain
<1>7. ASSUME NEW p \in Posts, CooldownLapses(p)
      PROVE  ClaimInv'
  BY <1>7, ElsewhereKeepsClaims DEF CooldownLapses, mentions, handlers, locals, chain
<1>8. CASE Crash
  <2>1. UNCHANGED <<outcome, txs, swaps>> /\ \A h \in Handlers : pc'[h] = "idle"
    BY <1>8 DEF Crash, mentions, chain
  <2>2. OneHolder' /\ HeldIsClean'
    BY <2>1 DEF OneHolder, HeldIsClean, BeforeSend
  <2>3. OpenIsClean' /\ OneSwapPerPost' /\ OneMarketPerPost'
    BY <2>1, CleanStays DEF OpenIsClean, OneSwapPerPost, OneMarketPerPost, ClaimInv
  <2> QED BY <2>2, <2>3 DEF ClaimInv
<1>9. CASE UNCHANGED vars
  BY <1>9, ElsewhereKeepsClaims DEF vars, mentions, handlers, locals, chain
<1> QED
  BY <1>1, <1>2, <1>3, <1>4, <1>5, <1>6, <1>7, <1>8, <1>9 DEF Next

LEMMA ClaimInit == Init => ClaimInv
<1> SUFFICES ASSUME Init PROVE ClaimInv
  OBVIOUS
<1>1. \A p \in Posts : Clean(p)
  BY DEF Init, Clean, Live
<1> QED
  BY <1>1 DEF Init, ClaimInv, OneHolder, HeldIsClean, OpenIsClean, OneSwapPerPost,
              OneMarketPerPost, BeforeSend, Clean

\* Whatever crashes, lost responses, refused replies and deliveries there are,
\* and however many: one post never has two markets, a trade never fills twice,
\* and a post that can be claimed again has nothing on the chain.  The operator's
\* forced retry is the one thing excluded.
THEOREM OnePostOneMarket ==
  NoForcing /\ Spec => [](OneMarketPerPost /\ OneSwapPerPost /\ ReleasedMeansUnsent)
<1> DEFINE Inv == TypeOK /\ ClaimInv
<1>1. Init => Inv
  BY TypeInit, ClaimInit
<1>2. NoForcing /\ Inv /\ [Next]_vars => Inv'
  BY TypeStep, ClaimStep
<1>3. Inv => OneMarketPerPost /\ OneSwapPerPost /\ ReleasedMeansUnsent
  BY DEF ClaimInv, OpenIsClean, Clean, ReleasedMeansUnsent
<1> QED
  <2>1. CASE NoForcing
    <3>1. Inv /\ [Next]_vars => Inv'
      BY <1>2, <2>1
    <3> HIDE DEF Inv
    <3> QED BY <1>1, <1>3, <3>1, PTL DEF Spec
  <2>2. CASE ~NoForcing
    BY <2>2
  <2> QED BY <2>1, <2>2

\* The row of a post is given back only while no transaction of it stands: a
\* "failed_retryable" row may be tried again without a second market.
THEOREM ReleasedPostsAreUnsent == NoForcing /\ Spec => []ReleasedMeansUnsent
BY OnePostOneMarket, PTL

\* A post that asks for a swap has at most one swap sent for it.
THEOREM SwapsFillOnce == NoForcing /\ Spec => []OneSwapPerPost
BY OnePostOneMarket, PTL

-----------------------------------------------------------------------------
(* The engine implements PostLife: at most one post's fate changes in a     *)
(* step, and it changes as PostLife lets it.                                *)

LEMMA FateCases ==
  ASSUME NEW p \in Posts
  PROVE  /\ (\E t \in Live(p) : txStatus[t] = "success") => Fate(p) = "market"
         /\ Live(p) # {} /\ (\A t \in Live(p) : txStatus[t] # "success") => Fate(p) = "pending"
         /\ Live(p) = {} /\ outcome[p] = "none" => Fate(p) = "open"
         /\ Live(p) = {} /\ outcome[p] = "claimed" => Fate(p) = "held"
         /\ Live(p) = {} /\ outcome[p] \notin {"none", "claimed"} => Fate(p) = "closed"
BY DEF Fate

\* A step that moves one post as PostLife allows, and no other, is its step.
LEMMA FateMoves ==
  ASSUME NEW p \in Posts,
         \A q \in Posts \ {p} : Fate(q)' = Fate(q),
         \/ Fate(p)' = Fate(p)
         \/ Fate(p) = "open" /\ Fate(p)' = "held"
         \/ Fate(p) = "held" /\ Fate(p)' \in {"open", "pending", "closed"}
         \/ Fate(p) = "pending" /\ Fate(p)' \in {"market", "held", "closed"}
  PROVE  Life!Next \/ UNCHANGED fates
<1>1. CASE Fate(p)' = Fate(p)
  BY <1>1 DEF fates
<1>2. ASSUME Fate(p)' # Fate(p)
      PROVE  Life!Next
  <2>1. fates' = [fates EXCEPT ![p] = Fate(p)']
    BY DEF fates
  <2> QED
    BY <1>2, <2>1
       DEF fates, Life!Next, Life!Take, Life!GiveBack, Life!Send, Life!Succeed, Life!Revert,
           Life!Close, Life!Move
<1> QED BY <1>1, <1>2

\* Fate reads the outcome of a post and what was sent for it, nothing else.
LEMMA FateStays ==
  ASSUME UNCHANGED txs, NEW p \in Posts, outcome'[p] = outcome[p]
  PROVE  Fate(p)' = Fate(p)
BY DEF Fate, Live, txs

LEMMA FateStutters ==
  ASSUME UNCHANGED <<outcome, txs>>
  PROVE  UNCHANGED fates
BY FateStays DEF fates

\* What a handler's step can do to a fate: nothing, end its claim, or send.
LEMMA HandlerEffect ==
  ASSUME NEW h \in Handlers, HandlerStep(h)
  PROVE  \/ UNCHANGED <<outcome, txs>>
         \/ /\ UNCHANGED txs /\ pc[h] # "idle"
            /\ \E end \in Settled \cup {"none"}, spoken \in BOOLEAN :
                 Settle(job[h], end, spoken)
         \/ \E t \in Tx : Submit(h, t)
<1> DEFINE Ends == /\ UNCHANGED txs /\ pc[h] # "idle"
                   /\ \E end \in Settled \cup {"none"}, spoken \in BOOLEAN :
                        Settle(job[h], end, spoken)
<1> USE DEF At, chain, mentions
<1>1. ASSUME NEW spoken \in BOOLEAN, SettleRefusal(h, spoken) \/ Answer(h, spoken)
      PROVE  Ends
  BY <1>1 DEF SettleRefusal, Answer, Settled
<1>2. ASSUME Ignore(h) \/ SettleTrade(h) \/ Announce(h)
      PROVE  Ends
  BY <1>2 DEF Ignore, SettleTrade, Announce, Settled
<1>3. ASSUME NEW retryable \in BOOLEAN, Throw(h, retryable), UNCHANGED txs, pc[h] # "idle"
      PROVE  UNCHANGED <<outcome, txs>> \/ Ends
  BY <1>3 DEF Throw, Release
<1>4. ASSUME NEW retryable \in BOOLEAN, EarlyThrow(h, retryable) \/ PrepareThrows(h, retryable)
      PROVE  UNCHANGED <<outcome, txs>> \/ Ends
  BY <1>3, <1>4 DEF EarlyThrow, PrepareThrows
<1>5. ASSUME FailSent(h) \/ (\E retryable \in BOOLEAN : FailUnsent(h, retryable)),
             UNCHANGED txs, pc[h] # "idle"
      PROVE  UNCHANGED <<outcome, txs>> \/ Ends
  BY <1>3, <1>5 DEF FailSent, FailUnsent, Settled
<1>6. ASSUME NEW retryable \in BOOLEAN, BuildThrows(h, retryable)
      PROVE  UNCHANGED <<outcome, txs>> \/ Ends
  BY <1>5, <1>6 DEF BuildThrows
<1>7. ASSUME SeatThrows(h) \/ LoseHash(h) \/ ReceiptThrows(h) \/ AnnounceThrows(h)
      PROVE  UNCHANGED <<outcome, txs>> \/ Ends
  BY <1>5, <1>7 DEF SeatThrows, LoseHash, ReceiptThrows, AnnounceThrows
<1>8. ASSUME NEW next \in Awaits, Route(h, next)
      PROVE  UNCHANGED <<outcome, txs>>
  BY <1>8 DEF Route
<1>9. ASSUME \/ SwapFills(h) \/ SwapRefused(h) \/ TradeUnconfirmed(h)
             \/ ReserveLaunch(h) \/ ReserveRefused(h) \/ FindSeat(h)
      PROVE  UNCHANGED <<outcome, txs>>
  BY <1>9 DEF SwapFills, SwapRefused, TradeUnconfirmed, ReserveLaunch, ReserveRefused, FindSeat
<1>10. ASSUME \/ WriteRow(h) \/ RowTaken(h) \/ SeatStands(h)
              \/ DeploySeat(h) \/ RecordHash(h) \/ Launched(h)
       PROVE  UNCHANGED <<outcome, txs>>
  BY <1>10 DEF WriteRow, RowTaken, SeatStands, DeploySeat, RecordHash, Launched
<1> QED
  BY <1>1, <1>2, <1>4, <1>6, <1>7, <1>8, <1>9, <1>10 DEF HandlerStep

LEMMA FateStep ==
  ASSUME NoForcing, TypeOK, ClaimInv, [Next]_vars
  PROVE  Life!Next \/ UNCHANGED fates
<1> USE DEF mentions, chain
<1>1. ASSUME NEW h \in Handlers, NEW p \in Posts, Claim(h, p)
      PROVE  Life!Next \/ UNCHANGED fates
  <2>1. UNCHANGED txs /\ \A q \in Posts : q # p => outcome'[q] = outcome[q]
    BY <1>1 DEF Claim, Settle, TypeOK, MentionsOK
  <2>2. Live(p) = {} /\ Live(p)' = {} /\ outcome[p] = "none" /\ outcome'[p] = "claimed"
    BY <1>1, <2>1
       DEF Claim, Settle, ClaimInv, OpenIsClean, Clean, TypeOK, MentionsOK, Live, txs
  <2>3. Fate(p) = "open" /\ Fate(p)' = "held"
    BY <2>2 DEF Fate
  <2>4. \A q \in Posts \ {p} : Fate(q)' = Fate(q)
    BY <2>1, FateStays
  <2> QED BY <2>3, <2>4, FateMoves
<1>2. ASSUME NEW h \in Handlers, HandlerStep(h)
      PROVE  Life!Next \/ UNCHANGED fates
  <2>1. CASE UNCHANGED <<outcome, txs>>
    BY <2>1, FateStutters
  <2>2. ASSUME UNCHANGED txs, pc[h] # "idle",
               NEW end \in Settled \cup {"none"}, NEW spoken \in BOOLEAN,
               Settle(job[h], end, spoken)
        PROVE  Life!Next \/ UNCHANGED fates
    <3>1. job[h] \in Posts
      BY <2>2, AtWork
    <3> DEFINE p == job[h]
    <3>2. \A q \in Posts \ {p} : Fate(q)' = Fate(q)
      BY <2>2, FateStays DEF Settle, TypeOK, MentionsOK
    <3>3. /\ outcome[p] = "claimed" /\ outcome'[p] = end
          /\ Live(p) = {t \in Tx : txPost[t] = p /\ txStatus[t] \in {"pending", "success"}}
          /\ \A q \in Posts : Live(q)' = Live(q)
          /\ txStatus' = txStatus
      BY <2>2, <3>1 DEF Settle, ClaimInv, OneHolder, TypeOK, MentionsOK, Live, txs
    <3> HIDE DEF p
    <3>4. \A q \in Posts : q = p => \/ Fate(q)' = Fate(q)
                                    \/ Fate(q) = "held" /\ Fate(q)' \in {"open", "closed"}
      BY <3>3 DEF Fate, Settled
    <3>5. p \in Posts
      BY <3>1 DEF p
    <3> QED BY <3>2, <3>4, <3>5, FateMoves
  <2>3. ASSUME NEW t \in Tx, Submit(h, t)
        PROVE  Life!Next \/ UNCHANGED fates
    <3>1. PICK p \in Posts : p = job[h]
      BY <2>3, AtWork DEF Submit, At
    <3>2. \A q \in Posts : Live(q)' = IF q = p THEN {t} ELSE Live(q)
      BY <2>3, <3>1 DEF Submit, At, ClaimInv, HeldIsClean, BeforeSend, Clean, Live, TypeOK, ChainOK
    <3>3. \A q \in Posts \ {p} : \A u \in Live(q) : txStatus'[u] = txStatus[u]
      BY <2>3 DEF Submit, Live, TypeOK, ChainOK
    <3>4. \A q \in Posts \ {p} : Fate(q)' = Fate(q)
      BY <2>3, <3>2, <3>3 DEF Fate, Submit
    <3>5. Live(p) = {} /\ outcome[p] = "claimed" /\ txStatus'[t] = "pending"
      BY <2>3, <3>1
         DEF Submit, At, ClaimInv, HeldIsClean, OneHolder, BeforeSend, Clean, TypeOK, ChainOK
    <3>6. Fate(p) = "held" /\ Fate(p)' = "pending"
      BY <3>2, <3>5 DEF Fate
    <3> QED BY <3>4, <3>6, FateMoves
  <2> QED BY <1>2, <2>1, <2>2, <2>3, HandlerEffect
<1>3. ASSUME NEW t \in Tx, NEW ok \in BOOLEAN, Mine(t, ok)
      PROVE  Life!Next \/ UNCHANGED fates
  <2>1. outcome' = outcome /\ txPost' = txPost /\ txStatus[t] = "pending"
    BY <1>3 DEF Mine
  <2>2. \A u \in Tx : txStatus'[u] =
          IF u = t THEN (IF ok THEN "success" ELSE "reverted") ELSE txStatus[u]
    BY <1>3 DEF Mine, TypeOK, ChainOK
  <2>3. \A q \in Posts : q # txPost[t] => Fate(q)' = Fate(q)
    BY <2>1, <2>2 DEF Fate, Live
  <2>4. CASE txPost[t] \notin Posts
    BY <2>3, <2>4 DEF fates
  <2>5. ASSUME NEW p \in Posts, p = txPost[t]
        PROVE  Life!Next \/ UNCHANGED fates
    <3>1. t \in Live(p)
      BY <2>1, <2>5 DEF Live
    <3>2. Live(p) = {t} /\ outcome[p] # "none"
      BY <3>1 DEF ClaimInv, OneMarketPerPost, OpenIsClean, Clean
    <3>3. Live(p)' = IF ok THEN {t} ELSE {}
      BY <2>1, <2>2, <3>1, <3>2 DEF Live
    <3>4. Fate(p) = "pending"
      BY <2>1, <3>2 DEF Fate
    <3>5. Fate(p)' \in {"market", "held", "closed"}
      BY <2>1, <2>2, <3>2, <3>3 DEF Fate
    <3> QED BY <2>3, <2>5, <3>4, <3>5, FateMoves
  <2> QED BY <2>4, <2>5
<1>4. ASSUME NEW r \in Resolvers, ResolverStep(r)
      PROVE  UNCHANGED fates
  BY <1>4, FateStutters DEF ResolverStep, Look, Resolve
<1>5. ASSUME NEW p \in Posts
      PROVE  ~ForceRetry(p)
  BY DEF ForceRetry, NoForcing
<1>6. ASSUME Midnight \/ (\E p \in Posts : CooldownLapses(p)) \/ Crash
      PROVE  UNCHANGED fates
  BY <1>6, FateStutters DEF Midnight, CooldownLapses, Crash
<1>7. CASE UNCHANGED vars
  BY <1>7, FateStutters DEF vars
<1> QED
  BY <1>1, <1>2, <1>3, <1>4, <1>5, <1>6, <1>7 DEF Next

LEMMA FateInit == Init => Life!Init
BY DEF Init, Life!Init, fates, Fate, Live

\* Every behaviour of the engine, seen post by post, is one PostLife allows:
\* a market or a closed post is final, and nothing is sent for a post that was
\* given back until it is taken again.
THEOREM ImplementsPostLife == NoForcing /\ Spec => KeepsThePromise
<1> DEFINE Inv == TypeOK /\ ClaimInv
<1>1. Init => Inv /\ Life!Init
  BY TypeInit, ClaimInit, FateInit
<1>2. NoForcing /\ Inv /\ [Next]_vars => Inv'
  BY TypeStep, ClaimStep
<1>3. NoForcing /\ Inv /\ [Next]_vars => [Life!Next]_fates
  BY FateStep
<1>4. CASE NoForcing
  <2>1. Inv /\ [Next]_vars => Inv'
    BY <1>2, <1>4
  <2>2. Inv /\ [Next]_vars => [Life!Next]_fates
    BY <1>3, <1>4
  <2> HIDE DEF Inv
  <2> QED BY <1>1, <2>1, <2>2, PTL DEF Spec, KeepsThePromise, Life!Spec
<1> QED BY <1>4

\* Whatever a handler does between two awaits, its own locals are all it moves.
LEMMA AloneAtWork ==
  ASSUME TypeOK, NEW h \in Handlers, HandlerStep(h)
  PROVE  /\ pc[h] # "idle"
         /\ \A g \in Handlers \ {h} :
              /\ pc'[g] = pc[g] /\ job'[g] = job[g] /\ sent'[g] = sent[g]
              /\ seated'[g] = seated[g] /\ created'[g] = created[g]
              /\ takenOn'[g] = takenOn[g]
<1> DEFINE Alone ==
             /\ pc[h] # "idle"
             /\ \A g \in Handlers \ {h} :
                  /\ pc'[g] = pc[g] /\ job'[g] = job[g] /\ sent'[g] = sent[g]
                  /\ seated'[g] = seated[g] /\ created'[g] = created[g]
                  /\ takenOn'[g] = takenOn[g]
<1> USE DEF At
<1>1. /\ pc \in [Handlers -> Awaits] /\ job \in [Handlers -> Posts \cup {NoPost}]
      /\ sent \in [Handlers -> BOOLEAN] /\ seated \in [Handlers -> BOOLEAN]
      /\ created \in [Handlers -> Tx \cup {NoTx}] /\ takenOn \in [Handlers -> Days]
  BY DEF TypeOK, HandlersOK
<1>2. ASSUME Done(h), pc[h] # "idle" PROVE Alone
  BY <1>1, <1>2 DEF Done
<1>3. ASSUME NEW await, GoTo(h, await), pc[h] # "idle" PROVE Alone
  BY <1>1, <1>3 DEF GoTo, locals
<1>4. ASSUME NEW retryable, Throw(h, retryable), pc[h] # "idle" PROVE Alone
  <2>1. Done(h) \/ GoTo(h, "refusing")
    BY <1>4 DEF Throw
  <2> QED
    BY <1>2, <1>3, <1>4, <2>1
<1>5. ASSUME FailSent(h) \/ (\E retryable \in BOOLEAN : FailUnsent(h, retryable)), pc[h] # "idle"
      PROVE  Alone
  <2>1. Done(h) \/ \E retryable \in BOOLEAN : Throw(h, retryable)
    BY <1>5 DEF FailSent, FailUnsent
  <2> HIDE DEF Alone
  <2> QED
    BY <1>2, <1>4, <1>5, <2>1
<1>6. ASSUME NEW spoken \in BOOLEAN,
             \/ SettleRefusal(h, spoken) \/ Ignore(h) \/ Answer(h, spoken)
             \/ SettleTrade(h) \/ Announce(h)
      PROVE  Alone
  <2>1. Done(h) /\ pc[h] # "idle"
    BY <1>6 DEF SettleRefusal, Ignore, Answer, SettleTrade, Announce
  <2> QED
    BY <1>2, <2>1
<1>7. ASSUME NEW next \in Awaits,
             \/ Route(h, next) \/ SwapFills(h) \/ SwapRefused(h) \/ TradeUnconfirmed(h)
             \/ ReserveRefused(h) \/ WriteRow(h) \/ RowTaken(h) \/ SeatStands(h) \/ Launched(h)
      PROVE  Alone
  <2>1. pc[h] # "idle" /\ \E await \in Awaits : GoTo(h, await)
    BY <1>7 DEF Route, SwapFills, SwapRefused, TradeUnconfirmed, ReserveRefused, WriteRow,
                RowTaken, SeatStands, Launched, Awaits
  <2> QED
    BY <1>3, <2>1
<1>8. ASSUME NEW retryable \in BOOLEAN, EarlyThrow(h, retryable) \/ PrepareThrows(h, retryable)
      PROVE  Alone
  <2>1. pc[h] # "idle" /\ Throw(h, retryable)
    BY <1>8 DEF EarlyThrow, PrepareThrows
  <2> QED
    BY <1>4, <2>1
<1>9. ASSUME NEW retryable \in BOOLEAN,
             \/ SeatThrows(h) \/ BuildThrows(h, retryable) \/ LoseHash(h)
             \/ ReceiptThrows(h) \/ AnnounceThrows(h)
      PROVE  Alone
  <2>1. /\ pc[h] # "idle"
        /\ FailSent(h) \/ (\E again \in BOOLEAN : FailUnsent(h, again))
    BY <1>9 DEF SeatThrows, BuildThrows, LoseHash, ReceiptThrows, AnnounceThrows
  <2> QED
    BY <1>5, <2>1
<1>10. ASSUME NEW t \in Tx, Submit(h, t)
       PROVE  Alone
  BY <1>1, <1>10 DEF Submit
<1>11. ASSUME ReserveLaunch(h) \/ FindSeat(h) \/ DeploySeat(h) \/ RecordHash(h)
       PROVE  Alone
  BY <1>1, <1>11 DEF ReserveLaunch, FindSeat, DeploySeat, RecordHash
<1> HIDE DEF Alone
<1>12. Alone
  BY <1>6, <1>7, <1>8, <1>9, <1>10, <1>11 DEF HandlerStep, Awaits
<1> QED
  BY <1>12 DEF Alone

-----------------------------------------------------------------------------
(* The gas.  What the wallet has paid, what is in the mempool, and what the *)
(* calls at work may still spend, are covered by the ledger together.  The  *)
(* estimate must cover both transactions of a launch, and no error may hide *)
(* one of them: a lost response or a seat mined after its wait gave up is   *)
(* paid for and never charged.                                              *)

GasHypothesis ==
  /\ IsFiniteSet(Handlers) /\ IsFiniteSet(Tx)
  /\ SeatGas + CreateGas <= EstimateGas
  /\ Faults \cap {"lost_reply", "seat_failure"} = {}

\* The seat a call may still have to deploy, or has deployed and not charged.
OwnSeat(h) == IF seated[h] THEN 0 ELSE SeatGas

\* What the reservation of a call still covers: the estimate, less what the
\* call has spent of it already.
Rest(h) ==
  IF pc[h] \in {"funding", "preparing", "seating"} THEN EstimateGas
  ELSE IF pc[h] = "sending" THEN EstimateGas - OwnSeat(h)
  ELSE IF pc[h] \in {"submitted", "waiting"} THEN EstimateGas - OwnSeat(h) - CreateGas
  ELSE 0

rest == [h \in Handlers |-> Rest(h)]

\* What the mempool will cost once it is mined.
unmined == [t \in Tx |-> IF txStatus[t] = "pending" THEN CreateGas ELSE 0]

\* A call about to send that sent nothing before found its seat standing.
SeatsPaid == \A h \in Handlers : At(h, "sending") /\ ~sent[h] => seated[h]

Covered == paid + SumOf(unmined, Tx) + SumOf(rest, Handlers) <= SumOf(dayGas, Days)

GasInv == SeatsPaid /\ Covered

GasTypes ==
  /\ \A h \in Handlers : rest[h] \in Nat
  /\ \A t \in Tx : unmined[t] \in Nat
  /\ \A d \in Days : dayGas[d] \in Nat
  /\ SumOf(rest, Handlers) \in Nat
  /\ SumOf(unmined, Tx) \in Nat
  /\ SumOf(dayGas, Days) \in Nat

LEMMA GasTerms == GasHypothesis /\ TypeOK => GasTypes
<1> SUFFICES ASSUME GasHypothesis, TypeOK PROVE GasTypes
  OBVIOUS
<1>1. \A h \in Handlers : rest[h] \in Nat
  BY EngineAssumption, BudgetAssumption DEF GasHypothesis, rest, Rest, OwnSeat, TypeOK, HandlersOK
<1>2. \A t \in Tx : unmined[t] \in Nat
  BY EngineAssumption DEF unmined
<1>3. \A d \in Days : dayGas[d] \in Nat
  BY DEF dayGas, UsedGas, TypeOK, BudgetOK, DayRows
<1>4. IsFiniteSet(Days)
  BY EngineAssumption, FS_Interval DEF Days
<1> QED
  BY <1>1, <1>2, <1>3, <1>4, SumNat DEF GasHypothesis, GasTypes

\* A ledger row that gains no less than some change, gains the day's gas as much.
LEMMA LedgerGains ==
  ASSUME GasHypothesis, TypeOK, NEW row \in DayRows, NEW gain \in Int,
         days' = [days EXCEPT ![today] = row],
         UsedGas(row) >= UsedGas(days[today]) + gain
  PROVE  SumOf(dayGas, Days)' \in Nat /\ SumOf(dayGas, Days)' >= SumOf(dayGas, Days) + gain
<1>1. IsFiniteSet(Days)
  BY EngineAssumption, FS_Interval DEF Days
<1>2. \A d \in Days : dayGas'[d] = IF d = today THEN UsedGas(row) ELSE dayGas[d]
  BY DEF dayGas, TypeOK, BudgetOK
<1>3. today \in Days /\ \A d \in Days : dayGas[d] \in Nat /\ dayGas'[d] \in Nat
  BY <1>2, GasTerms DEF GasTypes, TypeOK, DayRows, UsedGas
<1>4. SumOf(dayGas', Days) = SumOf(dayGas, Days) - dayGas[today] + dayGas'[today]
  <2>1. \A d \in Days : dayGas[d] \in Int /\ dayGas'[d] \in Int
    BY <1>3
  <2>2. \A d \in Days \ {today} : dayGas'[d] = dayGas[d]
    BY <1>2
  <2> HIDE DEF dayGas
  <2> QED
    BY <1>1, <1>3, <2>1, <2>2, SumChange
<1>5. SumOf(dayGas', Days) \in Nat
  BY <1>1, <1>3, SumNat
<1>6. dayGas[today] = UsedGas(days[today])
  BY <1>3 DEF dayGas
<1>7. SumOf(dayGas, Days) \in Nat
  BY GasTerms DEF GasTypes
<1>8. dayGas'[today] = UsedGas(row) /\ dayGas[today] \in Nat /\ dayGas'[today] \in Nat
  BY <1>2, <1>3
<1> QED
  BY <1>4, <1>5, <1>6, <1>7, <1>8

\* What the three transactions of the ledger do to the gas it holds.
LEMMA LedgerMoves ==
  ASSUME NEW day \in DayRows
  PROVE  /\ UsedGas(TakeRoom(day)) = UsedGas(day) + EstimateGas
         /\ UsedGas(GiveBack(day)) >= UsedGas(day) + (0 - EstimateGas)
         /\ \A actual \in Nat :
              UsedGas(Charge(day, actual)) >= UsedGas(day) + (actual - EstimateGas)
BY BudgetAssumption DEF DayRows, UsedGas, TakeRoom, GiveBack, Charge, Monus

\* A step of one call: what it spends or promises is no more than what the
\* ledger gains.
LEMMA GasMoves ==
  ASSUME GasHypothesis, TypeOK, TypeOK', Covered,
         NEW h \in Handlers,
         \A g \in Handlers \ {h} : pc'[g] = pc[g] /\ seated'[g] = seated[g],
         NEW gain \in Int, SumOf(dayGas, Days)' >= SumOf(dayGas, Days) + gain,
         paid' + SumOf(unmined, Tx)' + rest'[h] <= paid + SumOf(unmined, Tx) + rest[h] + gain
  PROVE  Covered'
<1>1. \A g \in Handlers \ {h} : rest'[g] = rest[g]
  BY DEF rest, Rest, OwnSeat
<1>2. /\ \A g \in Handlers : rest[g] \in Nat /\ rest'[g] \in Nat
      /\ SumOf(unmined, Tx) \in Nat /\ SumOf(unmined', Tx) \in Nat
      /\ SumOf(dayGas, Days) \in Nat /\ SumOf(dayGas', Days) \in Nat
      /\ SumOf(rest, Handlers) \in Nat /\ SumOf(rest', Handlers) \in Nat
  <2>1. GasHypothesis'
    BY DEF GasHypothesis
  <2>2. GasTypes /\ GasTypes'
    BY <2>1, GasTerms, PTL
  <2> QED
    BY <2>2 DEF GasTypes
<1>3. SumOf(rest', Handlers) = SumOf(rest, Handlers) - rest[h] + rest'[h]
  <2>1. \A g \in Handlers : rest[g] \in Int /\ rest'[g] \in Int
    BY <1>2
  <2> HIDE DEF rest
  <2> QED
    BY <1>1, <2>1, SumChange DEF GasHypothesis
<1>4. paid \in Nat /\ paid' \in Nat
  BY DEF TypeOK, ChainOK
<1> QED
  BY <1>2, <1>3, <1>4 DEF Covered

\* A step of one call that leaves the ledger and the chain's bill alone.
LEMMA GasStays ==
  ASSUME GasHypothesis, TypeOK, TypeOK', Covered,
         NEW h \in Handlers,
         \A g \in Handlers \ {h} : pc'[g] = pc[g] /\ seated'[g] = seated[g],
         UNCHANGED <<days, paid, txStatus>>, rest'[h] <= rest[h]
  PROVE  Covered'
<1>1. SumOf(dayGas, Days)' = SumOf(dayGas, Days) /\ SumOf(unmined, Tx)' = SumOf(unmined, Tx)
  BY DEF dayGas, unmined
<1>2. /\ SumOf(dayGas, Days) \in Nat /\ SumOf(unmined, Tx) \in Nat
      /\ rest[h] \in Nat
  BY GasTerms DEF GasTypes
<1>3. paid \in Nat /\ rest'[h] \in Int
  <2>1. GasHypothesis'
    BY DEF GasHypothesis
  <2>2. GasTypes'
    BY <2>1, GasTerms, PTL
  <2> QED
    BY <2>2 DEF GasTypes, TypeOK, ChainOK
<1>4. SumOf(dayGas, Days)' >= SumOf(dayGas, Days) + 0
  BY <1>1, <1>2
<1>5. paid' + SumOf(unmined, Tx)' + rest'[h] <= paid + SumOf(unmined, Tx) + rest[h] + 0
  BY <1>1, <1>2, <1>3
<1> QED
  BY <1>4, <1>5, GasMoves

\* The same, where the ledger changes and the chain does not.
LEMMA GasSettles ==
  ASSUME GasHypothesis, TypeOK, TypeOK', Covered,
         NEW h \in Handlers,
         \A g \in Handlers \ {h} : pc'[g] = pc[g] /\ seated'[g] = seated[g],
         UNCHANGED <<paid, txStatus>>,
         NEW row \in DayRows, NEW gain \in Int,
         days' = [days EXCEPT ![today] = row],
         UsedGas(row) >= UsedGas(days[today]) + gain,
         rest'[h] <= rest[h] + gain
  PROVE  Covered'
<1>1. SumOf(unmined, Tx)' = SumOf(unmined, Tx)
  BY DEF unmined
<1>2. SumOf(unmined, Tx) \in Nat /\ rest[h] \in Nat
  BY GasTerms DEF GasTypes
<1>3. paid \in Nat /\ rest'[h] \in Int
  <2>1. GasHypothesis'
    BY DEF GasHypothesis
  <2>2. GasTypes'
    BY <2>1, GasTerms, PTL
  <2> QED
    BY <2>2 DEF GasTypes, TypeOK, ChainOK
<1>4. SumOf(dayGas, Days)' >= SumOf(dayGas, Days) + gain
  BY LedgerGains
<1>5. paid' + SumOf(unmined, Tx)' + rest'[h] <= paid + SumOf(unmined, Tx) + rest[h] + gain
  BY <1>1, <1>2, <1>3
<1> QED
  BY <1>4, <1>5, GasMoves

\* Where a call is after its step, and whether its seat stood, give its rest.
LEMMA RestOf ==
  ASSUME NEW h \in Handlers
  PROVE  rest[h] = Rest(h) /\ rest'[h] = Rest(h)'
BY DEF rest

\* What the gas of a call depends on, after each of the ways it moves.
LEMMA GasOfMoves ==
  ASSUME TypeOK, NEW h \in Handlers, pc[h] # "idle"
  PROVE  /\ Done(h) => pc'[h] = "idle"
         /\ \A await \in Awaits : GoTo(h, await) =>
              pc'[h] = await /\ seated'[h] = seated[h] /\ sent'[h] = sent[h]
         /\ \A retryable \in BOOLEAN : Throw(h, retryable) => pc'[h] \in {"idle", "refusing"}
BY DEF TypeOK, HandlersOK, Done, GoTo, Throw, locals

LEMMA HandlerGas ==
  ASSUME GasHypothesis, TypeOK, TypeOK', GasInv, NEW h \in Handlers, HandlerStep(h)
  PROVE  Covered'
<1> USE DEF At, chain
<1>0. /\ Covered /\ pc[h] # "idle"
      /\ \A g \in Handlers \ {h} : pc'[g] = pc[g] /\ seated'[g] = seated[g]
  BY AloneAtWork DEF GasInv
<1>1. /\ SeatGas \in Nat /\ CreateGas \in Nat /\ EstimateGas \in Nat
      /\ SeatGas + CreateGas <= EstimateGas
      /\ OwnSeat(h) \in {0, SeatGas} /\ today \in Days /\ days[today] \in DayRows
      /\ rest[h] \in Nat
      /\ days \in [Days -> DayRows]
  BY EngineAssumption, BudgetAssumption, GasTerms
     DEF GasHypothesis, GasTypes, OwnSeat, TypeOK, BudgetOK
<1>2. ASSUME UNCHANGED <<days, paid, txStatus>>, rest'[h] <= rest[h]
      PROVE  Covered'
  BY <1>0, <1>2, GasStays
<1>3. ASSUME UNCHANGED <<days, paid, txStatus>>, pc'[h] \in {"idle", "refusing", "announcing"}
      PROVE  Covered'
  <2>1. rest'[h] = 0
    BY <1>3, RestOf DEF Rest
  <2> QED
    BY <1>1, <1>2, <1>3, <2>1
<1>4. ASSUME UNCHANGED <<paid, txStatus>>, pc'[h] \in {"idle", "refusing"},
             NEW u \in Users, ReleaseReservation(u), rest[h] = EstimateGas
      PROVE  Covered'
  <2>1. rest'[h] = 0
    BY <1>4, RestOf DEF Rest
  <2>2. GiveBack(days[today]) \in DayRows /\ 0 - EstimateGas \in Int
    BY <1>1, LedgerTypes
  <2>3. UsedGas(GiveBack(days[today])) >= UsedGas(days[today]) + (0 - EstimateGas)
    BY <1>1, LedgerMoves
  <2>4. days' = [days EXCEPT ![today] = GiveBack(days[today])]
    BY <1>4 DEF ReleaseReservation
  <2>5. rest'[h] <= rest[h] + (0 - EstimateGas)
    BY <1>1, <1>4, <2>1
  <2> QED
    BY <1>0, <1>4, <2>2, <2>3, <2>4, <2>5, GasSettles
<1>5. ASSUME UNCHANGED <<paid, txStatus>>, FailSent(h)
      PROVE  Covered'
  <2>1. rest'[h] = 0
    BY <1>0, <1>5, GasOfMoves, RestOf DEF Rest, FailSent
  <2>2. Charge(days[today], EstimateGas) \in DayRows
    BY <1>1, LedgerTypes
  <2>3. UsedGas(Charge(days[today], EstimateGas))
          >= UsedGas(days[today]) + (EstimateGas - EstimateGas)
    BY <1>1, LedgerMoves
  <2>4. days' = [days EXCEPT ![today] = Charge(days[today], EstimateGas)]
    BY <1>5 DEF FailSent
  <2>5. EstimateGas - EstimateGas \in Int /\ rest'[h] <= rest[h] + (EstimateGas - EstimateGas)
    BY <1>1, <2>1
  <2> QED
    BY <1>0, <1>5, <2>2, <2>3, <2>4, <2>5, GasSettles
<1>6. ASSUME NEW spoken \in BOOLEAN,
             \/ SettleRefusal(h, spoken) \/ Ignore(h) \/ Answer(h, spoken)
             \/ SettleTrade(h) \/ Announce(h)
      PROVE  Covered'
  <2>1. UNCHANGED <<days, paid, txStatus>> /\ Done(h)
    BY <1>6 DEF SettleRefusal, Ignore, Answer, SettleTrade, Announce, budget, txs
  <2> QED
    BY <1>0, <1>3, <2>1, GasOfMoves
<1>7. ASSUME NEW retryable \in BOOLEAN, EarlyThrow(h, retryable)
      PROVE  Covered'
  <2>1. UNCHANGED <<days, paid, txStatus>> /\ Throw(h, retryable)
    BY <1>7 DEF EarlyThrow, budget, txs
  <2> QED
    BY <1>0, <1>3, <2>1, GasOfMoves
<1>8. ASSUME NEW next \in Awaits, Route(h, next)
      PROVE  Covered'
  <2>1. UNCHANGED <<days, paid, txStatus>> /\ pc'[h] \in {"answering", "pricing"}
    BY <1>0, <1>8, GasOfMoves DEF Route, budget, txs
  <2>2. rest'[h] = 0
    BY <2>1, RestOf DEF Rest
  <2> QED
    BY <1>1, <1>2, <2>1, <2>2
<1>9. ASSUME SwapFills(h) \/ SwapRefused(h) \/ TradeUnconfirmed(h) \/ ReserveRefused(h)
      PROVE  Covered'
  <2>1. UNCHANGED <<days, paid, txStatus>> /\ pc'[h] \in {"confirming", "refusing"}
    BY <1>0, <1>9, GasOfMoves
       DEF SwapFills, SwapRefused, TradeUnconfirmed, ReserveRefused, budget, txs, Awaits
  <2>2. rest'[h] = 0
    BY <2>1, RestOf DEF Rest
  <2> QED
    BY <1>1, <1>2, <2>1, <2>2
<1>10. CASE ReserveLaunch(h)
  <2>1. /\ UNCHANGED <<paid, txStatus>> /\ pc[h] = "pricing" /\ pc'[h] = "funding"
        /\ days' = [days EXCEPT ![today] = TakeRoom(days[today])]
    BY <1>10 DEF ReserveLaunch, txs, TypeOK, HandlersOK
  <2>2. rest[h] = 0 /\ rest'[h] = EstimateGas
    BY <2>1, RestOf DEF Rest
  <2>3. TakeRoom(days[today]) \in DayRows
    BY <1>1, LedgerTypes
  <2>4. UsedGas(TakeRoom(days[today])) >= UsedGas(days[today]) + EstimateGas
    <3>1. UsedGas(days[today]) \in Nat
      BY <1>1 DEF DayRows, UsedGas
    <3> QED
      BY <1>1, <3>1, LedgerMoves
  <2>5. EstimateGas \in Int /\ rest'[h] <= rest[h] + EstimateGas
    BY <1>1, <2>2
  <2> QED
    BY <1>0, <2>1, <2>3, <2>4, <2>5, GasSettles
<1>11. CASE FindSeat(h) \/ WriteRow(h)
  <2>1. /\ UNCHANGED <<days, paid, txStatus>> /\ pc[h] \in {"funding", "preparing"}
        /\ pc'[h] \in {"preparing", "seating"}
    BY <1>11 DEF FindSeat, WriteRow, GoTo, budget, txs, TypeOK, HandlersOK
  <2>2. rest[h] = EstimateGas /\ rest'[h] = EstimateGas
    BY <2>1, RestOf DEF Rest
  <2> QED
    BY <1>1, <1>2, <2>1, <2>2
<1>12. ASSUME NEW retryable \in BOOLEAN, PrepareThrows(h, retryable)
       PROVE  Covered'
  <2>1. /\ UNCHANGED <<paid, txStatus>> /\ pc'[h] \in {"idle", "refusing"}
        /\ Author[job[h]] \in Users /\ ReleaseReservation(Author[job[h]])
        /\ pc[h] \in {"funding", "preparing"}
    BY <1>0, <1>12, AtWork, GasOfMoves DEF PrepareThrows, txs
  <2>2. rest[h] = EstimateGas
    BY <2>1, RestOf DEF Rest
  <2> QED
    BY <1>4, <2>1, <2>2
<1>13. CASE RowTaken(h)
  <2>1. /\ UNCHANGED <<paid, txStatus>> /\ pc'[h] \in {"idle", "refusing"}
        /\ Author[job[h]] \in Users /\ ReleaseReservation(Author[job[h]])
        /\ pc[h] = "preparing"
    BY <1>0, <1>13, AtWork, GasOfMoves DEF RowTaken, txs, Awaits
  <2>2. rest[h] = EstimateGas
    BY <2>1, RestOf DEF Rest
  <2> QED
    BY <1>4, <2>1, <2>2
<1>14. CASE SeatStands(h)
  <2>1. /\ UNCHANGED <<days, paid, txStatus>> /\ pc[h] = "seating" /\ pc'[h] = "sending"
        /\ seated'[h] = seated[h] /\ seated[h]
    BY <1>0, <1>14, GasOfMoves DEF SeatStands, budget, txs, Awaits
  <2>2. rest[h] = EstimateGas /\ rest'[h] = EstimateGas - 0
    BY <2>1, RestOf DEF Rest, OwnSeat
  <2> QED
    BY <1>1, <1>2, <2>1, <2>2
<1>15. CASE DeploySeat(h)
  <2>1. /\ UNCHANGED <<days, txStatus>> /\ pc[h] = "seating" /\ pc'[h] = "sending"
        /\ seated'[h] = FALSE /\ paid' = paid + SeatGas
    BY <1>15 DEF DeploySeat, budget, txs, TypeOK, HandlersOK
  <2>2. rest[h] = EstimateGas /\ rest'[h] = EstimateGas - SeatGas
    BY <2>1, RestOf DEF Rest, OwnSeat
  <2>3. SumOf(dayGas, Days)' = SumOf(dayGas, Days) /\ SumOf(unmined, Tx)' = SumOf(unmined, Tx)
    BY <2>1 DEF dayGas, unmined
  <2>4. SumOf(dayGas, Days) \in Nat /\ SumOf(unmined, Tx) \in Nat /\ paid \in Nat
    BY GasTerms DEF GasTypes, TypeOK, ChainOK
  <2>5. SumOf(dayGas, Days)' >= SumOf(dayGas, Days) + 0
    BY <2>3, <2>4
  <2>6. paid' + SumOf(unmined, Tx)' + rest'[h] <= paid + SumOf(unmined, Tx) + rest[h] + 0
    BY <1>1, <2>1, <2>2, <2>3, <2>4
  <2> QED
    BY <1>0, <2>5, <2>6, GasMoves
<1>16. ~SeatThrows(h) /\ ~LoseHash(h)
  BY DEF SeatThrows, LoseHash, GasHypothesis
<1>17. ASSUME NEW retryable \in BOOLEAN, BuildThrows(h, retryable)
       PROVE  Covered'
  <2>1. pc[h] = "sending" /\ UNCHANGED <<paid, txStatus>>
    BY <1>17 DEF BuildThrows, txs
  <2>2. CASE FailSent(h)
    BY <1>5, <2>1, <2>2
  <2>3. CASE FailUnsent(h, retryable)
    <3>1. /\ pc'[h] \in {"idle", "refusing"} /\ seated[h]
          /\ Author[job[h]] \in Users /\ ReleaseReservation(Author[job[h]])
      BY <1>0, <2>1, <2>3, AtWork, GasOfMoves DEF FailUnsent, GasInv, SeatsPaid
    <3>2. rest[h] = EstimateGas - 0
      BY <2>1, <3>1, RestOf DEF Rest, OwnSeat
    <3>3. rest[h] = EstimateGas
      BY <1>1, <3>2
    <3> QED
      BY <1>4, <2>1, <3>1, <3>3
  <2> QED
    BY <1>17, <2>2, <2>3 DEF BuildThrows
<1>18. ASSUME NEW t \in Tx, Submit(h, t)
       PROVE  Covered'
  <2>1. /\ UNCHANGED <<days, paid>> /\ pc[h] = "sending" /\ pc'[h] = "submitted"
        /\ seated'[h] = seated[h]
        /\ txStatus[t] = "unused"
        /\ \A u \in Tx : txStatus'[u] = IF u = t THEN "pending" ELSE txStatus[u]
    BY <1>18 DEF Submit, budget, TypeOK, HandlersOK, ChainOK
  <2>2. rest[h] = EstimateGas - OwnSeat(h) /\ rest'[h] = EstimateGas - OwnSeat(h) - CreateGas
    BY <2>1, RestOf DEF Rest, OwnSeat
  <2>3. /\ \A u \in Tx : unmined[u] \in Int /\ unmined'[u] \in Int
        /\ \A u \in Tx \ {t} : unmined'[u] = unmined[u]
        /\ unmined[t] = 0 /\ unmined'[t] = CreateGas
    BY <1>1, <2>1 DEF unmined
  <2>4. SumOf(unmined', Tx) = SumOf(unmined, Tx) - unmined[t] + unmined'[t]
    BY <2>3, SumChange DEF GasHypothesis
  <2>5. SumOf(dayGas, Days)' = SumOf(dayGas, Days)
    BY <2>1 DEF dayGas
  <2>6. SumOf(dayGas, Days) \in Nat /\ SumOf(unmined, Tx) \in Nat /\ paid \in Nat
    BY GasTerms DEF GasTypes, TypeOK, ChainOK
  <2>7. SumOf(dayGas, Days)' >= SumOf(dayGas, Days) + 0
    BY <2>5, <2>6
  <2>8. SumOf(unmined, Tx)' = SumOf(unmined, Tx) + CreateGas
    BY <1>1, <2>3, <2>4, <2>6
  <2>9. paid' + SumOf(unmined, Tx)' + rest'[h] <= paid + SumOf(unmined, Tx) + rest[h] + 0
    BY <1>1, <2>1, <2>2, <2>6, <2>8
  <2> QED
    BY <1>0, <2>7, <2>9, GasMoves
<1>19. CASE RecordHash(h)
  <2>1. /\ UNCHANGED <<days, paid, txStatus>> /\ pc[h] = "submitted" /\ pc'[h] = "waiting"
        /\ seated'[h] = seated[h]
    BY <1>19 DEF RecordHash, budget, txs, TypeOK, HandlersOK
  <2>2. rest'[h] = rest[h]
    BY <2>1, RestOf DEF Rest, OwnSeat
  <2> QED
    BY <1>1, <1>2, <2>1, <2>2
<1>20. CASE Launched(h)
  <2>1. /\ UNCHANGED <<paid, txStatus>> /\ pc[h] = "waiting" /\ pc'[h] = "announcing"
        /\ days' = [days EXCEPT ![today] = Charge(days[today], GasWei(h))]
    BY <1>0, <1>20, GasOfMoves DEF Launched, txs, Awaits
  <2>2. rest[h] = EstimateGas - OwnSeat(h) - CreateGas /\ rest'[h] = 0
    BY <2>1, RestOf DEF Rest
  <2>3. GasWei(h) = CreateGas + OwnSeat(h) /\ GasWei(h) \in Nat
    BY <1>1 DEF GasWei, OwnSeat
  <2>4. Charge(days[today], GasWei(h)) \in DayRows
    BY <1>1, <2>3, LedgerTypes
  <2>5. UsedGas(Charge(days[today], GasWei(h))) >= UsedGas(days[today]) + (GasWei(h) - EstimateGas)
    BY <1>1, <2>3, LedgerMoves
  <2>6. GasWei(h) - EstimateGas \in Int /\ rest'[h] <= rest[h] + (GasWei(h) - EstimateGas)
    BY <1>1, <2>2, <2>3
  <2> QED
    BY <1>0, <2>1, <2>4, <2>5, <2>6, GasSettles
<1>21. CASE ReceiptThrows(h) \/ AnnounceThrows(h)
  <2>1. UNCHANGED <<paid, txStatus>> /\ FailSent(h)
    BY <1>21 DEF ReceiptThrows, AnnounceThrows, txs
  <2> QED
    BY <1>5, <2>1
<1> QED
  BY <1>6, <1>7, <1>8, <1>9, <1>10, <1>11, <1>12, <1>13, <1>14, <1>15, <1>16, <1>17, <1>18,
     <1>19, <1>20, <1>21 DEF HandlerStep

LEMMA SeatsPaidStep ==
  ASSUME TypeOK, SeatsPaid, NEW h \in Handlers, HandlerStep(h)
  PROVE  SeatsPaid'
<1> DEFINE Sits(g) == At(g, "sending") /\ ~sent[g] => seated[g]
<1> SUFFICES Sits(h)'
  <2>1. \A g \in Handlers \ {h} : pc'[g] = pc[g] /\ sent'[g] = sent[g] /\ seated'[g] = seated[g]
    BY AloneAtWork
  <2> QED
    BY <2>1 DEF SeatsPaid, At
<1> USE DEF At
<1>0. pc[h] # "idle"
  BY AloneAtWork
<1>1. ASSUME pc'[h] # "sending" PROVE Sits(h)'
  BY <1>1
<1>2. ASSUME NEW retryable \in BOOLEAN,
             \/ Done(h) \/ Throw(h, retryable) \/ FailSent(h) \/ FailUnsent(h, retryable)
      PROVE  Sits(h)'
  <2>1. pc'[h] \in {"idle", "refusing"}
    BY <1>0, <1>2, GasOfMoves DEF FailSent, FailUnsent
  <2> QED
    BY <1>1, <2>1
<1>3. ASSUME NEW await \in Awaits \ {"sending"}, GoTo(h, await)
      PROVE  Sits(h)'
  BY <1>0, <1>1, <1>3, GasOfMoves
<1>4. ASSUME NEW spoken \in BOOLEAN,
             \/ SettleRefusal(h, spoken) \/ Ignore(h) \/ Answer(h, spoken)
             \/ SettleTrade(h) \/ Announce(h)
      PROVE  Sits(h)'
  BY <1>2, <1>4 DEF SettleRefusal, Ignore, Answer, SettleTrade, Announce
<1>5. ASSUME NEW retryable \in BOOLEAN,
             \/ EarlyThrow(h, retryable) \/ PrepareThrows(h, retryable) \/ SeatThrows(h)
             \/ BuildThrows(h, retryable) \/ LoseHash(h) \/ ReceiptThrows(h) \/ AnnounceThrows(h)
      PROVE  Sits(h)'
  BY <1>2, <1>5 DEF EarlyThrow, PrepareThrows, SeatThrows, BuildThrows, LoseHash,
                    ReceiptThrows, AnnounceThrows
<1>6. ASSUME NEW next \in Awaits,
             \/ Route(h, next) \/ SwapFills(h) \/ SwapRefused(h) \/ TradeUnconfirmed(h)
             \/ ReserveRefused(h) \/ WriteRow(h) \/ RowTaken(h) \/ Launched(h)
      PROVE  Sits(h)'
  BY <1>3, <1>6 DEF Route, SwapFills, SwapRefused, TradeUnconfirmed, ReserveRefused, WriteRow,
                    RowTaken, Launched, Awaits
<1>7. ASSUME ReserveLaunch(h) \/ FindSeat(h) \/ RecordHash(h) \/ (\E t \in Tx : Submit(h, t))
      PROVE  Sits(h)'
  BY <1>1, <1>7 DEF ReserveLaunch, FindSeat, RecordHash, Submit, TypeOK, HandlersOK
<1>8. CASE SeatStands(h)
  BY <1>0, <1>8, GasOfMoves DEF SeatStands, Awaits
<1>9. CASE DeploySeat(h)
  BY <1>9 DEF DeploySeat, TypeOK, HandlersOK
<1> HIDE DEF Sits
<1> QED
  BY <1>4, <1>5, <1>6, <1>7, <1>8, <1>9 DEF HandlerStep, Awaits

LEMMA GasStep ==
  ASSUME GasHypothesis, TypeOK, TypeOK', GasInv, [Next]_vars
  PROVE  GasInv'
<1>1. ASSUME UNCHANGED <<pc, sent, seated, days, paid, txStatus>> PROVE GasInv'
  BY <1>1 DEF GasInv, SeatsPaid, At, Covered, rest, Rest, OwnSeat, unmined, dayGas
<1>2. ASSUME NEW h \in Handlers, HandlerStep(h)
      PROVE  GasInv'
  BY <1>2, SeatsPaidStep, HandlerGas DEF GasInv
<1>3. ASSUME NEW h \in Handlers, NEW p \in Posts, Claim(h, p)
      PROVE  GasInv'
  <2>1. /\ UNCHANGED <<days, paid, txStatus, sent, seated>> /\ pc[h] = "idle"
        /\ pc'[h] \in {"trading", "routing"}
        /\ \A g \in Handlers \ {h} : pc'[g] = pc[g]
    BY <1>3 DEF Claim, At, budget, chain, txs, TypeOK, HandlersOK
  <2>2. rest[h] = 0 /\ rest'[h] = 0
    BY <2>1, RestOf DEF Rest
  <2>3. Covered'
    BY <2>1, <2>2, GasStays DEF GasInv
  <2>4. SeatsPaid'
    BY <2>1 DEF GasInv, SeatsPaid, At
  <2> QED
    BY <2>3, <2>4 DEF GasInv
<1>4. ASSUME NEW t \in Tx, NEW ok \in BOOLEAN, Mine(t, ok)
      PROVE  GasInv'
  <2>1. /\ UNCHANGED <<pc, sent, seated, days>> /\ paid' = paid + CreateGas
        /\ txStatus[t] = "pending" /\ txStatus'[t] # "pending"
        /\ \A u \in Tx \ {t} : txStatus'[u] = txStatus[u]
    BY <1>4 DEF Mine, handlers, locals, budget, TypeOK, ChainOK
  <2>2. SeatsPaid'
    BY <2>1 DEF GasInv, SeatsPaid, At
  <2>3. /\ \A u \in Tx : unmined[u] \in Int /\ unmined'[u] \in Int
        /\ \A u \in Tx \ {t} : unmined'[u] = unmined[u]
        /\ unmined[t] = CreateGas /\ unmined'[t] = 0
    BY <2>1, EngineAssumption DEF unmined
  <2>4. SumOf(unmined', Tx) = SumOf(unmined, Tx) - unmined[t] + unmined'[t]
    BY <2>3, SumChange DEF GasHypothesis
  <2>5. SumOf(dayGas, Days)' = SumOf(dayGas, Days) /\ SumOf(rest, Handlers)' = SumOf(rest, Handlers)
    BY <2>1 DEF dayGas, rest, Rest, OwnSeat
  <2>6. /\ SumOf(dayGas, Days) \in Nat /\ SumOf(unmined, Tx) \in Nat /\ paid \in Nat
        /\ SumOf(rest, Handlers) \in Nat /\ CreateGas \in Nat
    BY GasTerms, EngineAssumption DEF GasTypes, TypeOK, ChainOK
  <2>7. paid' + SumOf(unmined', Tx) = paid + SumOf(unmined, Tx)
    BY <2>1, <2>3, <2>4, <2>6
  <2> QED
    BY <2>2, <2>5, <2>7 DEF GasInv, Covered
<1>5. ASSUME NEW r \in Resolvers, ResolverStep(r)
      PROVE  GasInv'
  BY <1>1, <1>5 DEF ResolverStep, Look, Resolve, handlers, locals, budget, chain, txs
<1>6. ASSUME NEW p \in Posts, ForceRetry(p) \/ CooldownLapses(p)
      PROVE  GasInv'
  BY <1>1, <1>6 DEF ForceRetry, CooldownLapses, handlers, locals, budget, chain, txs
<1>7. CASE Midnight
  BY <1>1, <1>7 DEF Midnight, handlers, locals, budget, chain, txs
<1>8. CASE Crash
  <2>1. /\ UNCHANGED <<days, paid, txStatus>> /\ \A h \in Handlers : pc'[h] = "idle"
    BY <1>8 DEF Crash, budget, chain, txs
  <2>2. SeatsPaid'
    BY <2>1 DEF SeatsPaid, At
  <2>3. SumOf(rest', Handlers) = 0
    <3>1. \A h \in Handlers : rest'[h] = 0
      BY <2>1, RestOf DEF Rest
    <3> QED
      BY <3>1, SumZero DEF GasHypothesis
  <2>4. SumOf(dayGas, Days)' = SumOf(dayGas, Days) /\ SumOf(unmined, Tx)' = SumOf(unmined, Tx)
    BY <2>1 DEF dayGas, unmined
  <2>5. /\ SumOf(dayGas, Days) \in Nat /\ SumOf(unmined, Tx) \in Nat /\ paid \in Nat
        /\ SumOf(rest, Handlers) \in Nat
    BY GasTerms DEF GasTypes, TypeOK, ChainOK
  <2>6. paid' + SumOf(unmined, Tx)' + SumOf(rest, Handlers)' <= SumOf(dayGas, Days)'
    BY <2>1, <2>3, <2>4, <2>5 DEF GasInv, Covered
  <2> QED
    BY <2>2, <2>6 DEF GasInv, Covered
<1>9. CASE UNCHANGED vars
  BY <1>1, <1>9 DEF vars, handlers, locals, budget, chain, txs
<1> QED
  BY <1>2, <1>3, <1>4, <1>5, <1>6, <1>7, <1>8, <1>9 DEF Next

LEMMA GasInit == GasHypothesis /\ Init => GasInv
<1> SUFFICES ASSUME GasHypothesis, Init PROVE GasInv
  OBVIOUS
<1>1. SeatsPaid
  BY DEF Init, SeatsPaid, At
<1>2. IsFiniteSet(Days)
  BY EngineAssumption, FS_Interval DEF Days
<1>3. (\A h \in Handlers : rest[h] = 0) /\ (\A t \in Tx : unmined[t] = 0) /\ \A d \in Days : dayGas[d] = 0
  BY DEF Init, rest, Rest, unmined, dayGas, UsedGas, EmptyDay
<1>4. SumOf(rest, Handlers) = 0 /\ SumOf(unmined, Tx) = 0 /\ SumOf(dayGas, Days) = 0
  BY <1>2, <1>3, SumZero DEF GasHypothesis
<1> QED
  BY <1>1, <1>4 DEF GasInv, Covered, Init

\* What the wallet has paid is covered by the ledger, whatever midnights, crashes,
\* reverts, receipts that never come and forced retries there are, wherever the
\* estimate covers a seat and a create transaction and no response is lost on the
\* way back (engine.ts, launch and its catch; store.ts, recordGasSpent).
THEOREM GasAlwaysMetered == GasHypothesis /\ Spec => []GasIsMetered
<1> DEFINE Inv == TypeOK /\ GasInv
<1>1. GasHypothesis /\ Init => Inv
  BY TypeInit, GasInit
<1>2. GasHypothesis /\ Inv /\ [Next]_vars => Inv'
  BY TypeStep, GasStep
<1>3. GasHypothesis /\ Inv => GasIsMetered
  <2> SUFFICES ASSUME GasHypothesis, Inv PROVE GasIsMetered
    OBVIOUS
  <2>1. /\ SumOf(rest, Handlers) \in Nat /\ SumOf(unmined, Tx) \in Nat
        /\ SumOf(dayGas, Days) \in Nat /\ paid \in Nat
    BY GasTerms DEF GasTypes, TypeOK, ChainOK
  <2>2. paid <= SumOf(dayGas, Days)
    BY <2>1 DEF GasInv, Covered
  <2> QED
    BY <2>2 DEF GasIsMetered, SumOf
<1> QED
  <2>1. CASE GasHypothesis
    <3>1. Init => Inv
      BY <1>1, <2>1
    <3>2. Inv /\ [Next]_vars => Inv'
      BY <1>2, <2>1
    <3>3. Inv => GasIsMetered
      BY <1>3, <2>1
    <3> HIDE DEF Inv
    <3> QED BY <3>1, <3>2, <3>3, PTL DEF Spec
  <2> QED BY <2>1

-----------------------------------------------------------------------------
(* The caps of a day.  A transaction counts for the room that was taken for *)
(* it: what was sent and what still holds room, together, are no more than  *)
(* the ledger counts and no more than the cap.  Within one UTC day: a       *)
(* reservation that outlives its day is given back to the next one.         *)

CapHypothesis ==
  /\ IsFiniteSet(Handlers) /\ IsFiniteSet(Tx)
  /\ LastDay = 0
  /\ "lost_reply" \notin Faults

\* The awaits at which a call holds room it has not used.
Holds == {"funding", "preparing", "seating", "sending"}

PostsOf(u) == {p \in Posts : Author[p] = u}

SentFor(P) == {t \in Tx : txStatus[t] # "unused" /\ txPost[t] \in P}

HeldFor(P) == {h \in Handlers : pc[h] \in Holds /\ job[h] \in P}

Count(P) == Cardinality(SentFor(P)) + Cardinality(HeldFor(P))

SentHavePosts == \A t \in Tx : txStatus[t] # "unused" => txPost[t] \in Posts

DayCapHolds ==
  /\ Count(Posts) <= UsedLaunches(days[0])
  /\ Count(Posts) <= MaxPerDay

UserCapsHold ==
  \A u \in Users : /\ Count(PostsOf(u)) <= userDays[<<u, 0>>]
                   /\ Count(PostsOf(u)) <= MaxPerUserPerDay

CapInv == SentHavePosts /\ DayCapHolds /\ UserCapsHold

LEMMA CountType ==
  ASSUME CapHypothesis, NEW P
  PROVE  /\ IsFiniteSet(SentFor(P)) /\ IsFiniteSet(HeldFor(P))
         /\ Cardinality(SentFor(P)) \in Nat /\ Cardinality(HeldFor(P)) \in Nat
         /\ Count(P) \in Nat
<1>1. SentFor(P) \in SUBSET Tx /\ HeldFor(P) \in SUBSET Handlers
  BY DEF SentFor, HeldFor
<1>2. IsFiniteSet(SentFor(P)) /\ IsFiniteSet(HeldFor(P))
  BY <1>1, FS_Subset DEF CapHypothesis
<1> QED
  BY <1>2, FS_CardinalityType DEF Count

\* A step that takes no room: a call keeps what it held, or lets go of it.
LEMMA CountFalls ==
  ASSUME CapHypothesis, NEW P,
         SentFor(P)' = SentFor(P), HeldFor(P)' \in SUBSET HeldFor(P)
  PROVE  Count(P)' <= Count(P)
<1>1. Cardinality(HeldFor(P)') \in Nat /\ Cardinality(HeldFor(P)') <= Cardinality(HeldFor(P))
  BY CountType, FS_Subset, FS_CardinalityType
<1>2. Cardinality(SentFor(P)) \in Nat /\ Cardinality(HeldFor(P)) \in Nat
  BY CountType
<1>3. Count(P)' = Cardinality(SentFor(P)) + Cardinality(HeldFor(P)')
  BY DEF Count
<1> QED
  BY <1>1, <1>2, <1>3 DEF Count

\* A call that gives its room back is counted no more.
LEMMA CountDrops ==
  ASSUME CapHypothesis, NEW P, NEW h \in HeldFor(P),
         SentFor(P)' = SentFor(P), HeldFor(P)' = HeldFor(P) \ {h}
  PROVE  Count(P)' = Count(P) - 1
<1>1. Cardinality(HeldFor(P) \ {h}) = Cardinality(HeldFor(P)) - 1
  BY CountType, FS_RemoveElement
<1>2. Cardinality(SentFor(P)) \in Nat /\ Cardinality(HeldFor(P)) \in Nat
  BY CountType
<1>3. Count(P)' = Cardinality(SentFor(P)) + Cardinality(HeldFor(P) \ {h})
  BY DEF Count
<1> QED
  BY <1>1, <1>2, <1>3 DEF Count

\* A call that takes room is counted.
LEMMA CountRises ==
  ASSUME CapHypothesis, NEW P, NEW h, h \notin HeldFor(P),
         SentFor(P)' = SentFor(P), HeldFor(P)' = HeldFor(P) \cup {h}
  PROVE  Count(P)' = Count(P) + 1
<1>1. Cardinality(HeldFor(P) \cup {h}) = Cardinality(HeldFor(P)) + 1
  BY CountType, FS_AddElement
<1>2. Cardinality(SentFor(P)) \in Nat /\ Cardinality(HeldFor(P)) \in Nat
  BY CountType
<1>3. Count(P)' = Cardinality(SentFor(P)) + Cardinality(HeldFor(P) \cup {h})
  BY DEF Count
<1> QED
  BY <1>1, <1>2, <1>3 DEF Count

\* A call that sends trades the room it held for the transaction.
LEMMA CountTrades ==
  ASSUME CapHypothesis, NEW P, NEW h \in HeldFor(P), NEW t, t \notin SentFor(P),
         SentFor(P)' = SentFor(P) \cup {t}, HeldFor(P)' = HeldFor(P) \ {h}
  PROVE  Count(P)' = Count(P)
<1>1. Cardinality(HeldFor(P) \ {h}) = Cardinality(HeldFor(P)) - 1
  BY CountType, FS_RemoveElement
<1>2. Cardinality(SentFor(P) \cup {t}) = Cardinality(SentFor(P)) + 1
  BY CountType, FS_AddElement
<1>3. Cardinality(SentFor(P)) \in Nat /\ Cardinality(HeldFor(P)) \in Nat
  BY CountType
<1>4. Count(P)' = Cardinality(SentFor(P) \cup {t}) + Cardinality(HeldFor(P) \ {h})
  BY DEF Count
<1> QED
  BY <1>1, <1>2, <1>3, <1>4 DEF Count

\* What the ledger's transactions do to the launches it counts.
LEMMA LaunchesMove ==
  ASSUME NEW day \in DayRows
  PROVE  /\ UsedLaunches(day) \in Nat
         /\ UsedLaunches(TakeRoom(day)) = UsedLaunches(day) + 1
         /\ UsedLaunches(GiveBack(day)) >= UsedLaunches(day) - 1
         /\ \A actual \in Nat : UsedLaunches(Charge(day, actual)) >= UsedLaunches(day)
BY BudgetAssumption DEF DayRows, UsedLaunches, TakeRoom, GiveBack, Charge, Monus

\* In the one day there is, the ledger of the day is the ledger of today.
LEMMA OneDay ==
  ASSUME CapHypothesis, TypeOK
  PROVE  /\ Days = {0} /\ today = 0 /\ days[0] \in DayRows
         /\ days \in [Days -> DayRows] /\ userDays \in [Users \X Days -> Nat]
         /\ \A u \in Users : userDays[<<u, 0>>] \in Nat
<1>1. Days = {0}
  BY DEF CapHypothesis, Days
<1> QED
  BY <1>1 DEF TypeOK, BudgetOK

\* A step of one call that takes and uses no room.
LEMMA CapsStay ==
  ASSUME CapHypothesis, TypeOK, CapInv, UNCHANGED <<txStatus, txPost>>,
         NEW h \in Handlers,
         \A g \in Handlers \ {h} : pc'[g] = pc[g] /\ job'[g] = job[g],
         pc'[h] \in Holds => pc[h] \in Holds /\ job'[h] = job[h],
         UsedLaunches(days'[0]) >= UsedLaunches(days[0]), UsedLaunches(days'[0]) \in Nat,
         userDays' = userDays
  PROVE  CapInv'
<1>1. \A P : SentFor(P)' = SentFor(P) /\ HeldFor(P)' \in SUBSET HeldFor(P)
  BY DEF SentFor, HeldFor
<1>2. \A P : Count(P)' <= Count(P)
  BY <1>1, CountFalls
<1>3. \A P : Count(P) \in Nat /\ Count(P)' \in Nat
  <2> TAKE P
  <2>1. HeldFor(P)' \in SUBSET HeldFor(P) /\ SentFor(P)' = SentFor(P)
    BY <1>1
  <2>2. Cardinality(HeldFor(P)') \in Nat
    BY <2>1, CountType, FS_Subset, FS_CardinalityType
  <2> QED
    BY <2>1, <2>2, CountType DEF Count
<1>4. SentHavePosts'
  BY DEF CapInv, SentHavePosts
<1>5. /\ UsedLaunches(days[0]) \in Nat /\ MaxPerDay \in Nat
      /\ \A u \in Users : userDays[<<u, 0>>] \in Nat /\ MaxPerUserPerDay \in Nat
  BY OneDay, LaunchesMove, BudgetAssumption
<1>6. DayCapHolds'
  <2>1. /\ Count(Posts) \in Nat /\ Count(Posts)' \in Nat /\ Count(Posts)' <= Count(Posts)
    BY <1>2, <1>3
  <2>2. Count(Posts)' <= UsedLaunches(days'[0]) /\ Count(Posts)' <= MaxPerDay
    BY <2>1, <1>5 DEF CapInv, DayCapHolds
  <2> QED
    BY <2>2 DEF DayCapHolds
<1>7. UserCapsHold'
  <2> SUFFICES ASSUME NEW u \in Users
               PROVE  Count(PostsOf(u))' <= userDays[<<u, 0>>] /\ Count(PostsOf(u))' <= MaxPerUserPerDay
    BY DEF UserCapsHold
  <2>1. /\ Count(PostsOf(u)) \in Nat /\ Count(PostsOf(u))' \in Nat
        /\ Count(PostsOf(u))' <= Count(PostsOf(u))
    BY <1>2, <1>3 DEF PostsOf
  <2> QED
    BY <2>1, <1>5 DEF CapInv, UserCapsHold
<1> QED
  BY <1>4, <1>6, <1>7 DEF CapInv

\* A call that gives its room back, on the day it took it.
LEMMA CapsReleased ==
  ASSUME CapHypothesis, TypeOK, CapInv, UNCHANGED <<txStatus, txPost>>,
         NEW h \in Handlers, job[h] \in Posts, Author[job[h]] \in Users,
         \A g \in Handlers \ {h} : pc'[g] = pc[g] /\ job'[g] = job[g],
         pc[h] \in Holds, pc'[h] \notin Holds,
         ReleaseReservation(Author[job[h]])
  PROVE  CapInv'
<1> DEFINE u == Author[job[h]]
<1>1. \A P : SentFor(P)' = SentFor(P) /\ HeldFor(P)' = HeldFor(P) \ {h}
  BY DEF SentFor, HeldFor
<1>2. /\ Days = {0} /\ today = 0 /\ days[0] \in DayRows
      /\ days'[0] = GiveBack(days[0])
      /\ userDays'[<<u, 0>>] = Monus(userDays[<<u, 0>>], 1)
      /\ \A v \in Users \ {u} : userDays'[<<v, 0>>] = userDays[<<v, 0>>]
      /\ \A v \in Users : userDays[<<v, 0>>] \in Nat
  BY OneDay DEF ReleaseReservation
<1>3. /\ UsedLaunches(days[0]) \in Nat /\ UsedLaunches(days'[0]) \in Nat
      /\ UsedLaunches(days'[0]) >= UsedLaunches(days[0]) - 1
      /\ MaxPerDay \in Nat /\ MaxPerUserPerDay \in Nat
  <2>1. GiveBack(days[0]) \in DayRows
    BY <1>2, LedgerTypes
  <2> QED
    BY <1>2, <2>1, LaunchesMove, BudgetAssumption
<1>4. \A P : Count(P) \in Nat
  BY CountType
<1>5. h \in HeldFor(Posts) /\ h \in HeldFor(PostsOf(u))
      /\ \A v \in Users \ {u} : h \notin HeldFor(PostsOf(v))
  BY DEF HeldFor, PostsOf
<1>6. \A P : h \in HeldFor(P) => Count(P)' = Count(P) - 1
  BY <1>1, CountDrops
<1>7. \A P : h \notin HeldFor(P) => Count(P)' = Count(P)
  BY <1>1 DEF Count
<1> HIDE DEF u
<1>8. SentHavePosts'
  BY DEF CapInv, SentHavePosts
<1>9. DayCapHolds'
  <2>1. Count(Posts)' = Count(Posts) - 1 /\ Count(Posts) \in Nat
    BY <1>4, <1>5, <1>6
  <2>2. Count(Posts)' <= UsedLaunches(days'[0]) /\ Count(Posts)' <= MaxPerDay
    BY <1>3, <2>1 DEF CapInv, DayCapHolds
  <2> QED
    BY <2>2 DEF DayCapHolds
<1>10. UserCapsHold'
  <2> SUFFICES ASSUME NEW v \in Users
               PROVE  /\ Count(PostsOf(v))' <= userDays'[<<v, 0>>]
                      /\ Count(PostsOf(v))' <= MaxPerUserPerDay
    BY DEF UserCapsHold
  <2>1. /\ Count(PostsOf(v)) \in Nat
        /\ Count(PostsOf(v)) <= userDays[<<v, 0>>] /\ Count(PostsOf(v)) <= MaxPerUserPerDay
    BY <1>4 DEF CapInv, UserCapsHold
  <2>2. CASE v = u
    <3>1. Count(PostsOf(v))' = Count(PostsOf(v)) - 1
      BY <1>5, <1>6, <2>2 DEF PostsOf
    <3> QED
      BY <1>2, <1>3, <2>1, <2>2, <3>1 DEF Monus
  <2>3. CASE v # u
    <3>1. Count(PostsOf(v))' = Count(PostsOf(v))
      BY <1>5, <1>7, <2>3 DEF PostsOf
    <3> QED
      BY <1>2, <1>3, <2>1, <2>3, <3>1
  <2> QED
    BY <2>2, <2>3
<1> QED
  BY <1>8, <1>9, <1>10 DEF CapInv

\* A call that takes room has the room it asked for.
LEMMA CapsReserved ==
  ASSUME CapHypothesis, TypeOK, CapInv, NEW h \in Handlers, ReserveLaunch(h)
  PROVE  CapInv'
<1> DEFINE u == Author[job[h]]
<1> USE DEF At
<1>0. job[h] \in Posts /\ u \in Users
  BY AtWork DEF ReserveLaunch
<1>1. /\ pc[h] = "pricing" /\ pc'[h] = "funding" /\ job' = job
      /\ \A g \in Handlers \ {h} : pc'[g] = pc[g]
      /\ UNCHANGED <<txStatus, txPost>>
  BY DEF ReserveLaunch, chain, txs, TypeOK, HandlersOK
<1>2. \A P : /\ SentFor(P)' = SentFor(P)
             /\ HeldFor(P)' = IF job[h] \in P THEN HeldFor(P) \cup {h} ELSE HeldFor(P)
  BY <1>1 DEF SentFor, HeldFor, Holds
<1>3. \A P : h \notin HeldFor(P)
  BY <1>1 DEF HeldFor, Holds
<1>4. /\ Days = {0} /\ today = 0 /\ days[0] \in DayRows
      /\ days'[0] = TakeRoom(days[0])
      /\ userDays'[<<u, 0>>] = userDays[<<u, 0>>] + 1
      /\ \A v \in Users \ {u} : userDays'[<<v, 0>>] = userDays[<<v, 0>>]
      /\ \A v \in Users : userDays[<<v, 0>>] \in Nat
      /\ HasRoom(days[0], userDays[<<u, 0>>])
  <2>1. /\ Days = {0} /\ today = 0 /\ days[0] \in DayRows
        /\ days \in [Days -> DayRows] /\ userDays \in [Users \X Days -> Nat]
        /\ \A v \in Users : userDays[<<v, 0>>] \in Nat
    BY OneDay
  <2> QED
    BY <1>0, <2>1 DEF ReserveLaunch, MayReserve
<1>5. /\ UsedLaunches(days[0]) \in Nat /\ UsedLaunches(days'[0]) = UsedLaunches(days[0]) + 1
      /\ MaxPerDay \in Nat /\ MaxPerUserPerDay \in Nat
      /\ UsedLaunches(days[0]) < MaxPerDay /\ userDays[<<u, 0>>] < MaxPerUserPerDay
  BY <1>4, LaunchesMove, BudgetAssumption DEF HasRoom
<1>6. \A P : /\ Count(P) \in Nat
             /\ Count(P)' = IF job[h] \in P THEN Count(P) + 1 ELSE Count(P)
  <2> TAKE P
  <2>1. CASE job[h] \in P
    BY <1>2, <1>3, <2>1, CountRises, CountType
  <2>2. CASE job[h] \notin P
    BY <1>2, <2>2, CountType DEF Count
  <2> QED
    BY <2>1, <2>2
<1>7. SentHavePosts'
  BY <1>1 DEF CapInv, SentHavePosts
<1>8. DayCapHolds'
  <2>1. Count(Posts)' = Count(Posts) + 1 /\ Count(Posts) \in Nat
    BY <1>0, <1>6
  <2>2. Count(Posts)' <= UsedLaunches(days'[0]) /\ Count(Posts)' <= MaxPerDay
    BY <1>5, <2>1 DEF CapInv, DayCapHolds
  <2> QED
    BY <2>2 DEF DayCapHolds
<1>9. UserCapsHold'
  <2> SUFFICES ASSUME NEW v \in Users
               PROVE  /\ Count(PostsOf(v))' <= userDays'[<<v, 0>>]
                      /\ Count(PostsOf(v))' <= MaxPerUserPerDay
    BY DEF UserCapsHold
  <2>1. /\ Count(PostsOf(v)) \in Nat
        /\ Count(PostsOf(v)) <= userDays[<<v, 0>>] /\ Count(PostsOf(v)) <= MaxPerUserPerDay
    BY <1>6 DEF CapInv, UserCapsHold
  <2>2. job[h] \in PostsOf(v) <=> v = u
    BY <1>0 DEF PostsOf
  <2>3. Count(PostsOf(v))' = IF v = u THEN Count(PostsOf(v)) + 1 ELSE Count(PostsOf(v))
    BY <1>6, <2>2 DEF PostsOf
  <2> HIDE DEF u
  <2> QED
    BY <1>4, <1>5, <2>1, <2>3
<1> QED
  BY <1>7, <1>8, <1>9 DEF CapInv

\* A call that sends uses the room it took.
LEMMA CapsSent ==
  ASSUME CapHypothesis, TypeOK, CapInv, NEW h \in Handlers, NEW t \in Tx, Submit(h, t)
  PROVE  CapInv'
<1> USE DEF At
<1>0. job[h] \in Posts
  BY AtWork DEF Submit
<1>1. /\ pc[h] = "sending" /\ pc'[h] = "submitted" /\ job' = job
      /\ \A g \in Handlers \ {h} : pc'[g] = pc[g]
      /\ UNCHANGED <<days, userDays>>
      /\ txStatus[t] = "unused" /\ txStatus'[t] = "pending" /\ txPost'[t] = job[h]
      /\ \A v \in Tx \ {t} : txStatus'[v] = txStatus[v] /\ txPost'[v] = txPost[v]
  BY DEF Submit, budget, TypeOK, HandlersOK, ChainOK
<1>2. \A P : job[h] \in P => /\ SentFor(P)' = SentFor(P) \cup {t} /\ t \notin SentFor(P)
                             /\ HeldFor(P)' = HeldFor(P) \ {h} /\ h \in HeldFor(P)
  BY <1>1 DEF SentFor, HeldFor, Holds
<1>3. \A P : job[h] \notin P => SentFor(P)' = SentFor(P) /\ HeldFor(P)' = HeldFor(P)
  BY <1>1 DEF SentFor, HeldFor, Holds
<1>4. \A P : Count(P)' = Count(P)
  <2> TAKE P
  <2>1. CASE job[h] \in P
    BY <1>2, <2>1, CountTrades
  <2>2. CASE job[h] \notin P
    BY <1>3, <2>2 DEF Count
  <2> QED
    BY <2>1, <2>2
<1>5. SentHavePosts'
  BY <1>0, <1>1 DEF CapInv, SentHavePosts
<1>6. DayCapHolds' /\ UserCapsHold'
  BY <1>1, <1>4 DEF CapInv, DayCapHolds, UserCapsHold, PostsOf
<1> QED
  BY <1>5, <1>6 DEF CapInv

LEMMA HandlerCaps ==
  ASSUME CapHypothesis, TypeOK, CapInv, NEW h \in Handlers, HandlerStep(h)
  PROVE  CapInv'
<1> USE DEF At, chain
<1>0. /\ pc[h] # "idle" /\ job[h] \in Posts /\ Author[job[h]] \in Users
      /\ \A g \in Handlers \ {h} : pc'[g] = pc[g] /\ job'[g] = job[g]
  BY AloneAtWork, AtWork
<1>1. /\ today = 0 /\ days[0] \in DayRows /\ UsedLaunches(days[0]) \in Nat
      /\ days \in [{0} -> DayRows]
  BY OneDay, LaunchesMove
<1>2. ASSUME UNCHANGED <<budget, txStatus, txPost>>,
             pc'[h] \in Holds => pc[h] \in Holds /\ job'[h] = job[h]
      PROVE  CapInv'
  <2>1. UsedLaunches(days'[0]) \in Nat /\ UsedLaunches(days'[0]) >= UsedLaunches(days[0])
    BY <1>1, <1>2 DEF budget
  <2> QED
    BY <1>0, <1>2, <2>1, CapsStay DEF budget
<1>3. ASSUME UNCHANGED <<userDays, txStatus, txPost>>, NEW actual \in Nat,
             days' = [days EXCEPT ![today] = Charge(@, actual)], pc'[h] \notin Holds
      PROVE  CapInv'
  <2>1. Charge(days[0], actual) \in DayRows /\ days'[0] = Charge(days[0], actual)
    BY <1>1, <1>3, LedgerTypes
  <2>2. UsedLaunches(days'[0]) \in Nat /\ UsedLaunches(days'[0]) >= UsedLaunches(days[0])
    BY <1>1, <2>1, LaunchesMove
  <2> QED
    BY <1>0, <1>3, <2>2, CapsStay
<1>4. ASSUME UNCHANGED <<txStatus, txPost>>, FailSent(h)
      PROVE  CapInv'
  <2>1. pc'[h] \notin Holds
    BY <1>0, <1>4, GasOfMoves DEF FailSent, Holds
  <2>2. EstimateGas \in Nat
    BY BudgetAssumption
  <2> QED
    BY <1>3, <1>4, <2>1, <2>2 DEF FailSent
<1>5. ASSUME UNCHANGED <<txStatus, txPost>>, NEW retryable \in BOOLEAN,
             FailUnsent(h, retryable), pc[h] \in Holds
      PROVE  CapInv'
  <2>1. pc'[h] \notin Holds /\ ReleaseReservation(Author[job[h]])
    BY <1>0, <1>5, GasOfMoves DEF FailUnsent, Holds
  <2> QED
    BY <1>0, <1>5, <2>1, CapsReleased
<1>6. ASSUME NEW spoken \in BOOLEAN,
             \/ SettleRefusal(h, spoken) \/ Ignore(h) \/ Answer(h, spoken)
             \/ SettleTrade(h) \/ Announce(h)
      PROVE  CapInv'
  <2>1. UNCHANGED <<budget, txStatus, txPost>> /\ Done(h)
    BY <1>6 DEF SettleRefusal, Ignore, Answer, SettleTrade, Announce, txs
  <2> QED
    BY <1>0, <1>2, <2>1, GasOfMoves DEF Holds
<1>7. ASSUME NEW retryable \in BOOLEAN, EarlyThrow(h, retryable)
      PROVE  CapInv'
  <2>1. UNCHANGED <<budget, txStatus, txPost>> /\ Throw(h, retryable)
    BY <1>7 DEF EarlyThrow, txs
  <2> QED
    BY <1>0, <1>2, <2>1, GasOfMoves DEF Holds
<1>8. ASSUME NEW next \in Awaits,
             \/ Route(h, next) \/ SwapFills(h) \/ SwapRefused(h) \/ TradeUnconfirmed(h)
             \/ ReserveRefused(h)
      PROVE  CapInv'
  <2>1. /\ UNCHANGED <<budget, txStatus, txPost>>
        /\ pc'[h] \in {"answering", "pricing", "confirming", "refusing"}
    BY <1>0, <1>8, GasOfMoves
       DEF Route, SwapFills, SwapRefused, TradeUnconfirmed, ReserveRefused, txs, Awaits
  <2> QED
    BY <1>2, <2>1 DEF Holds
<1>9. CASE ReserveLaunch(h)
  BY <1>9, CapsReserved
<1>10. ASSUME FindSeat(h) \/ WriteRow(h) \/ SeatStands(h) \/ DeploySeat(h)
       PROVE  CapInv'
  <2>1. /\ UNCHANGED <<budget, txStatus, txPost>>
        /\ pc[h] \in {"funding", "preparing", "seating"} /\ job'[h] = job[h]
    BY <1>10 DEF FindSeat, WriteRow, SeatStands, DeploySeat, GoTo, locals, txs
  <2> QED
    BY <1>2, <2>1 DEF Holds
<1>11. ASSUME NEW retryable \in BOOLEAN, PrepareThrows(h, retryable) \/ RowTaken(h)
       PROVE  CapInv'
  <2>1. /\ UNCHANGED <<txStatus, txPost>> /\ pc'[h] \in {"idle", "refusing"}
        /\ ReleaseReservation(Author[job[h]]) /\ pc[h] \in {"funding", "preparing"}
    BY <1>0, <1>11, GasOfMoves DEF PrepareThrows, RowTaken, txs, Awaits
  <2>2. pc[h] \in Holds /\ pc'[h] \notin Holds
    BY <2>1 DEF Holds
  <2> QED
    BY <1>0, <2>1, <2>2, CapsReleased
<1>12. CASE SeatThrows(h)
  <2>1. /\ UNCHANGED <<txStatus, txPost>> /\ pc[h] \in Holds
        /\ FailUnsent(h, FALSE)
    BY <1>12 DEF SeatThrows, txs, Holds
  <2> QED
    BY <1>5, <2>1
<1>13. ASSUME NEW retryable \in BOOLEAN, BuildThrows(h, retryable)
       PROVE  CapInv'
  <2>1. /\ UNCHANGED <<txStatus, txPost>> /\ pc[h] \in Holds
        /\ FailUnsent(h, retryable) \/ FailSent(h)
    BY <1>13 DEF BuildThrows, txs, Holds
  <2> QED
    BY <1>4, <1>5, <2>1
<1>14. ASSUME NEW t \in Tx, Submit(h, t)
       PROVE  CapInv'
  BY <1>14, CapsSent
<1>15. CASE RecordHash(h)
  <2>1. UNCHANGED <<budget, txStatus, txPost>> /\ pc'[h] = "waiting"
    BY <1>15 DEF RecordHash, txs, TypeOK, HandlersOK
  <2> QED
    BY <1>2, <2>1 DEF Holds
<1>16. ~LoseHash(h)
  BY DEF LoseHash, CapHypothesis
<1>17. CASE Launched(h)
  <2>1. /\ UNCHANGED <<userDays, txStatus, txPost>> /\ pc'[h] = "announcing"
        /\ days' = [days EXCEPT ![today] = Charge(@, GasWei(h))]
    BY <1>0, <1>17, GasOfMoves DEF Launched, txs, Awaits
  <2>2. GasWei(h) \in Nat
    BY EngineAssumption DEF GasWei
  <2> QED
    BY <1>3, <2>1, <2>2 DEF Holds
<1>18. ASSUME ReceiptThrows(h) \/ AnnounceThrows(h)
       PROVE  CapInv'
  BY <1>4, <1>18 DEF ReceiptThrows, AnnounceThrows, txs
<1> QED
  BY <1>6, <1>7, <1>8, <1>9, <1>10, <1>11, <1>12, <1>13, <1>14, <1>15, <1>16, <1>17, <1>18
     DEF HandlerStep, Awaits

LEMMA CapStep ==
  ASSUME CapHypothesis, TypeOK, CapInv, [Next]_vars
  PROVE  CapInv'
<1>1. ASSUME UNCHANGED <<pc, job, budget, txStatus, txPost>> PROVE CapInv'
  <2>1. \A P : SentFor(P)' = SentFor(P) /\ HeldFor(P)' = HeldFor(P)
    BY <1>1 DEF SentFor, HeldFor
  <2>2. \A P : Count(P)' = Count(P)
    BY <2>1 DEF Count
  <2> QED
    BY <1>1, <2>2 DEF CapInv, SentHavePosts, DayCapHolds, UserCapsHold, PostsOf, budget
<1>2. ASSUME NEW h \in Handlers, HandlerStep(h)
      PROVE  CapInv'
  BY <1>2, HandlerCaps
<1>3. UsedLaunches(days[0]) \in Nat /\ UsedLaunches(days[0]) >= UsedLaunches(days[0])
  BY OneDay, LaunchesMove
<1>4. ASSUME NEW h \in Handlers, NEW p \in Posts, Claim(h, p)
      PROVE  CapInv'
  <2>1. /\ UNCHANGED <<days, userDays, txStatus, txPost>>
        /\ pc'[h] \notin Holds
        /\ \A g \in Handlers \ {h} : pc'[g] = pc[g] /\ job'[g] = job[g]
    BY <1>4 DEF Claim, budget, chain, txs, TypeOK, HandlersOK, Holds
  <2> QED
    BY <1>3, <2>1, CapsStay
<1>5. ASSUME NEW t \in Tx, NEW ok \in BOOLEAN, Mine(t, ok)
      PROVE  CapInv'
  <2>1. /\ UNCHANGED <<pc, job, days, userDays, txPost>>
        /\ \A v \in Tx : txStatus'[v] # "unused" <=> txStatus[v] # "unused"
    BY <1>5 DEF Mine, handlers, locals, budget, TypeOK, ChainOK
  <2>2. \A P : SentFor(P)' = SentFor(P) /\ HeldFor(P)' = HeldFor(P)
    BY <2>1 DEF SentFor, HeldFor
  <2>3. \A P : Count(P)' = Count(P)
    BY <2>2 DEF Count
  <2> QED
    BY <2>1, <2>3 DEF CapInv, SentHavePosts, DayCapHolds, UserCapsHold, PostsOf
<1>6. ASSUME NEW r \in Resolvers, ResolverStep(r)
      PROVE  CapInv'
  BY <1>1, <1>6 DEF ResolverStep, Look, Resolve, handlers, locals, chain, txs
<1>7. ASSUME NEW p \in Posts, ForceRetry(p) \/ CooldownLapses(p)
      PROVE  CapInv'
  BY <1>1, <1>7 DEF ForceRetry, CooldownLapses, handlers, locals, chain, txs
<1>8. CASE Midnight
  BY <1>1, <1>8 DEF Midnight, handlers, locals, chain, txs
<1>9. CASE Crash
  <2>1. /\ UNCHANGED <<days, userDays, txStatus, txPost>>
        /\ \A h \in Handlers : pc'[h] = "idle"
    BY <1>9 DEF Crash, budget, chain, txs
  <2>2. \A P : SentFor(P)' = SentFor(P) /\ HeldFor(P)' = {}
    BY <2>1 DEF SentFor, HeldFor, Holds
  <2>3. \A P : Count(P) \in Nat /\ Count(P)' \in Nat /\ Count(P)' <= Count(P)
    <3> TAKE P
    <3>1. Cardinality(HeldFor(P)') = 0
      BY <2>2, FS_EmptySet
    <3> QED
      BY <2>2, <3>1, CountType DEF Count
  <2>4. /\ UsedLaunches(days[0]) \in Nat /\ MaxPerDay \in Nat /\ MaxPerUserPerDay \in Nat
        /\ \A u \in Users : userDays[<<u, 0>>] \in Nat
    BY <1>3, OneDay, BudgetAssumption
  <2>5. SentHavePosts'
    BY <2>1 DEF CapInv, SentHavePosts
  <2>6. DayCapHolds'
    <3>1. /\ Count(Posts) \in Nat /\ Count(Posts)' \in Nat /\ Count(Posts)' <= Count(Posts)
      BY <2>3
    <3>2. Count(Posts)' <= UsedLaunches(days'[0]) /\ Count(Posts)' <= MaxPerDay
      BY <2>1, <2>4, <3>1 DEF CapInv, DayCapHolds
    <3> QED
      BY <3>2 DEF DayCapHolds
  <2>7. UserCapsHold'
    <3> SUFFICES ASSUME NEW u \in Users
                 PROVE  /\ Count(PostsOf(u))' <= userDays'[<<u, 0>>]
                        /\ Count(PostsOf(u))' <= MaxPerUserPerDay
      BY DEF UserCapsHold
    <3>1. /\ Count(PostsOf(u)) \in Nat /\ Count(PostsOf(u))' \in Nat
          /\ Count(PostsOf(u))' <= Count(PostsOf(u))
      BY <2>3 DEF PostsOf
    <3> QED
      BY <2>1, <2>4, <3>1 DEF CapInv, UserCapsHold
  <2> QED
    BY <2>5, <2>6, <2>7 DEF CapInv
<1>10. CASE UNCHANGED vars
  BY <1>1, <1>10 DEF vars, handlers, locals, chain, txs
<1> QED
  BY <1>2, <1>4, <1>5, <1>6, <1>7, <1>8, <1>9, <1>10 DEF Next

LEMMA CapInit == CapHypothesis /\ Init => CapInv
<1> SUFFICES ASSUME CapHypothesis, Init PROVE CapInv
  OBVIOUS
<1>1. \A P : SentFor(P) = {} /\ HeldFor(P) = {}
  BY DEF Init, SentFor, HeldFor, Holds
<1>2. \A P : Count(P) = 0
  BY <1>1, FS_EmptySet DEF Count
<1>3. /\ Days = {0} /\ days[0] = EmptyDay /\ UsedLaunches(EmptyDay) = 0
      /\ \A u \in Users : userDays[<<u, 0>>] = 0
  BY DEF CapHypothesis, Days, Init, EmptyDay, UsedLaunches
<1>4. DayCapHolds
  BY <1>2, <1>3, BudgetAssumption DEF DayCapHolds
<1>5. UserCapsHold
  <2> SUFFICES ASSUME NEW u \in Users
               PROVE  /\ Count(PostsOf(u)) <= userDays[<<u, 0>>]
                      /\ Count(PostsOf(u)) <= MaxPerUserPerDay
    BY DEF UserCapsHold
  <2>1. Count(PostsOf(u)) = 0 /\ userDays[<<u, 0>>] = 0
    BY <1>2, <1>3
  <2> QED
    BY <2>1, BudgetAssumption
<1> QED
  BY <1>4, <1>5 DEF CapInv, SentHavePosts, Init

\* What was sent is no more than what was counted.
LEMMA CapsSuffice ==
  ASSUME CapHypothesis, TypeOK, CapInv
  PROVE  WithinDailyCap /\ WithinUserCap
<1>1. /\ Days = {0} /\ MaxPerDay \in Nat /\ MaxPerUserPerDay \in Nat
  BY OneDay, BudgetAssumption
<1>2. ASSUME NEW P, NEW S \in SUBSET SentFor(P)
      PROVE  Cardinality(S) \in Nat /\ Cardinality(S) <= Count(P) /\ Count(P) \in Nat
  <2>1. Cardinality(S) \in Nat /\ Cardinality(S) <= Cardinality(SentFor(P))
    BY CountType, FS_Subset, FS_CardinalityType
  <2> QED
    BY <2>1, CountType DEF Count
<1>3. ASSUME NEW d \in Days
      PROVE  Cardinality(SentOn(d)) <= MaxPerDay
  <2>1. SentOn(d) \in SUBSET SentFor(Posts)
    BY DEF SentOn, SentFor, CapInv, SentHavePosts
  <2> QED
    BY <1>1, <1>2, <2>1 DEF CapInv, DayCapHolds
<1>4. ASSUME NEW d \in Days, NEW u \in Users
      PROVE  Cardinality({t \in SentOn(d) : Author[txPost[t]] = u}) <= MaxPerUserPerDay
  <2> DEFINE S == {t \in SentOn(d) : Author[txPost[t]] = u}
  <2>1. S \in SUBSET SentFor(PostsOf(u))
    BY DEF SentOn, SentFor, PostsOf, CapInv, SentHavePosts
  <2> HIDE DEF S
  <2>2. Count(PostsOf(u)) <= MaxPerUserPerDay
    BY Zenon DEF CapInv, UserCapsHold
  <2>3. Cardinality(S) <= MaxPerUserPerDay
    BY <1>1, <1>2, <2>1, <2>2
  <2> QED
    BY <2>3 DEF S
<1> QED
  BY <1>3, <1>4 DEF WithinDailyCap, WithinUserCap

\* Within one UTC day no interleaving of launches, failures, retries and crashes
\* sends more transactions than the day allows, or than one account is allowed,
\* unless a response is lost on the way back (store.ts, reserveLaunch and
\* releaseReservation; engine.ts, launch).
THEOREM CapsHold == CapHypothesis /\ Spec => [](WithinDailyCap /\ WithinUserCap)
<1> DEFINE Inv == TypeOK /\ CapInv
<1>1. CapHypothesis /\ Init => Inv
  BY TypeInit, CapInit
<1>2. CapHypothesis /\ Inv /\ [Next]_vars => Inv'
  BY TypeStep, CapStep
<1>3. CapHypothesis /\ Inv => WithinDailyCap /\ WithinUserCap
  BY CapsSuffice
<1> QED
  <2>1. CASE CapHypothesis
    <3>1. Init => Inv
      BY <1>1, <2>1
    <3>2. Inv /\ [Next]_vars => Inv'
      BY <1>2, <2>1
    <3>3. Inv => WithinDailyCap /\ WithinUserCap
      BY <1>3, <2>1
    <3> HIDE DEF Inv
    <3> QED BY <3>1, <3>2, <3>3, PTL DEF Spec
  <2> QED BY <2>1

\* The day's cap.
THEOREM DayNeverOverspent == CapHypothesis /\ Spec => []WithinDailyCap
BY CapsHold, PTL

\* The account's cap.
THEOREM AccountNeverOverspent == CapHypothesis /\ Spec => []WithinUserCap
BY CapsHold, PTL

-----------------------------------------------------------------------------
(* The rows.  What a row of x_launches says of its post, what the call that *)
(* works on the post relies on, and what a resolver's snapshot is worth.    *)
(*                                                                          *)
(* A lost response gives back a row whose transaction may stand.  Where an  *)
(* operator forces posts nobody works on, two resolvers at once are one too *)
(* many: the second may mark a row by a hash that a new attempt replaced.   *)

RowHypothesis ==
  /\ "lost_reply" \notin Faults
  /\ \/ NoForcing
     \/ "force_live" \notin Faults /\ \A r, s \in Resolvers : r = s

\* The awaits of a launch before its row says that it is sending.
Opening == Holds \cup {"routing", "answering", "pricing"}

\* The row of a post: one that may be reused has nothing on the chain, one with
\* a hash has nothing else there.
RowOf(p) ==
  /\ status[p] \in Reusable => Live(p) = {}
  /\ status[p] = "launched" => hash[p] # NoTx /\ txStatus[hash[p]] = "success"
  /\ hash[p] # NoTx =>
       /\ txPost[hash[p]] = p /\ txStatus[hash[p]] # "unused"
       /\ Live(p) \subseteq {hash[p]}
       /\ status[p] \in {"sending", "indeterminate", "launched", "failed"}
  /\ \A t, u \in Live(p) : t = u

\* The row and the chain, as the call that works on the post left them.
HolderOf(h) ==
  LET p == job[h] IN
  /\ At(h, "seating") => status[p] = "reserved" /\ hash[p] = NoTx
  /\ At(h, "sending") => status[p] = "sending" /\ hash[p] = NoTx /\ Live(p) = {}
  /\ At(h, "submitted") =>
       /\ status[p] = "sending" /\ hash[p] = NoTx
       /\ created[h] \in Tx /\ Live(p) \subseteq {created[h]}
       /\ txPost[created[h]] = p /\ txStatus[created[h]] # "unused"
  /\ pc[h] \in {"waiting", "announcing"} => created[h] \in Tx /\ hash[p] = created[h]

\* A resolver's snapshot is not stale: the row still has the hash it asks about.
LookingAt(r) ==
  looking[r] # NoPost =>
    /\ hash[looking[r]] = asked[r]
    /\ ~NoForcing => status[looking[r]] \in {"sending", "indeterminate", "launched"}

\* A post whose row has a hash is closed to new launches.
ShutOf(p) ==
  NoForcing /\ hash[p] # NoTx =>
    /\ outcome[p] # "none"
    /\ \A h \in Handlers : job[h] = p => pc[h] \notin Opening

RowInv ==
  /\ OneHolder
  /\ \A p \in Posts : RowOf(p) /\ ShutOf(p)
  /\ \A h \in Handlers : HolderOf(h)
  /\ \A r \in Resolvers : LookingAt(r)

\* A call lets go of its post and settles it, or keeps it and its claim.
LEMMA KeepsOrEnds ==
  ASSUME TypeOK, NEW h \in Handlers, HandlerStep(h)
  PROVE  \/ /\ Done(h)
            /\ \E end \in Settled \cup {"none"}, spoken \in BOOLEAN : Settle(job[h], end, spoken)
         \/ job' = job /\ UNCHANGED mentions /\ pc'[h] # "idle"
<1> DEFINE Ends == /\ Done(h)
                   /\ \E end \in Settled \cup {"none"}, spoken \in BOOLEAN :
                        Settle(job[h], end, spoken)
           Keeps == job' = job /\ UNCHANGED mentions /\ pc'[h] # "idle"
<1> USE DEF At
<1>1. \A await \in Awaits \ {"idle"} : GoTo(h, await) => job' = job /\ pc'[h] # "idle"
  BY DEF GoTo, locals, TypeOK, HandlersOK
<1>2. ASSUME NEW spoken \in BOOLEAN,
             \/ SettleRefusal(h, spoken) \/ Ignore(h) \/ Answer(h, spoken)
             \/ SettleTrade(h) \/ Announce(h)
      PROVE  Ends
  BY <1>2 DEF SettleRefusal, Ignore, Answer, SettleTrade, Announce, Settled
<1>3. ASSUME NEW retryable \in BOOLEAN, Throw(h, retryable)
      PROVE  Ends \/ Keeps
  <2>1. CASE retryable
    BY <1>3, <2>1 DEF Throw, Release
  <2>2. CASE ~retryable
    BY <1>1, <1>3, <2>2 DEF Throw, Awaits
  <2> QED
    BY <2>1, <2>2
<1>4. ASSUME NEW retryable \in BOOLEAN, FailSent(h) \/ FailUnsent(h, retryable)
      PROVE  Ends \/ Keeps
  <2>1. CASE FailSent(h)
    BY <2>1 DEF FailSent, Settled
  <2>2. CASE FailUnsent(h, retryable)
    <3>1. Throw(h, retryable)
      BY <2>2 DEF FailUnsent
    <3> QED
      BY <1>3, <3>1
  <2> QED
    BY <1>4, <2>1, <2>2
<1>5. ASSUME NEW retryable \in BOOLEAN, EarlyThrow(h, retryable) \/ PrepareThrows(h, retryable)
      PROVE  Ends \/ Keeps
  <2>1. Throw(h, retryable)
    BY <1>5 DEF EarlyThrow, PrepareThrows
  <2> QED
    BY <1>3, <2>1
<1>6. ASSUME NEW retryable \in BOOLEAN,
             \/ SeatThrows(h) \/ BuildThrows(h, retryable) \/ LoseHash(h)
             \/ ReceiptThrows(h) \/ AnnounceThrows(h)
      PROVE  Ends \/ Keeps
  <2>1. \E again \in BOOLEAN : FailSent(h) \/ FailUnsent(h, again)
    BY <1>6 DEF SeatThrows, BuildThrows, LoseHash, ReceiptThrows, AnnounceThrows
  <2> HIDE DEF Ends, Keeps
  <2> QED
    BY <1>4, <2>1
<1>7. ASSUME NEW next \in Awaits,
             \/ Route(h, next) \/ SwapFills(h) \/ SwapRefused(h) \/ TradeUnconfirmed(h)
             \/ ReserveRefused(h) \/ WriteRow(h) \/ RowTaken(h) \/ SeatStands(h) \/ Launched(h)
      PROVE  Keeps
  <2>1. UNCHANGED mentions /\ \E await \in Awaits \ {"idle"} : GoTo(h, await)
    BY <1>7 DEF Route, SwapFills, SwapRefused, TradeUnconfirmed, ReserveRefused, WriteRow,
                RowTaken, SeatStands, Launched, Awaits
  <2> QED
    BY <1>1, <2>1
<1>8. ASSUME ReserveLaunch(h) \/ FindSeat(h) \/ DeploySeat(h) \/ RecordHash(h)
      PROVE  Keeps
  BY <1>8 DEF ReserveLaunch, FindSeat, DeploySeat, RecordHash, TypeOK, HandlersOK
<1>9. ASSUME NEW t \in Tx, Submit(h, t)
      PROVE  Keeps
  BY <1>9 DEF Submit, TypeOK, HandlersOK
<1> HIDE DEF Ends, Keeps
<1>10. Ends \/ Keeps
  BY <1>2, <1>5, <1>6, <1>7, <1>8, <1>9 DEF HandlerStep, Awaits
<1> QED
  BY <1>10 DEF Ends, Keeps

LEMMA HolderStep ==
  ASSUME TypeOK, OneHolder, NEW h \in Handlers, HandlerStep(h)
  PROVE  /\ OneHolder'
         /\ \A g \in Handlers \ {h} : job[g] = job[h] => pc[g] = "idle"
         /\ \A q \in Posts \ {job[h]} : outcome'[q] = outcome[q]
<1>1. /\ pc[h] # "idle" /\ job[h] \in Posts
      /\ \A g \in Handlers \ {h} : pc'[g] = pc[g] /\ job'[g] = job[g]
  BY AloneAtWork, AtWork
<1>2. \A g \in Handlers \ {h} : pc[g] # "idle" => job[g] # job[h] /\ job[g] \in Posts
  BY <1>1, AtWork DEF OneHolder
<1>3. \A g \in Handlers \ {h} : job[g] = job[h] => pc[g] = "idle"
  BY <1>2
<1>4. CASE /\ Done(h)
           /\ \E end \in Settled \cup {"none"}, spoken \in BOOLEAN : Settle(job[h], end, spoken)
  <2>1. pc'[h] = "idle" /\ job'[h] = NoPost
    BY <1>4 DEF Done, TypeOK, HandlersOK
  <2>2. \A q \in Posts \ {job[h]} : outcome'[q] = outcome[q]
    BY <1>4 DEF Settle, TypeOK, MentionsOK
  <2>3. OneHolder'
    BY <1>1, <1>2, <2>1, <2>2, EngineAssumption DEF OneHolder
  <2> QED
    BY <1>3, <2>2, <2>3
<1>5. CASE job' = job /\ UNCHANGED mentions /\ pc'[h] # "idle"
  <2>1. outcome' = outcome /\ job' = job
    BY <1>5 DEF mentions
  <2>2. OneHolder'
    BY <1>1, <2>1 DEF OneHolder
  <2> QED
    BY <1>3, <2>1, <2>2
<1> QED
  BY <1>4, <1>5, KeepsOrEnds

\* A step of one call disturbs the row and the claim of its own post only.
LEMMA RowsElsewhere ==
  ASSUME RowHypothesis, TypeOK, RowInv, NEW h \in Handlers, HandlerStep(h),
         NEW p \in Posts, p = job[h],
         UNCHANGED resolvers,
         \A q \in Posts \ {p} :
           status'[q] = status[q] /\ hash'[q] = hash[q] /\ Live(q)' = Live(q),
         \A t \in Tx : txStatus[t] # "unused" =>
           txStatus'[t] = txStatus[t] /\ txPost'[t] = txPost[t],
         RowOf(p)', ShutOf(p)', HolderOf(h)',
         \A r \in Resolvers : looking[r] = p => LookingAt(r)'
  PROVE  RowInv'
<1>1. /\ OneHolder'
      /\ \A g \in Handlers \ {h} : job[g] = p => pc[g] = "idle"
      /\ \A q \in Posts \ {p} : outcome'[q] = outcome[q]
  BY HolderStep DEF RowInv
<1>2. /\ pc[h] # "idle"
      /\ \A g \in Handlers \ {h} :
           pc'[g] = pc[g] /\ job'[g] = job[g] /\ created'[g] = created[g]
      /\ job'[h] \in {p, NoPost}
  <2>1. job'[h] \in {p, NoPost}
    BY KeepsOrEnds DEF Done, TypeOK, HandlersOK
  <2> QED
    BY <2>1, AloneAtWork
<1>3. ASSUME NEW q \in Posts, q # p
      PROVE  RowOf(q)' /\ ShutOf(q)'
  <2>1. RowOf(q) /\ ShutOf(q)
    BY DEF RowInv
  <2>2. hash[q] \in Tx \cup {NoTx}
    BY DEF TypeOK, RowsOK
  <2>3. RowOf(q)'
    BY <1>3, <2>1, <2>2 DEF RowOf
  <2>4. ShutOf(q)'
    BY <1>1, <1>2, <1>3, <2>1, EngineAssumption DEF ShutOf
  <2> QED
    BY <2>3, <2>4
<1>4. ASSUME NEW g \in Handlers, g # h
      PROVE  HolderOf(g)'
  <2>1. HolderOf(g)
    BY DEF RowInv
  <2>2. CASE pc[g] = "idle"
    BY <1>2, <1>4, <2>2 DEF HolderOf, At
  <2>3. CASE pc[g] # "idle"
    <3>1. PICK q \in Posts : q = job[g]
      BY <2>3, AtWork
    <3>2. q # p /\ job'[g] = q /\ pc'[g] = pc[g] /\ created'[g] = created[g]
      BY <1>1, <1>2, <1>4, <2>3, <3>1
    <3>3. status'[q] = status[q] /\ hash'[q] = hash[q] /\ Live(q)' = Live(q)
      BY <3>2
    <3>4. /\ pc[g] = "seating" => status[q] = "reserved" /\ hash[q] = NoTx
          /\ pc[g] = "sending" => status[q] = "sending" /\ hash[q] = NoTx /\ Live(q) = {}
          /\ pc[g] = "submitted" =>
               /\ status[q] = "sending" /\ hash[q] = NoTx
               /\ created[g] \in Tx /\ Live(q) \subseteq {created[g]}
               /\ txPost[created[g]] = q /\ txStatus[created[g]] # "unused"
          /\ pc[g] \in {"waiting", "announcing"} => created[g] \in Tx /\ hash[q] = created[g]
      BY <2>1, <3>1 DEF HolderOf, At
    <3>5. /\ pc'[g] = "seating" => status'[q] = "reserved" /\ hash'[q] = NoTx
          /\ pc'[g] = "sending" => status'[q] = "sending" /\ hash'[q] = NoTx /\ Live(q)' = {}
          /\ pc'[g] = "submitted" =>
               /\ status'[q] = "sending" /\ hash'[q] = NoTx
               /\ created'[g] \in Tx /\ Live(q)' \subseteq {created'[g]}
               /\ txPost'[created'[g]] = q /\ txStatus'[created'[g]] # "unused"
          /\ pc'[g] \in {"waiting", "announcing"} => created'[g] \in Tx /\ hash'[q] = created'[g]
      BY <3>2, <3>3, <3>4
    <3>6. Live(job[g])' = Live(q)'
      BY <3>2 DEF Live
    <3> QED
      BY <3>2, <3>5, <3>6 DEF HolderOf, At
  <2> QED
    BY <2>2, <2>3
<1>5. ASSUME NEW r \in Resolvers
      PROVE  LookingAt(r)'
  <2>1. LookingAt(r) /\ looking'[r] = looking[r] /\ asked'[r] = asked[r]
    BY DEF RowInv, resolvers
  <2>2. CASE looking[r] = p
    BY <2>2
  <2>3. CASE looking[r] # p /\ looking[r] # NoPost
    <3>1. looking[r] \in Posts \ {p}
      BY <2>3 DEF TypeOK, ResolversOK
    <3>2. hash'[looking[r]] = hash[looking[r]] /\ status'[looking[r]] = status[looking[r]]
      BY <3>1
    <3> QED
      BY <2>1, <2>3, <3>2 DEF LookingAt
  <2>4. CASE looking[r] = NoPost
    BY <2>1, <2>4 DEF LookingAt
  <2> QED
    BY <2>2, <2>3, <2>4
<1> QED
  BY <1>1, <1>3, <1>4, <1>5 DEF RowInv

\* The awaits at which a call relies on the row it wrote.
Late == {"seating", "sending", "submitted", "waiting", "announcing"}

\* A step that leaves the rows and the chain alone.
LEMMA RowsStay ==
  ASSUME RowHypothesis, TypeOK, RowInv, NEW h \in Handlers, HandlerStep(h),
         UNCHANGED <<status, hash, txs, resolvers>>,
         pc'[h] \notin Late,
         pc'[h] \in Opening => pc[h] \in Opening,
         outcome'[job[h]] = "none" => pc[h] \in Opening
  PROVE  RowInv'
<1>1. PICK p \in Posts : p = job[h]
  BY AloneAtWork, AtWork
<1>2. UNCHANGED <<status, hash, txStatus, txPost, looking, asked>>
  BY DEF txs, resolvers
<1>3. \A q \in Posts : Live(q)' = Live(q)
  BY <1>2 DEF Live
<1>4. RowOf(p)'
  <2>1. RowOf(p)
    BY DEF RowInv
  <2> QED
    BY <1>2, <1>3, <2>1 DEF RowOf
<1>5. HolderOf(h)'
  BY DEF HolderOf, At, Late
<1>6. \A r \in Resolvers : looking[r] = p => LookingAt(r)'
  BY <1>2 DEF RowInv, LookingAt
<1>7. ShutOf(p)'
  <2> SUFFICES ASSUME NoForcing, hash'[p] # NoTx
               PROVE  /\ outcome'[p] # "none"
                      /\ \A g \in Handlers : job'[g] = p => pc'[g] \notin Opening
    BY DEF ShutOf
  <2>1. /\ hash[p] # NoTx /\ outcome[p] # "none"
        /\ \A g \in Handlers : job[g] = p => pc[g] \notin Opening
    BY <1>2 DEF RowInv, ShutOf
  <2>2. pc[h] \notin Opening
    BY <1>1, <2>1
  <2>3. outcome'[p] # "none" /\ pc'[h] \notin Opening
    BY <1>1, <2>2
  <2>4. \A g \in Handlers \ {h} : pc'[g] = pc[g] /\ job'[g] = job[g]
    BY AloneAtWork
  <2> QED
    BY <2>1, <2>3, <2>4
<1> QED
  BY <1>1, <1>2, <1>3, <1>4, <1>5, <1>6, <1>7, RowsElsewhere

\* A step that gives the row of the call's post another status and its hash.
LEMMA RowChanges ==
  ASSUME RowHypothesis, TypeOK, RowInv, NEW h \in Handlers, HandlerStep(h),
         NEW p \in Posts, p = job[h], UNCHANGED <<txs, resolvers>>,
         NEW to \in Statuses, NEW known \in Tx \cup {NoTx},
         status' = [status EXCEPT ![p] = to],
         hash' = [hash EXCEPT ![p] = known],
         to \in Reusable => Live(p) = {},
         to = "launched" => known # NoTx /\ txStatus[known] = "success",
         known # NoTx => /\ txPost[known] = p /\ txStatus[known] # "unused"
                         /\ Live(p) \subseteq {known}
                         /\ to \in {"sending", "indeterminate", "launched", "failed"},
         HolderOf(h)', ShutOf(p)',
         \/ \A r \in Resolvers : looking[r] # p
         \/ known = hash[p] /\ to \in {"indeterminate", "launched"}
  PROVE  RowInv'
<1>1. UNCHANGED <<txStatus, txPost, looking, asked>>
  BY DEF txs, resolvers
<1>2. \A q \in Posts : Live(q)' = Live(q)
  BY <1>1 DEF Live
<1>3. /\ status'[p] = to /\ hash'[p] = known
      /\ \A q \in Posts \ {p} : status'[q] = status[q] /\ hash'[q] = hash[q]
  BY DEF TypeOK, RowsOK
<1>4. RowOf(p)'
  <2>1. \A t, u \in Live(p) : t = u
    BY DEF RowInv, RowOf
  <2> QED
    BY <1>1, <1>2, <1>3, <2>1 DEF RowOf
<1>5. \A r \in Resolvers : looking[r] = p => LookingAt(r)'
  <2> SUFFICES ASSUME NEW r \in Resolvers, looking[r] = p
               PROVE  LookingAt(r)'
    OBVIOUS
  <2>1. looking[r] # NoPost /\ hash[p] = asked[r]
    BY EngineAssumption DEF RowInv, LookingAt
  <2> QED
    BY <1>1, <1>3, <2>1 DEF LookingAt
<1> QED
  BY <1>1, <1>2, <1>3, <1>4, <1>5, RowsElsewhere

\* A row without a hash is shut to nobody, and no resolver looks at it.
LEMMA NoHash ==
  ASSUME TypeOK, RowInv, NEW p \in Posts, hash[p] = NoTx
  PROVE  \A r \in Resolvers : looking[r] # p
BY EngineAssumption DEF RowInv, LookingAt, TypeOK, ResolversOK

LEMMA HandlerRows ==
  ASSUME RowHypothesis, TypeOK, RowInv, NEW h \in Handlers, HandlerStep(h)
  PROVE  RowInv'
<1> USE DEF At, chain
<1>0. PICK p \in Posts : p = job[h]
  BY AloneAtWork, AtWork
<1>1. /\ pc[h] # "idle" /\ HolderOf(h) /\ RowOf(p) /\ ShutOf(p) /\ OneHolder
      /\ \A g \in Handlers \ {h} : job[g] = p => pc[g] = "idle"
      /\ \A g \in Handlers \ {h} : pc'[g] = pc[g] /\ job'[g] = job[g]
      /\ status[p] \in Statuses /\ hash[p] \in Tx \cup {NoTx} /\ NoTx \notin Tx
      /\ status \in [Posts -> Statuses] /\ hash \in [Posts -> Tx \cup {NoTx}]
      /\ outcome \in [Posts -> Outcomes] /\ outcome[p] = "claimed"
      /\ pc \in [Handlers -> Awaits]
  BY <1>0, AloneAtWork, HolderStep, EngineAssumption
     DEF RowInv, OneHolder, TypeOK, RowsOK, MentionsOK, HandlersOK
<1>2. ASSUME hash'[p] = NoTx PROVE ShutOf(p)'
  BY <1>2 DEF ShutOf
<1>3. \A r \in Resolvers : hash[p] = NoTx => looking[r] # p
  BY NoHash
<1>4. ASSUME UNCHANGED <<rows, txs, resolvers>>, outcome'[p] # "none",
             pc'[h] \in {"idle", "refusing", "confirming"}
      PROVE  RowInv'
  <2>1. UNCHANGED <<status, hash>> /\ pc'[h] \notin Late /\ pc'[h] \notin Opening
    BY <1>4 DEF rows, Late, Opening, Holds
  <2> QED
    BY <1>0, <1>4, <2>1, RowsStay
<1>5. ASSUME UNCHANGED <<rows, txs, resolvers>>, NEW retryable \in BOOLEAN,
             Throw(h, retryable), pc[h] \in Opening
      PROVE  RowInv'
  <2>1. UNCHANGED <<status, hash>> /\ pc'[h] \notin Late
    BY <1>1, <1>5, GasOfMoves DEF rows, Late
  <2> QED
    BY <1>5, <2>1, RowsStay
\* The catch when something was sent: the row is open until it is resolved.
<1>6. ASSUME UNCHANGED <<txs, resolvers>>, FailSent(h)
      PROVE  RowInv'
  <2>1. /\ status' = [status EXCEPT ![p] = "indeterminate"] /\ hash' = hash
        /\ pc'[h] = "idle" /\ outcome'[p] = "failed" /\ job'[h] = NoPost
    BY <1>0, <1>1, <1>6 DEF FailSent, SetStatus, Settle, Done, TypeOK, HandlersOK
  <2>2. hash' = [hash EXCEPT ![p] = hash[p]]
    BY <1>1, <2>1
  <2>3. /\ "indeterminate" \in Statuses
        /\ "indeterminate" \notin Reusable
        /\ hash[p] # NoTx => /\ txPost[hash[p]] = p /\ txStatus[hash[p]] # "unused"
                             /\ Live(p) \subseteq {hash[p]}
    BY <1>1 DEF RowOf, Statuses, Reusable
  <2>4. HolderOf(h)'
    BY <2>1 DEF HolderOf
  <2>5. ShutOf(p)'
    BY <1>1, <2>1, EngineAssumption DEF ShutOf, Opening, Holds
  <2>6. status' = [status EXCEPT ![p] = "indeterminate"] /\ UNCHANGED <<txs, resolvers>>
    BY <1>6, <2>1
  <2> QED
    BY <1>0, <1>1, <2>2, <2>3, <2>4, <2>5, <2>6, RowChanges
\* The catch when nothing was: the row may be reused.
<1>7. ASSUME UNCHANGED <<txs, resolvers>>, NEW retryable \in BOOLEAN,
             FailUnsent(h, retryable), pc[h] \in {"seating", "sending"}
      PROVE  RowInv'
  <2>1. /\ status' = [status EXCEPT ![p] = "failed"] /\ hash' = hash
        /\ pc'[h] \in {"idle", "refusing"}
    BY <1>0, <1>1, <1>7, GasOfMoves DEF FailUnsent, SetStatus
  <2>2. hash[p] = NoTx /\ Live(p) = {}
    BY <1>0, <1>1, <1>7 DEF HolderOf, RowOf, Reusable
  <2>3. hash' = [hash EXCEPT ![p] = NoTx]
    BY <1>1, <2>1, <2>2
  <2>4. HolderOf(h)'
    BY <2>1 DEF HolderOf
  <2>5. ShutOf(p)'
    BY <1>2, <2>1, <2>2
  <2> QED
    BY <1>0, <1>3, <1>7, <2>1, <2>2, <2>3, <2>4, <2>5, RowChanges DEF Statuses
<1>8. ASSUME NEW spoken \in BOOLEAN,
             \/ SettleRefusal(h, spoken) \/ Ignore(h) \/ Answer(h, spoken)
             \/ SettleTrade(h) \/ Announce(h)
      PROVE  RowInv'
  <2>1. /\ UNCHANGED <<rows, txs, resolvers>> /\ Done(h)
        /\ \E end \in Settled : Settle(job[h], end, spoken) \/ Settle(job[h], end, FALSE)
                                \/ Settle(job[h], end, TRUE)
    BY <1>8 DEF SettleRefusal, Ignore, Answer, SettleTrade, Announce, Settled
  <2>2. outcome'[p] # "none"
    BY <1>0, <1>1, <2>1 DEF Settle, Settled
  <2>3. pc'[h] = "idle"
    BY <1>1, <2>1, GasOfMoves
  <2> QED
    BY <1>4, <2>1, <2>2, <2>3
<1>9. ASSUME NEW retryable \in BOOLEAN, EarlyThrow(h, retryable) \/ PrepareThrows(h, retryable)
      PROVE  RowInv'
  <2>1. /\ UNCHANGED <<rows, txs, resolvers>> /\ Throw(h, retryable) /\ pc[h] \in Opening \cup {"answering"}
    BY <1>9 DEF EarlyThrow, PrepareThrows, Opening, Holds
  <2> QED
    BY <1>5, <2>1 DEF Opening
<1>10. ASSUME SwapFills(h) \/ SwapRefused(h) \/ TradeUnconfirmed(h) \/ ReserveRefused(h)
       PROVE  RowInv'
  <2>1. /\ UNCHANGED <<rows, txs, resolvers, mentions>>
        /\ pc'[h] \in {"refusing", "confirming"}
    BY <1>1, <1>10, GasOfMoves
       DEF SwapFills, SwapRefused, TradeUnconfirmed, ReserveRefused, Awaits
  <2> QED
    BY <1>1, <1>4, <2>1 DEF mentions
<1>11. CASE RowTaken(h)
  <2>1. UNCHANGED <<rows, txs, resolvers, mentions>> /\ pc'[h] = "refusing"
    BY <1>1, <1>11, GasOfMoves DEF RowTaken, Awaits
  <2> QED
    BY <1>1, <1>4, <2>1 DEF mentions
<1>12. ASSUME NEW next \in Awaits, Route(h, next) \/ ReserveLaunch(h) \/ FindSeat(h)
       PROVE  RowInv'
  <2>1. /\ UNCHANGED <<status, hash, txs, resolvers, outcome>>
        /\ pc[h] \in Opening
        /\ pc'[h] \notin Late
    BY <1>1, <1>12, GasOfMoves
       DEF Route, ReserveLaunch, FindSeat, rows, mentions, Opening, Holds, Late
  <2> QED
    BY <1>0, <1>1, <2>1, RowsStay
<1>13. CASE WriteRow(h)
  <2>1. /\ status[p] \in Reusable /\ status' = [status EXCEPT ![p] = "reserved"]
        /\ hash' = [hash EXCEPT ![p] = NoTx] /\ UNCHANGED <<txs, resolvers, outcome>>
        /\ pc[h] = "preparing" /\ pc'[h] = "seating" /\ job'[h] = p
    BY <1>0, <1>1, <1>13, GasOfMoves DEF WriteRow, GoTo, locals, mentions, Awaits
  <2>2. Live(p) = {}
    BY <1>1, <2>1 DEF RowOf
  <2>3. status'[p] = "reserved" /\ hash'[p] = NoTx
    BY <1>1, <2>1
  <2>4. HolderOf(h)'
    BY <2>1, <2>3 DEF HolderOf
  <2>5. ShutOf(p)'
    BY <1>2, <2>3
  <2>6. \A r \in Resolvers : looking[r] # p
    <3>1. CASE NoForcing
      <4>1. hash[p] = NoTx
        BY <1>0, <1>1, <2>1, <3>1 DEF ShutOf, Opening, Holds
      <4> QED
        BY <1>3, <4>1
    <3>2. CASE ~NoForcing
      BY <2>1, <3>2, EngineAssumption DEF RowInv, LookingAt, Reusable
    <3> QED
      BY <3>1, <3>2
  <2> QED
    BY <1>0, <2>1, <2>2, <2>4, <2>5, <2>6, RowChanges DEF Statuses
<1>14. ASSUME SeatStands(h) \/ DeploySeat(h)
       PROVE  RowInv'
  <2>1. /\ status' = [status EXCEPT ![p] = "sending"] /\ hash' = hash
        /\ UNCHANGED <<txs, resolvers, outcome>>
        /\ pc[h] = "seating" /\ pc'[h] = "sending" /\ job'[h] = p
    BY <1>0, <1>1, <1>14, GasOfMoves
       DEF SeatStands, DeploySeat, SetStatus, GoTo, locals, mentions, Awaits
  <2>2. hash[p] = NoTx /\ Live(p) = {}
    BY <1>0, <1>1, <2>1 DEF HolderOf, RowOf, Reusable
  <2>3. hash' = [hash EXCEPT ![p] = NoTx] /\ status'[p] = "sending" /\ hash'[p] = NoTx
    BY <1>1, <2>1, <2>2
  <2>4. Live(p)' = {}
    BY <2>1, <2>2 DEF Live, txs
  <2>5. Live(job[h])' = {}
    BY <2>1, <2>4 DEF Live
  <2>6. HolderOf(h)'
    BY <2>1, <2>3, <2>5 DEF HolderOf
  <2>7. ShutOf(p)'
    BY <1>2, <2>3
  <2>8. /\ status' = [status EXCEPT ![p] = "sending"] /\ hash' = [hash EXCEPT ![p] = NoTx]
        /\ UNCHANGED <<txs, resolvers>>
    BY <2>1, <2>3
  <2>9. /\ "sending" \in Statuses /\ "sending" \notin Reusable /\ NoTx \in Tx \cup {NoTx}
        /\ \A r \in Resolvers : looking[r] # p
    BY <1>3, <2>2 DEF Statuses, Reusable
  <2> QED
    BY <1>0, <2>6, <2>7, <2>8, <2>9, RowChanges
<1>15. CASE SeatThrows(h)
  BY <1>7, <1>15 DEF SeatThrows
<1>16. ASSUME NEW retryable \in BOOLEAN, BuildThrows(h, retryable)
       PROVE  RowInv'
  BY <1>6, <1>7, <1>16 DEF BuildThrows
<1>17. ASSUME NEW t \in Tx, Submit(h, t)
       PROVE  RowInv'
  <2>1. /\ UNCHANGED <<status, hash, resolvers, outcome>>
        /\ pc[h] = "sending" /\ pc'[h] = "submitted" /\ job' = job /\ created'[h] = t
        /\ txStatus[t] = "unused" /\ txStatus'[t] = "pending" /\ txPost'[t] = p
        /\ \A u \in Tx \ {t} : txStatus'[u] = txStatus[u] /\ txPost'[u] = txPost[u]
    BY <1>0, <1>1, <1>17 DEF Submit, rows, mentions, TypeOK, HandlersOK, ChainOK
  <2>2. status[p] = "sending" /\ hash[p] = NoTx /\ Live(p) = {}
    BY <1>0, <1>1, <2>1 DEF HolderOf
  <2>3. Live(p)' = {t}
    BY <2>1, <2>2 DEF Live
  <2>4. \A q \in Posts \ {p} : Live(q)' = Live(q)
    BY <2>1 DEF Live
  <2>5. RowOf(p)'
    BY <2>1, <2>2, <2>3 DEF RowOf, Reusable
  <2>6. Live(job[h])' = {t} /\ job'[h] = p
    BY <1>0, <2>1, <2>3
  <2>7. HolderOf(h)'
    BY <2>1, <2>2, <2>6 DEF HolderOf
  <2>8. ShutOf(p)'
    BY <1>2, <2>1, <2>2
  <2>9. \A r \in Resolvers : looking[r] # p
    BY <1>3, <2>2
  <2>10. \A u \in Tx : txStatus[u] # "unused" =>
           txStatus'[u] = txStatus[u] /\ txPost'[u] = txPost[u]
    BY <2>1
  <2> QED
    BY <1>0, <2>1, <2>4, <2>5, <2>7, <2>8, <2>9, <2>10, RowsElsewhere
<1>18. CASE RecordHash(h)
  <2>1. /\ hash' = [hash EXCEPT ![p] = created[h]] /\ status' = status
        /\ UNCHANGED <<txs, resolvers, outcome>>
        /\ pc[h] = "submitted" /\ pc'[h] = "waiting" /\ job' = job /\ created' = created
    BY <1>0, <1>1, <1>18 DEF RecordHash, mentions
  <2>2. /\ status[p] = "sending" /\ hash[p] = NoTx
        /\ created[h] \in Tx /\ Live(p) \subseteq {created[h]}
        /\ txPost[created[h]] = p /\ txStatus[created[h]] # "unused"
    BY <1>0, <1>1, <2>1 DEF HolderOf
  <2>3. status' = [status EXCEPT ![p] = "sending"] /\ hash'[p] = created[h]
    BY <1>1, <2>1, <2>2
  <2>4. HolderOf(h)'
    BY <1>0, <2>1, <2>2, <2>3 DEF HolderOf
  <2>5. ShutOf(p)'
    BY <1>0, <1>1, <2>1 DEF ShutOf, Opening, Holds
  <2> QED
    BY <1>0, <1>3, <2>1, <2>2, <2>3, <2>4, <2>5, RowChanges DEF Statuses, Reusable
<1>19. ~LoseHash(h)
  BY DEF LoseHash, RowHypothesis
<1>20. CASE Launched(h)
  <2>1. /\ status' = [status EXCEPT ![p] = "launched"]
        /\ hash' = [hash EXCEPT ![p] = created[h]]
        /\ UNCHANGED <<txs, resolvers, outcome>> /\ txStatus[created[h]] = "success"
        /\ pc[h] = "waiting" /\ pc'[h] = "announcing" /\ job' = job /\ created' = created
    BY <1>0, <1>1, <1>20, GasOfMoves DEF Launched, GoTo, locals, mentions, Awaits
  <2>2. created[h] \in Tx /\ hash[p] = created[h]
    BY <1>0, <1>1, <2>1 DEF HolderOf
  <2>3. /\ txPost[created[h]] = p /\ Live(p) \subseteq {created[h]} /\ created[h] # NoTx
    BY <1>1, <2>2 DEF RowOf
  <2>4. hash'[p] = created[h]
    BY <1>1, <2>1
  <2>5. HolderOf(h)'
    BY <1>0, <2>1, <2>2, <2>4 DEF HolderOf
  <2>6. ShutOf(p)'
    BY <1>0, <1>1, <2>1 DEF ShutOf, Opening, Holds
  <2> QED
    BY <1>0, <2>1, <2>2, <2>3, <2>5, <2>6, RowChanges DEF Statuses, Reusable
<1>21. ASSUME ReceiptThrows(h) \/ AnnounceThrows(h)
       PROVE  RowInv'
  BY <1>6, <1>21 DEF ReceiptThrows, AnnounceThrows
<1> QED
  BY <1>8, <1>9, <1>10, <1>11, <1>12, <1>13, <1>14, <1>15, <1>16, <1>17, <1>18, <1>19, <1>20,
     <1>21 DEF HandlerStep, Awaits

\* A resolver marks the row it looked at by what the chain says of its hash.
LEMMA ResolverRows ==
  ASSUME RowHypothesis, TypeOK, RowInv, NEW r \in Resolvers, ResolverStep(r)
  PROVE  RowInv'
<1>1. /\ UNCHANGED <<outcome, pc, job, created, hash, txStatus, txPost>>
      /\ \A s \in Resolvers \ {r} : looking'[s] = looking[s] /\ asked'[s] = asked[s]
  BY DEF ResolverStep, Look, Resolve, SetStatus, rows, mentions, handlers, locals, chain, txs,
         TypeOK, ResolversOK
<1>2. OneHolder' /\ (\A p \in Posts : ShutOf(p)') /\ \A p \in Posts : Live(p)' = Live(p)
  BY <1>1 DEF RowInv, OneHolder, ShutOf, Live
<1>3. \A h \in Handlers : Live(job[h])' = Live(job[h])
  BY <1>1 DEF Live
<1>4. CASE status' = status
  <2>1. \A p \in Posts : RowOf(p)'
    BY <1>1, <1>2, <1>4 DEF RowInv, RowOf
  <2>2. \A h \in Handlers : HolderOf(h)'
    BY <1>1, <1>3, <1>4 DEF RowInv, HolderOf, At
  <2>3. \A s \in Resolvers \ {r} : LookingAt(s)'
    BY <1>1, <1>4 DEF RowInv, LookingAt
  <2>4. LookingAt(r)'
    <3>1. ASSUME NEW p \in Posts, Look(r, p)
          PROVE  LookingAt(r)'
      BY <1>1, <1>4, <3>1 DEF Look, LookingAt, TypeOK, ResolversOK
    <3>2. CASE Resolve(r)
      BY <3>2 DEF Resolve, LookingAt, TypeOK, ResolversOK
    <3> QED
      BY <3>1, <3>2 DEF ResolverStep
  <2> QED
    BY <1>2, <2>1, <2>2, <2>3, <2>4 DEF RowInv
<1>5. CASE status' # status
  <2>1. Resolve(r)
    BY <1>5 DEF ResolverStep, Look, rows
  <2>2. PICK p \in Posts : p = looking[r]
    BY <2>1 DEF Resolve, TypeOK, ResolversOK
  <2>3. PICK t \in Tx : t = asked[r]
    BY <2>1 DEF Resolve, TypeOK, ResolversOK
  <2>4. /\ hash[p] = t /\ t # NoTx /\ looking'[r] = NoPost
        /\ RowOf(p)
    BY <2>1, <2>2, <2>3, EngineAssumption DEF RowInv, LookingAt, Resolve, TypeOK, ResolversOK
  <2>5. \/ txStatus[t] = "success" /\ status' = [status EXCEPT ![p] = "launched"]
        \/ txStatus[t] = "reverted" /\ status' = [status EXCEPT ![p] = "failed"]
    BY <1>5, <2>1, <2>2, <2>3 DEF Resolve, SetStatus, rows
  <2>6. /\ \/ txStatus[t] = "success" /\ status'[p] = "launched"
           \/ txStatus[t] = "reverted" /\ status'[p] = "failed"
        /\ \A q \in Posts \ {p} : status'[q] = status[q]
    BY <2>5 DEF TypeOK, RowsOK
  <2>7. ASSUME NEW q \in Posts PROVE RowOf(q)'
    <3>1. RowOf(q)
      BY DEF RowInv
    <3>2. CASE q # p
      BY <1>1, <1>2, <2>6, <3>1, <3>2 DEF RowOf
    <3>3. CASE q = p
      <4>1. txStatus[t] = "reverted" => Live(p) = {}
        BY <2>4 DEF RowOf, Live
      <4> QED
        BY <1>1, <1>2, <2>4, <2>6, <3>3, <4>1 DEF RowOf, Reusable
    <3> QED
      BY <3>2, <3>3
  <2>8. ASSUME NEW h \in Handlers PROVE HolderOf(h)'
    <3>1. HolderOf(h)
      BY DEF RowInv
    <3>2. CASE job[h] = p
      BY <1>1, <2>4, <3>1, <3>2 DEF HolderOf, At
    <3>3. CASE job[h] # p /\ job[h] \in Posts
      <4>1. status'[job[h]] = status[job[h]]
        BY <2>6, <3>3
      <4> QED
        BY <1>1, <1>3, <3>1, <4>1 DEF HolderOf, At
    <3>4. CASE job[h] \notin Posts
      <4>1. pc'[h] = "idle"
        BY <1>1, <3>4, AtWork
      <4> QED
        BY <4>1 DEF HolderOf, At
    <3> QED
      BY <3>2, <3>3, <3>4
  <2>9. ASSUME NEW s \in Resolvers PROVE LookingAt(s)'
    <3>1. CASE s = r
      BY <2>4, <3>1 DEF LookingAt
    <3>2. CASE s # r
      <4>1. NoForcing
        BY <3>2 DEF RowHypothesis
      <4> QED
        BY <1>1, <3>2, <4>1 DEF RowInv, LookingAt
    <3> QED
      BY <3>1, <3>2
  <2> QED
    BY <1>2, <2>7, <2>8, <2>9 DEF RowInv
<1> QED
  BY <1>4, <1>5

LEMMA RowStep ==
  ASSUME RowHypothesis, TypeOK, RowInv, [Next]_vars
  PROVE  RowInv'
<1>1. ASSUME UNCHANGED <<outcome, status, hash, pc, job, created, looking, asked, txs>>
      PROVE  RowInv'
  <2>1. UNCHANGED <<txStatus, txPost>>
    BY <1>1 DEF txs
  <2>2. \A p : Live(p)' = Live(p)
    BY <2>1 DEF Live
  <2>3. \A h \in Handlers : Live(job[h])' = Live(job[h])
    BY <1>1, <2>1 DEF Live
  <2>4. OneHolder' /\ \A p \in Posts : ShutOf(p)'
    BY <1>1 DEF RowInv, OneHolder, ShutOf
  <2>5. \A p \in Posts : RowOf(p)'
    BY <1>1, <2>1, <2>2 DEF RowInv, RowOf
  <2>6. \A h \in Handlers : HolderOf(h)'
    BY <1>1, <2>1, <2>3 DEF RowInv, HolderOf, At
  <2>7. \A r \in Resolvers : LookingAt(r)'
    BY <1>1 DEF RowInv, LookingAt
  <2> QED
    BY <2>4, <2>5, <2>6, <2>7 DEF RowInv
<1>2. ASSUME NEW h \in Handlers, HandlerStep(h)
      PROVE  RowInv'
  BY <1>2, HandlerRows
<1>3. ASSUME NEW h \in Handlers, NEW p \in Posts, Claim(h, p)
      PROVE  RowInv'
  <2>1. /\ UNCHANGED <<status, hash, created, looking, asked, txStatus, txPost>>
        /\ pc[h] = "idle" /\ pc'[h] \in {"trading", "routing"} /\ job'[h] = p
        /\ \A g \in Handlers \ {h} : pc'[g] = pc[g] /\ job'[g] = job[g]
        /\ outcome[p] = "none" /\ outcome'[p] = "claimed"
        /\ \A q \in Posts \ {p} : outcome'[q] = outcome[q]
    BY <1>3 DEF Claim, At, Settle, rows, resolvers, chain, txs, TypeOK, HandlersOK, MentionsOK
  <2>2. \A g \in Handlers \ {h} : job[g] # p
    BY <2>1, EngineAssumption DEF RowInv, OneHolder, TypeOK, HandlersOK
  <2>3. OneHolder'
    BY <2>1, <2>2, AtWork DEF RowInv, OneHolder
  <2>4. \A q \in Posts : Live(q)' = Live(q)
    BY <2>1 DEF Live
  <2>5. \A q \in Posts : RowOf(q)'
    BY <2>1, <2>4 DEF RowInv, RowOf
  <2>6. \A q \in Posts : ShutOf(q)'
    BY <2>1, <2>2 DEF RowInv, ShutOf
  <2>7. ASSUME NEW g \in Handlers PROVE HolderOf(g)'
    <3>1. CASE g = h
      BY <2>1, <3>1 DEF HolderOf, At
    <3>2. CASE g # h
      <4>1. Live(job[g])' = Live(job[g])
        BY <2>1, <3>2 DEF Live
      <4> QED
        BY <2>1, <3>2, <4>1 DEF RowInv, HolderOf, At
    <3> QED
      BY <3>1, <3>2
  <2>8. \A r \in Resolvers : LookingAt(r)'
    BY <2>1 DEF RowInv, LookingAt
  <2> QED
    BY <2>3, <2>5, <2>6, <2>7, <2>8 DEF RowInv
<1>4. ASSUME NEW t \in Tx, NEW ok \in BOOLEAN, Mine(t, ok)
      PROVE  RowInv'
  <2>1. /\ UNCHANGED <<outcome, status, hash, pc, job, created, looking, asked, txPost>>
        /\ \A u \in Tx : /\ txStatus'[u] # "unused" <=> txStatus[u] # "unused"
                         /\ txStatus[u] = "success" => txStatus'[u] = "success"
                         /\ txStatus'[u] \in {"pending", "success"} =>
                              txStatus[u] \in {"pending", "success"}
    BY <1>4 DEF Mine, mentions, rows, handlers, locals, resolvers, TypeOK, ChainOK
  <2>2. \A p : Live(p)' \subseteq Live(p)
    BY <2>1 DEF Live
  <2>3. \A h \in Handlers : Live(job[h])' \subseteq Live(job[h])
    BY <2>1 DEF Live
  <2>4. OneHolder' /\ \A p \in Posts : ShutOf(p)'
    BY <2>1 DEF RowInv, OneHolder, ShutOf
  <2>5. ASSUME NEW p \in Posts PROVE RowOf(p)'
    <3>1. RowOf(p) /\ hash[p] \in Tx \cup {NoTx}
      BY DEF RowInv, TypeOK, RowsOK
    <3>2. \A u \in Tx : u # NoTx
      BY EngineAssumption
    <3> QED
      BY <2>1, <2>2, <3>1, <3>2 DEF RowOf
  <2>6. ASSUME NEW h \in Handlers PROVE HolderOf(h)'
    BY <2>1, <2>3 DEF RowInv, HolderOf, At
  <2>7. \A r \in Resolvers : LookingAt(r)'
    BY <2>1 DEF RowInv, LookingAt
  <2> QED
    BY <2>4, <2>5, <2>6, <2>7 DEF RowInv
<1>5. ASSUME NEW r \in Resolvers, ResolverStep(r)
      PROVE  RowInv'
  BY <1>5, ResolverRows
<1>6. ASSUME NEW p \in Posts, ForceRetry(p)
      PROVE  RowInv'
  <2>1. ~NoForcing /\ "force_live" \notin Faults
    BY <1>6 DEF ForceRetry, NoForcing, RowHypothesis
  <2>2. /\ \A h \in Handlers : job[h] # p
        /\ UNCHANGED <<status, hash, pc, job, created, looking, asked, txs>>
        /\ \A q \in Posts \ {p} : outcome'[q] = outcome[q]
    BY <1>6, <2>1
       DEF ForceRetry, Working, Release, Settle, rows, handlers, locals, resolvers, chain,
           TypeOK, MentionsOK
  <2>3. OneHolder'
    BY <2>2, AtWork DEF RowInv, OneHolder
  <2>4. UNCHANGED <<txStatus, txPost>>
    BY <2>2 DEF txs
  <2>5. \A q \in Posts : RowOf(q)' /\ ShutOf(q)'
    <3>1. \A q \in Posts : Live(q)' = Live(q)
      BY <2>4 DEF Live
    <3> QED
      BY <2>1, <2>2, <2>4, <3>1 DEF RowInv, RowOf, ShutOf
  <2>6. \A h \in Handlers : HolderOf(h)'
    <3>1. \A h \in Handlers : Live(job[h])' = Live(job[h])
      BY <2>2, <2>4 DEF Live
    <3> QED
      BY <2>2, <2>4, <3>1 DEF RowInv, HolderOf, At
  <2>7. \A r \in Resolvers : LookingAt(r)'
    BY <2>2 DEF RowInv, LookingAt
  <2> QED
    BY <2>3, <2>5, <2>6, <2>7 DEF RowInv
<1>7. ASSUME NEW p \in Posts, CooldownLapses(p)
      PROVE  RowInv'
  BY <1>1, <1>7 DEF CooldownLapses, mentions, handlers, locals, resolvers, chain
<1>8. CASE Midnight
  BY <1>1, <1>8 DEF Midnight, mentions, rows, handlers, locals, resolvers, chain
<1>9. CASE Crash
  <2>1. /\ UNCHANGED <<outcome, status, hash, txStatus, txPost>>
        /\ \A h \in Handlers : pc'[h] = "idle"
        /\ \A r \in Resolvers : looking'[r] = NoPost
    BY <1>9 DEF Crash, mentions, rows, chain, txs
  <2>2. \A p \in Posts : Live(p)' = Live(p)
    BY <2>1 DEF Live
  <2>3. \A p \in Posts : RowOf(p)'
    BY <2>1, <2>2 DEF RowInv, RowOf
  <2>4. \A p \in Posts : ShutOf(p)'
    BY <2>1 DEF RowInv, ShutOf, Opening, Holds
  <2>5. OneHolder' /\ (\A h \in Handlers : HolderOf(h)') /\ \A r \in Resolvers : LookingAt(r)'
    BY <2>1 DEF OneHolder, HolderOf, At, LookingAt
  <2> QED
    BY <2>3, <2>4, <2>5 DEF RowInv
<1>10. CASE UNCHANGED vars
  BY <1>1, <1>10 DEF vars, mentions, rows, handlers, locals, resolvers, chain
<1> QED
  BY <1>2, <1>3, <1>4, <1>5, <1>6, <1>7, <1>8, <1>9, <1>10 DEF Next

LEMMA RowInit == Init => RowInv
<1> SUFFICES ASSUME Init PROVE RowInv
  OBVIOUS
<1>1. \A p \in Posts : Live(p) = {} /\ hash[p] = NoTx /\ status[p] = "none"
  BY DEF Init, Live
<1> QED
  BY <1>1 DEF Init, RowInv, OneHolder, RowOf, ShutOf, HolderOf, LookingAt, At

LEMMA RowInvariant == RowHypothesis /\ Spec => [](TypeOK /\ RowInv)
<1> DEFINE Inv == TypeOK /\ RowInv
<1>1. Init => Inv
  BY TypeInit, RowInit
<1>2. RowHypothesis /\ Inv /\ [Next]_vars => Inv'
  BY TypeStep, RowStep
<1>3. CASE RowHypothesis
  <2>1. Inv /\ [Next]_vars => Inv'
    BY <1>2, <1>3
  <2>2. Inv => TypeOK /\ RowInv
    OBVIOUS
  <2> HIDE DEF Inv
  <2> QED BY <1>1, <2>1, <2>2, PTL DEF Spec
<1> QED BY <1>3

\* A row that says launched names the transaction that made the market, one that
\* says failed has none behind it: through crashes, retries, resolvers reading
\* the chain late, and an operator's retry of a post nobody works on (engine.ts,
\* launch and resolveIndeterminate; store.ts, reserveLaunch's reuse of a row).
THEOREM RowsAreTrue == RowHypothesis /\ Spec => []RowsTellTheTruth
<1>1. TypeOK /\ RowInv => RowsTellTheTruth
  BY EngineAssumption DEF RowInv, RowOf, RowsTellTheTruth, Reusable, TypeOK, RowsOK
<1> QED BY <1>1, RowInvariant, PTL

\* Every market a post ever made has a row that the resolver or a reader finds,
\* however the call that made it ended (engine.ts: "No failure can leave money
\* spent with nothing recorded").
THEOREM MarketsAreRecorded == RowHypothesis /\ Spec => []MarketIsRecorded
<1>1. TypeOK /\ RowInv => MarketIsRecorded
  <2> SUFFICES ASSUME TypeOK, RowInv, NEW p \in Posts, NEW t \in Tx,
                      txPost[t] = p, txStatus[t] = "success"
               PROVE  status[p] \in {"sending", "launched", "indeterminate"}
    BY DEF MarketIsRecorded
  <2>1. t \in Live(p)
    BY DEF Live
  <2>2. status[p] \notin Reusable /\ status[p] \in Statuses
    BY <2>1 DEF RowInv, RowOf, TypeOK, RowsOK
  <2> QED
    BY <2>2 DEF Reusable, Statuses
<1> QED BY <1>1, RowInvariant, PTL

\* Where the operator forces posts that no call works on, it is the row that
\* keeps one post to one market.
THEOREM ForcedPostsKeepOneMarket == RowHypothesis /\ Spec => []OneMarketPerPost
<1>1. TypeOK /\ RowInv => OneMarketPerPost
  BY DEF RowInv, RowOf, OneMarketPerPost
<1> QED BY <1>1, RowInvariant, PTL
=============================================================================
