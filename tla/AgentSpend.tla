----------------------------- MODULE AgentSpend -----------------------------
(***************************************************************************)
(* What one agent may spend in a day.                                       *)
(*                                                                          *)
(* The spending ledger of apps/agen/src/app/lib/agents: agent_spend_days    *)
(* and agent_reservations of store.ts, and the two calls that reserve,      *)
(* send and settle: executeAgentBuy (trade.ts) and the launches of          *)
(* service.ts.  They may run at once: approvals, API keys and cycles share  *)
(* the ledger and no lock but its transactions.                             *)
(***************************************************************************)
EXTENDS Integers, FiniteSetsExt

CONSTANTS Launches,       \* calls that launch a market
          Buys,           \* calls that buy a token
          Amounts,        \* what a call may ask to spend, in coarse wei
          EthPerDay,      \* permissions: maxEthPerDayWei
          EthPerLaunch,   \* maxEthPerLaunchWei
          EthPerTrade,    \* maxEthPerTradeWei
          LaunchesPerDay, \* maxLaunchesPerDay
          LastDay,        \* bound: midnights
          MaxCrashes      \* bound: process deaths

Calls == Launches \cup Buys

Days == 0 .. LastDay

ASSUME SpendAssumption ==
  /\ Launches \cap Buys = {}
  /\ IsFiniteSet(Calls)
  /\ Amounts \subseteq Nat
  /\ EthPerDay \in Nat /\ LaunchesPerDay \in Nat
  /\ EthPerLaunch \in Nat /\ EthPerTrade \in Nat
  /\ LastDay \in Nat /\ MaxCrashes \in Nat

VARIABLES today,
          days,    \* agent_spend_days
          status,  \* agent_reservations: status, "none" where there is no row
          day,     \* day
          wei,     \* wei
          old,     \* the reservations created more than STALE_RESERVATION_SECONDS ago
          pc,      \* the await each call is at
          tx,      \* the transaction of the call
          crashes

reservations == <<status, day, wei>>
vars == <<today, days, reservations, old, pc, tx, crashes>>

DayRows == [launches : Nat, spent : Nat, reservedLaunches : Nat, reserved : Nat]

\* getSpendDay, where there is no row.
EmptyDay == [launches |-> 0, spent |-> 0, reservedLaunches |-> 0, reserved |-> 0]

Settled == {"committed", "released"}

TypeOK ==
  /\ today \in Days
  /\ days \in [Days -> DayRows]
  /\ status \in [Calls -> Settled \cup {"none", "reserved"}]
  /\ day \in [Calls -> Days]
  /\ wei \in [Calls -> Amounts \cup {0}]
  /\ old \subseteq Calls
  /\ pc \in [Calls -> {"ready", "preparing", "waiting", "recording", "done"}]
  /\ tx \in [Calls -> {"none", "sent", "mined", "reverted"}]
  /\ crashes \in 0 .. MaxCrashes

Init ==
  /\ today = 0
  /\ days = [d \in Days |-> EmptyDay]
  /\ status = [c \in Calls |-> "none"]
  /\ day = [c \in Calls |-> 0]
  /\ wei = [c \in Calls |-> 0]
  /\ old = {}
  /\ pc = [c \in Calls |-> "ready"]
  /\ tx = [c \in Calls |-> "none"]
  /\ crashes = 0

At(c, await) == pc[c] = await

GoTo(c, await) == pc' = [pc EXCEPT ![c] = await]

-----------------------------------------------------------------------------
(* The ledger.                                                              *)

Monus(a, b) == IF a > b THEN a - b ELSE 0

WeiOf(calls) == MapThenSumSet(LAMBDA c : wei[c], calls)

\* A bug to catch: a buy takes a launch slot.
EveryCallASlot(c) == 1

LaunchSlots(c) == IF c \in Launches THEN 1 ELSE 0

LaunchSlotsOf(calls) == Cardinality(calls \cap Launches)

\* Room that a set of reservations gives back to its day.
GiveBack(row, calls) ==
  [row EXCEPT !.reservedLaunches = Monus(@, LaunchSlotsOf(calls)),
              !.reserved = Monus(@, WeiOf(calls))]

\* A bug to catch: what is reserved is not counted as used.
HasRoomSettled(row, c, w) ==
  /\ row.spent + w <= EthPerDay
  /\ c \in Launches => row.launches + 1 <= LaunchesPerDay

\* The daily limits, over what is spent and what is reserved.
HasRoom(row, c, w) ==
  /\ row.spent + row.reserved + w <= EthPerDay
  /\ c \in Launches => row.launches + row.reservedLaunches + 1 <= LaunchesPerDay

\* The limits of one launch and of one buy.
Permitted(c, w) == w <= IF c \in Launches THEN EthPerLaunch ELSE EthPerTrade

\* releaseStaleReservations asks the day and the age of a reservation, and not
\* whether its call is still running.
Stale == {c \in Calls : status[c] = "reserved" /\ day[c] = today /\ c \in old}

Freed == GiveBack(days[today], Stale)

-----------------------------------------------------------------------------
(* A call.                                                                  *)

\* reserveSpend and reserveTrade: one transaction, stale reservations first.
Reserve(c, w) ==
  /\ At(c, "ready")
  /\ Permitted(c, w)
  /\ HasRoom(Freed, c, w)
  /\ days' = [days EXCEPT ![today] =
                [Freed EXCEPT !.reservedLaunches = @ + LaunchSlots(c),
                              !.reserved = @ + w]]
  /\ status' = [r \in Calls |-> IF r = c THEN "reserved"
                                ELSE IF r \in Stale THEN "released" ELSE status[r]]
  /\ day' = [day EXCEPT ![c] = today]
  /\ wei' = [wei EXCEPT ![c] = w]
  /\ GoTo(c, "preparing")
  /\ UNCHANGED <<today, old, tx, crashes>>

\* A refusal rolls the transaction back, the stale reservations with it.
Refused(c, w) ==
  /\ At(c, "ready")
  /\ ~(Permitted(c, w) /\ HasRoom(Freed, c, w))
  /\ GoTo(c, "done")
  /\ UNCHANGED <<today, days, reservations, old, tx, crashes>>

\* A reservation leaves its own day, whatever day it is by now.
SettleRow(c, outcome) ==
  /\ days' = [days EXCEPT ![day[c]] =
                LET freed == GiveBack(@, {c})
                IN IF outcome = "committed"
                     THEN [freed EXCEPT !.launches = @ + LaunchSlots(c),
                                        !.spent = @ + wei[c]]
                     ELSE freed]
  /\ status' = [status EXCEPT ![c] = outcome]
  /\ UNCHANGED <<day, wei>>

\* A bug to catch: a reservation that is settled is settled again.
FinalizeAgain(c, outcome) == SettleRow(c, outcome)

\* A bug to catch: what is given back is subtracted, settled or not, as it comes.
FinalizeUnclamped(c, outcome) ==
  /\ days' = [days EXCEPT ![day[c]].reserved = @ - wei[c]]
  /\ status' = [status EXCEPT ![c] = outcome]
  /\ UNCHANGED <<day, wei>>

\* finalizeReservation: nothing for one that is settled already.
FinalizeReservation(c, outcome) ==
  IF status[c] = "reserved"
    THEN SettleRow(c, outcome)
    ELSE UNCHANGED <<days, reservations>>

\* The catch, which does not ask whether anything was sent.
Catch(c) ==
  /\ FinalizeReservation(c, "released")
  /\ GoTo(c, "done")

\* No quote, no metadata, or the transaction cannot be built.
PrepareThrows(c) ==
  /\ At(c, "preparing")
  /\ Catch(c)
  /\ UNCHANGED <<today, old, tx, crashes>>

\* The node takes the transaction, and its hash comes back ...
Submit(c) ==
  /\ At(c, "preparing")
  /\ tx' = [tx EXCEPT ![c] = "sent"]
  /\ GoTo(c, "waiting")
  /\ UNCHANGED <<today, days, reservations, old, crashes>>

\* ... or does not.
LoseResponse(c) ==
  /\ At(c, "preparing")
  /\ tx' = [tx EXCEPT ![c] = "sent"]
  /\ Catch(c)
  /\ UNCHANGED <<today, old, crashes>>

\* The chain decides.
Mine(c) ==
  /\ tx[c] = "sent"
  /\ \E fate \in {"mined", "reverted"} : tx' = [tx EXCEPT ![c] = fate]
  /\ UNCHANGED <<today, days, reservations, old, pc, crashes>>

\* A bug to catch: a receipt is taken for a success.
SettleAnyReceipt(c) ==
  /\ At(c, "waiting")
  /\ tx[c] \in {"mined", "reverted"}
  /\ FinalizeReservation(c, "committed")
  /\ GoTo(c, "recording")
  /\ UNCHANGED <<today, old, tx, crashes>>

\* The receipt says success, and the reservation is committed.
Settle(c) ==
  /\ At(c, "waiting")
  /\ tx[c] = "mined"
  /\ FinalizeReservation(c, "committed")
  /\ GoTo(c, "recording")
  /\ UNCHANGED <<today, old, tx, crashes>>

\* The transaction reverted, or the wait for its receipt gave up.
ReceiptThrows(c) ==
  /\ At(c, "waiting")
  /\ Catch(c)
  /\ UNCHANGED <<today, old, tx, crashes>>

\* The trade or the launch is recorded, in the same stretch as the commit ...
Record(c) ==
  /\ At(c, "recording")
  /\ GoTo(c, "done")
  /\ UNCHANGED <<today, days, reservations, old, tx, crashes>>

\* ... or that throws, inside the same try.
RecordThrows(c) ==
  /\ At(c, "recording")
  /\ Catch(c)
  /\ UNCHANGED <<today, old, tx, crashes>>

-----------------------------------------------------------------------------
(* The clock and the process.                                               *)

\* Ten minutes go by.
GrowOld(c) ==
  /\ status[c] = "reserved"
  /\ c \notin old
  /\ old' = old \cup {c}
  /\ UNCHANGED <<today, days, reservations, pc, tx, crashes>>

Midnight ==
  /\ today < LastDay
  /\ today' = today + 1
  /\ UNCHANGED <<days, reservations, old, pc, tx, crashes>>

\* Running calls are gone; what they reserved and sent is not.
Crash ==
  /\ crashes < MaxCrashes
  /\ crashes' = crashes + 1
  /\ pc' = [c \in Calls |-> IF At(c, "ready") THEN "ready" ELSE "done"]
  /\ UNCHANGED <<today, days, reservations, old, tx>>

CallStep(c) ==
  \/ \E w \in Amounts : Reserve(c, w) \/ Refused(c, w)
  \/ PrepareThrows(c)
  \/ Submit(c)
  \/ LoseResponse(c)
  \/ Settle(c)
  \/ ReceiptThrows(c)
  \/ Record(c)
  \/ RecordThrows(c)

Next ==
  \/ \E c \in Calls : CallStep(c) \/ Mine(c) \/ GrowOld(c)
  \/ Midnight
  \/ Crash

Spec == Init /\ [][Next]_vars

-----------------------------------------------------------------------------
(* Safety.                                                                  *)

CallsOn(d, s) == {c \in Calls : status[c] = s /\ day[c] = d}

\* "Two concurrent requests cannot both observe the same remaining budget"
\* (store.ts, reserveSpend): spent and reserved never exceed the day's limits.
LedgerWithinLimits ==
  \A d \in Days :
    /\ days[d].spent + days[d].reserved <= EthPerDay
    /\ days[d].launches + days[d].reservedLaunches <= LaunchesPerDay

\* The day row is the sum of its reservations, however each was settled and on
\* whatever day (store.ts, finalizeReservation, releaseStaleReservations).
BooksBalance ==
  \A d \in Days :
    days[d] = [launches |-> LaunchSlotsOf(CallsOn(d, "committed")),
               spent |-> WeiOf(CallsOn(d, "committed")),
               reservedLaunches |-> LaunchSlotsOf(CallsOn(d, "reserved")),
               reserved |-> WeiOf(CallsOn(d, "reserved"))]

\* "A reverted buy does not leave the budget believing it was spent" (trade.ts,
\* executeAgentBuy): what is charged has landed.
ChargedHasLanded == \A c \in Calls : status[c] = "committed" => tx[c] = "mined"

\* "Two cycles racing cannot both spend the last of the daily budget" (trade.ts,
\* executeAgentBuy): what lands of a day's calls is within the day's limit.
LandedWithinBudget ==
  \A d \in Days :
    WeiOf({c \in Calls : tx[c] = "mined" /\ day[c] = d}) <= EthPerDay

-----------------------------------------------------------------------------
(* What a step may never do.                                                *)

\* A reservation is settled once (store.ts, finalizeReservation): a catch after
\* the commit gives nothing back.
SettledOnce ==
  [][\A c \in Calls : status[c] \in Settled => status'[c] = status[c]]_vars

=============================================================================
