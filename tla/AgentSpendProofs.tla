-------------------------- MODULE AgentSpendProofs --------------------------
(***************************************************************************)
(* Theorems of AgentSpend, for any calls, limits and amounts.               *)
(*                                                                          *)
(* What a reservation becomes depends on its own call and on the clock, and *)
(* not on the sums of the day row (SpendInv); the sums of the day row need  *)
(* that, and the lemmas on sums (LedgerInv).                                *)
(***************************************************************************)
EXTENDS AgentSpend, SumLemmas, TLAPS

\* The columns a settlement reads and the awaits that lead to it.
RowsTypeOK ==
  /\ status \in [Calls -> Settled \cup {"none", "reserved"}]
  /\ pc \in [Calls -> {"ready", "preparing", "waiting", "recording", "done"}]
  /\ tx \in [Calls -> {"none", "sent", "mined", "reverted"}]

\* A call has no row before it reserves, and has sent nothing, and been charged
\* for nothing, before it submits.
CallsInOrder ==
  \A c \in Calls :
    /\ pc[c] = "ready" => status[c] = "none"
    /\ pc[c] = "preparing" => status[c] # "committed"

SpendInv == RowsTypeOK /\ CallsInOrder /\ ChargedHasLanded

-----------------------------------------------------------------------------

\* A settlement touches the status of its own reservation, and only while it is
\* reserved (store.ts, finalizeReservation).
LEMMA FinalizeSettlesOne ==
  ASSUME RowsTypeOK, NEW c \in Calls, NEW outcome \in Settled,
         FinalizeReservation(c, outcome)
  PROVE  /\ status' \in [Calls -> Settled \cup {"none", "reserved"}]
         /\ \A r \in Calls \ {c} : status'[r] = status[r]
         /\ status[c] = "reserved" => status'[c] = outcome
         /\ status[c] # "reserved" => status'[c] = status[c]
  BY DEF RowsTypeOK, FinalizeReservation, SettleRow, reservations, Settled

\* A reservation takes a fresh row, and releases the rows that are stale
\* (store.ts, reserveSpend, reserveTrade, releaseStaleReservations).
LEMMA ReserveSparesTheSettled ==
  ASSUME RowsTypeOK, NEW c \in Calls, NEW w \in Amounts, Reserve(c, w)
  PROVE  /\ status' \in [Calls -> Settled \cup {"none", "reserved"}]
         /\ status'[c] = "reserved"
         /\ \A r \in Calls \ {c} :
              \/ status'[r] = status[r]
              \/ status[r] = "reserved" /\ status'[r] = "released"
  BY DEF RowsTypeOK, Reserve, Stale, Settled

LEMMA SpendInit == Init => SpendInv
  BY DEF Init, SpendInv, RowsTypeOK, CallsInOrder, ChargedHasLanded, Settled

LEMMA SpendStep == SpendInv /\ [Next]_vars => SpendInv'
<1> SUFFICES ASSUME SpendInv, [Next]_vars PROVE SpendInv'
  OBVIOUS
<1> USE DEF SpendInv
<1>1. CASE UNCHANGED vars
  BY <1>1 DEF vars, reservations, RowsTypeOK, CallsInOrder, ChargedHasLanded
<1>2. ASSUME NEW c \in Calls, NEW w \in Amounts, Reserve(c, w) PROVE SpendInv'
  <2>1. /\ pc' \in [Calls -> {"ready", "preparing", "waiting", "recording", "done"}]
        /\ pc'[c] = "preparing"
        /\ \A r \in Calls \ {c} : pc'[r] = pc[r]
        /\ tx' = tx
    BY <1>2 DEF Reserve, GoTo, RowsTypeOK
  <2> QED
    BY <1>2, <2>1, ReserveSparesTheSettled
    DEF RowsTypeOK, CallsInOrder, ChargedHasLanded, Settled
<1>3. ASSUME NEW c \in Calls, NEW w \in Amounts, Refused(c, w) PROVE SpendInv'
  BY <1>3
  DEF Refused, GoTo, At, reservations, RowsTypeOK, CallsInOrder, ChargedHasLanded
<1>4. ASSUME NEW c \in Calls, Catch(c), UNCHANGED tx PROVE SpendInv'
  <2>1. FinalizeReservation(c, "released") /\ pc' = [pc EXCEPT ![c] = "done"]
    BY <1>4 DEF Catch, GoTo
  <2>2. "released" \in Settled
    BY DEF Settled
  <2> QED
    BY <1>4, <2>1, <2>2, FinalizeSettlesOne
    DEF RowsTypeOK, CallsInOrder, ChargedHasLanded
<1>5. ASSUME NEW c \in Calls, PrepareThrows(c) PROVE SpendInv'
  BY <1>4, <1>5 DEF PrepareThrows
<1>6. ASSUME NEW c \in Calls, Submit(c) PROVE SpendInv'
  BY <1>6
  DEF Submit, GoTo, At, reservations, RowsTypeOK, CallsInOrder, ChargedHasLanded
<1>7. ASSUME NEW c \in Calls, LoseResponse(c) PROVE SpendInv'
  <2>1. /\ FinalizeReservation(c, "released")
        /\ pc' = [pc EXCEPT ![c] = "done"]
        /\ tx' = [tx EXCEPT ![c] = "sent"]
        /\ pc[c] = "preparing"
    BY <1>7 DEF LoseResponse, Catch, GoTo, At
  <2>2. "released" \in Settled
    BY DEF Settled
  <2> QED
    BY <2>1, <2>2, FinalizeSettlesOne
    DEF RowsTypeOK, CallsInOrder, ChargedHasLanded
<1>8. ASSUME NEW c \in Calls, Mine(c) PROVE SpendInv'
  BY <1>8 DEF Mine, reservations, RowsTypeOK, CallsInOrder, ChargedHasLanded
<1>9. ASSUME NEW c \in Calls, Settle(c) PROVE SpendInv'
  <2>1. /\ FinalizeReservation(c, "committed")
        /\ pc' = [pc EXCEPT ![c] = "recording"]
        /\ tx' = tx
        /\ tx[c] = "mined"
    BY <1>9 DEF Settle, GoTo
  <2>2. "committed" \in Settled
    BY DEF Settled
  <2> QED
    BY <1>9, <2>1, <2>2, FinalizeSettlesOne
    DEF Settle, At, RowsTypeOK, CallsInOrder, ChargedHasLanded
<1>10. ASSUME NEW c \in Calls, ReceiptThrows(c) PROVE SpendInv'
  BY <1>4, <1>10 DEF ReceiptThrows
<1>11. ASSUME NEW c \in Calls, Record(c) PROVE SpendInv'
  BY <1>11
  DEF Record, GoTo, reservations, RowsTypeOK, CallsInOrder, ChargedHasLanded
<1>12. ASSUME NEW c \in Calls, RecordThrows(c) PROVE SpendInv'
  BY <1>4, <1>12 DEF RecordThrows
<1>13. ASSUME NEW c \in Calls, GrowOld(c) PROVE SpendInv'
  BY <1>13 DEF GrowOld, reservations, RowsTypeOK, CallsInOrder, ChargedHasLanded
<1>14. CASE Midnight
  BY <1>14 DEF Midnight, reservations, RowsTypeOK, CallsInOrder, ChargedHasLanded
<1>15. CASE Crash
  BY <1>15
  DEF Crash, At, reservations, RowsTypeOK, CallsInOrder, ChargedHasLanded
<1> QED
  BY <1>1, <1>2, <1>3, <1>5, <1>6, <1>7, <1>8, <1>9, <1>10, <1>11, <1>12,
     <1>13, <1>14, <1>15
  DEF Next, CallStep

LEMMA SpendInvariant == Spec => []SpendInv
  BY SpendInit, SpendStep, PTL DEF Spec

-----------------------------------------------------------------------------

\* Whatever throws, times out, goes stale or dies, a reservation is charged to
\* the day only once its transaction has landed (trade.ts, executeAgentBuy).
THEOREM ChargesHaveLanded == Spec => []ChargedHasLanded
<1>1. SpendInv => ChargedHasLanded
  BY DEF SpendInv
<1> QED
  BY <1>1, SpendInvariant, PTL

\* A step leaves every settled reservation as it is.
LEMMA SettledStays ==
  ASSUME SpendInv, [Next]_vars, NEW c \in Calls, status[c] \in Settled
  PROVE  status'[c] = status[c]
<1> USE DEF SpendInv
<1>1. ASSUME NEW r \in Calls, NEW outcome \in Settled, FinalizeReservation(r, outcome)
      PROVE  status'[c] = status[c]
  <2>1. CASE r = c
    BY <1>1, <2>1, FinalizeSettlesOne DEF Settled
  <2>2. CASE r # c
    BY <1>1, <2>2, FinalizeSettlesOne
  <2> QED
    BY <2>1, <2>2
<1>2. ASSUME NEW r \in Calls, Catch(r) PROVE status'[c] = status[c]
  BY <1>1, <1>2 DEF Catch, Settled
<1>3. ASSUME NEW r \in Calls, Settle(r) PROVE status'[c] = status[c]
  BY <1>1, <1>3 DEF Settle, Settled
<1>4. ASSUME NEW r \in Calls, NEW w \in Amounts, Reserve(r, w)
      PROVE  status'[c] = status[c]
  <2>1. r # c
    BY <1>4 DEF Reserve, At, CallsInOrder, Settled
  <2> QED
    BY <1>4, <2>1, ReserveSparesTheSettled DEF Settled
<1>5. ASSUME UNCHANGED reservations PROVE status'[c] = status[c]
  BY <1>5 DEF reservations
<1>6. ASSUME NEW r \in Calls, CallStep(r) PROVE status'[c] = status[c]
  BY <1>2, <1>3, <1>4, <1>5, <1>6
  DEF CallStep, Refused, PrepareThrows, Submit, LoseResponse, ReceiptThrows, Record,
      RecordThrows
<1> QED
  BY <1>5, <1>6 DEF Next, Mine, GrowOld, Midnight, Crash, vars

\* A reservation is settled once, so neither a catch after the commit nor a
\* stale release gives back what has been charged, and nothing is charged that
\* was given back (store.ts, finalizeReservation, releaseStaleReservations).
THEOREM ReservationsSettleOnce == Spec => SettledOnce
<1>1. SpendInv /\ [Next]_vars
        => [\A c \in Calls : status[c] \in Settled => status'[c] = status[c]]_vars
  BY SettledStays
<1> QED
  BY <1>1, SpendInvariant, PTL DEF Spec, SettledOnce
-----------------------------------------------------------------------------
(* The books: each day row is the sum of its reservations.                  *)

\* What a call takes of its day's launches, as a function to sum.
Slots == [c \in Calls |-> LaunchSlots(c)]

\* The row a day should have.
DayTotals(d) ==
  [launches |-> SumOf(Slots, CallsOn(d, "committed")),
   spent |-> SumOf(wei, CallsOn(d, "committed")),
   reservedLaunches |-> SumOf(Slots, CallsOn(d, "reserved")),
   reserved |-> SumOf(wei, CallsOn(d, "reserved"))]

Books == \A d \in Days : days[d] = DayTotals(d)

\* The sums of the model over a set of calls, and that they are sums.
LEMMA SumsOfCalls ==
  ASSUME NEW S \in SUBSET Calls, wei \in [Calls -> Amounts \cup {0}]
  PROVE  /\ IsFiniteSet(S)
         /\ WeiOf(S) = SumOf(wei, S)
         /\ LaunchSlotsOf(S) = SumOf(Slots, S)
         /\ \A c \in S : wei[c] \in Nat /\ Slots[c] \in Nat
         /\ SumOf(wei, S) \in Nat
         /\ SumOf(Slots, S) \in Nat
<1>1. IsFiniteSet(S)
  BY SpendAssumption, FS_Subset
<1>2. WeiOf(S) = SumOf(wei, S)
  BY DEF WeiOf, SumOf
<1>3. \A c \in S : wei[c] \in Nat /\ Slots[c] \in Nat /\ Slots[c] = IF c \in Launches THEN 1 ELSE 0
  <2>1. Amounts \subseteq Nat
    BY SpendAssumption
  <2>2. ASSUME NEW c \in S PROVE wei[c] \in Nat
    <3>1. wei[c] \in Amounts \cup {0}
      OBVIOUS
    <3>2. Amounts \cup {0} \subseteq Nat
      BY <2>1
    <3> QED
      BY <3>1, <3>2, Zenon
  <2>3. \A c \in S : Slots[c] = IF c \in Launches THEN 1 ELSE 0
    BY DEF Slots, LaunchSlots
  <2> QED
    BY <2>2, <2>3
<1>4. LaunchSlotsOf(S) = SumOf(Slots, S)
  BY <1>1, <1>3, SumCounts DEF LaunchSlotsOf
<1> QED
  BY <1>1, <1>2, <1>3, <1>4, SumNat

LEMMA BooksAreTheSums == TypeOK => (Books <=> BooksBalance)
<1> SUFFICES ASSUME TypeOK PROVE Books <=> BooksBalance
  OBVIOUS
<1>1. ASSUME NEW d \in Days, NEW s \in {"committed", "reserved"}
      PROVE  /\ WeiOf(CallsOn(d, s)) = SumOf(wei, CallsOn(d, s))
             /\ LaunchSlotsOf(CallsOn(d, s)) = SumOf(Slots, CallsOn(d, s))
  BY SumsOfCalls DEF TypeOK, CallsOn
<1> QED
  BY <1>1 DEF Books, BooksBalance, DayTotals

\* What is given back for some of a day's reservations leaves the sum of the
\* others: the subtraction never meets its floor (store.ts, settleReservation).
LEMMA GiveBackIsExact ==
  ASSUME TypeOK, Books, NEW d \in Days, NEW T \in SUBSET CallsOn(d, "reserved")
  PROVE  GiveBack(days[d], T) =
           [launches |-> SumOf(Slots, CallsOn(d, "committed")),
            spent |-> SumOf(wei, CallsOn(d, "committed")),
            reservedLaunches |-> SumOf(Slots, CallsOn(d, "reserved") \ T),
            reserved |-> SumOf(wei, CallsOn(d, "reserved") \ T)]
<1> DEFINE R == CallsOn(d, "reserved")
<1>1. R \in SUBSET Calls /\ T \in SUBSET Calls /\ R \ T \in SUBSET Calls /\ T \in SUBSET R
  BY DEF CallsOn
<1>2. days[d] = DayTotals(d)
  BY DEF Books
<1>3. wei \in [Calls -> Amounts \cup {0}]
  BY DEF TypeOK
<1> HIDE DEF R
<1>4. /\ IsFiniteSet(R)
      /\ WeiOf(T) = SumOf(wei, T) /\ LaunchSlotsOf(T) = SumOf(Slots, T)
      /\ \A c \in R : wei[c] \in Int /\ Slots[c] \in Int
      /\ SumOf(wei, R) \in Nat /\ SumOf(wei, T) \in Nat /\ SumOf(wei, R \ T) \in Nat
      /\ SumOf(Slots, R) \in Nat /\ SumOf(Slots, T) \in Nat /\ SumOf(Slots, R \ T) \in Nat
  BY <1>1, <1>3, SumsOfCalls
<1>5. /\ SumOf(wei, R) = SumOf(wei, T) + SumOf(wei, R \ T)
      /\ SumOf(Slots, R) = SumOf(Slots, T) + SumOf(Slots, R \ T)
  BY <1>1, <1>4, SumSplit
<1>6. /\ Monus(SumOf(wei, R), WeiOf(T)) = SumOf(wei, R \ T)
      /\ Monus(SumOf(Slots, R), LaunchSlotsOf(T)) = SumOf(Slots, R \ T)
  BY <1>4, <1>5 DEF Monus
<1> DEFINE totals ==
      [launches |-> SumOf(Slots, CallsOn(d, "committed")),
       spent |-> SumOf(wei, CallsOn(d, "committed")),
       reservedLaunches |-> SumOf(Slots, R),
       reserved |-> SumOf(wei, R)]
<1>7. days[d] = totals
  BY <1>2 DEF DayTotals, R
<1>8. GiveBack(days[d], T)
        = [totals EXCEPT !.reservedLaunches = Monus(SumOf(Slots, R), LaunchSlotsOf(T)),
                         !.reserved = Monus(SumOf(wei, R), WeiOf(T))]
  BY <1>7 DEF GiveBack
<1>9. GiveBack(days[d], T)
        = [totals EXCEPT !.reservedLaunches = SumOf(Slots, R \ T),
                         !.reserved = SumOf(wei, R \ T)]
  BY <1>6, <1>8, Zenon
<1> QED
  BY <1>9 DEF R

\* The columns of the ledger, and what is shown of them.
LedgerTypeOK ==
  /\ days \in [Days -> DayRows]
  /\ status \in [Calls -> Settled \cup {"none", "reserved"}]
  /\ day \in [Calls -> Days]
  /\ wei \in [Calls -> Amounts \cup {0}]

LedgerOK == LedgerTypeOK /\ Books /\ LedgerWithinLimits

\* A reservation is added to the books once because a call that is ready has
\* none (CallsInOrder), and it is taken off in full because they balance.
LedgerInv == TypeOK /\ CallsInOrder /\ LedgerOK

\* A row of totals within the limits is all there is to show of a changed day.
LEMMA OneDayChanges ==
  ASSUME LedgerOK, NEW d \in Days, NEW row \in DayRows,
         days' = [days EXCEPT ![d] = row],
         row = DayTotals(d)',
         \A e \in Days \ {d} : DayTotals(e)' = DayTotals(e),
         row.spent + row.reserved <= EthPerDay,
         row.launches + row.reservedLaunches <= LaunchesPerDay
  PROVE  days' \in [Days -> DayRows] /\ Books' /\ LedgerWithinLimits'
<1>1. days' \in [Days -> DayRows] /\ \A e \in Days : days'[e] = IF e = d THEN row ELSE days[e]
  BY DEF LedgerOK, LedgerTypeOK
<1>2. Books'
  <2> SUFFICES ASSUME NEW e \in Days PROVE days'[e] = DayTotals(e)'
    BY DEF Books
  <2>1. days[e] = DayTotals(e)
    BY DEF LedgerOK, Books
  <2> QED
    BY <1>1, <2>1
<1>3. LedgerWithinLimits'
  BY <1>1 DEF LedgerOK, LedgerWithinLimits
<1> QED
  BY <1>1, <1>2, <1>3

\* The totals of a day are those of the calls that hold or spent its room.
LEMMA SameTotals ==
  ASSUME LedgerTypeOK, NEW d,
         CallsOn(d, "committed")' = CallsOn(d, "committed"),
         CallsOn(d, "reserved")' = CallsOn(d, "reserved"),
         \A c \in CallsOn(d, "committed") \cup CallsOn(d, "reserved") : wei'[c] = wei[c]
  PROVE  DayTotals(d)' = DayTotals(d)
<1>1. IsFiniteSet(CallsOn(d, "committed")) /\ IsFiniteSet(CallsOn(d, "reserved"))
  BY SumsOfCalls DEF CallsOn, LedgerTypeOK
<1>2. /\ SumOf(wei', CallsOn(d, "committed")) = SumOf(wei, CallsOn(d, "committed"))
      /\ SumOf(wei', CallsOn(d, "reserved")) = SumOf(wei, CallsOn(d, "reserved"))
  BY <1>1, SumCongruent
<1> QED
  BY <1>2 DEF DayTotals

\* A settlement moves what its call reserved from the reserved to the spent, or
\* gives it back (store.ts, finalizeReservation).
LEMMA SettlementKeepsTheBooks ==
  ASSUME TypeOK, LedgerOK, NEW c \in Calls, NEW outcome \in Settled,
         FinalizeReservation(c, outcome)
  PROVE  LedgerOK'
<1>1. CASE status[c] # "reserved"
  <2>1. UNCHANGED <<days, reservations>>
    BY <1>1 DEF FinalizeReservation
  <2>2. UNCHANGED <<days, status, day, wei>>
    BY <2>1 DEF reservations
  <2> QED
    BY <2>2 DEF LedgerOK, LedgerTypeOK, Books, DayTotals, CallsOn, LedgerWithinLimits
<1>2. CASE status[c] = "reserved"
  <2>1. PICK d \in Days : d = day[c]
    BY DEF TypeOK
  <2> DEFINE R == CallsOn(d, "reserved")
             K == CallsOn(d, "committed")
             freed == GiveBack(days[d], {c})
             row == IF outcome = "committed"
                      THEN [freed EXCEPT !.launches = @ + LaunchSlots(c), !.spent = @ + wei[c]]
                      ELSE freed
  <2>2. /\ days' = [days EXCEPT ![d] = row]
        /\ status' = [status EXCEPT ![c] = outcome]
        /\ day' = day /\ wei' = wei
    <3>1. SettleRow(c, outcome)
      BY <1>2 DEF FinalizeReservation
    <3> QED
      BY <2>1, <3>1 DEF SettleRow
  <2>3. /\ days \in [Days -> DayRows] /\ wei \in [Calls -> Amounts \cup {0}]
        /\ status \in [Calls -> Settled \cup {"none", "reserved"}]
    BY DEF TypeOK
  <2>4. c \in R /\ c \notin K /\ R \in SUBSET Calls /\ K \in SUBSET Calls /\ {c} \in SUBSET R
    BY <1>2, <2>1 DEF CallsOn
  <2>5. \A r \in Calls : status'[r] = IF r = c THEN outcome ELSE status[r]
    BY <2>2, <2>3
  <2>6. \A e, s : CallsOn(e, s)' = {r \in Calls : status'[r] = s /\ day[r] = e}
    BY <2>2 DEF CallsOn
  <2>7. /\ CallsOn(d, "reserved")' = R \ {c}
        /\ CallsOn(d, "committed")' = IF outcome = "committed" THEN K \cup {c} ELSE K
    BY <1>2, <2>1, <2>5, <2>6 DEF CallsOn, Settled
  <2>8. \A s : \A e \in Days \ {d} : CallsOn(e, s)' = CallsOn(e, s)
    BY <2>1, <2>5, <2>6 DEF CallsOn
  <2>9. freed = [launches |-> SumOf(Slots, K), spent |-> SumOf(wei, K),
                 reservedLaunches |-> SumOf(Slots, R \ {c}), reserved |-> SumOf(wei, R \ {c})]
    BY <2>4, GiveBackIsExact DEF LedgerOK
  <2> DEFINE launches == SumOf(Slots, K)
             spent == SumOf(wei, K)
             reservedLaunches == SumOf(Slots, R \ {c})
             reserved == SumOf(wei, R \ {c})
             slots == Slots[c]
             sum == wei[c]
  <2> HIDE DEF R, K
  <2>10. /\ launches \in Nat /\ spent \in Nat /\ reservedLaunches \in Nat /\ reserved \in Nat
         /\ slots \in Nat /\ sum \in Nat /\ slots = LaunchSlots(c)
    <3>1. R \ {c} \in SUBSET Calls
      BY <2>4
    <3> QED
      BY <2>3, <2>4, <3>1, SumsOfCalls DEF Slots
  <2>11. /\ SumOf(Slots, R) = slots + reservedLaunches
         /\ SumOf(wei, R) = sum + reserved
         /\ SumOf(Slots, K \cup {c}) = slots + launches
         /\ SumOf(wei, K \cup {c}) = sum + spent
    <3>1. /\ IsFiniteSet(R) /\ IsFiniteSet(K)
          /\ \A r \in R \cup K : wei[r] \in Int /\ Slots[r] \in Int
      BY <2>3, <2>4, SumsOfCalls
    <3>2. SumOf(Slots, R) = slots + reservedLaunches /\ SumOf(wei, R) = sum + reserved
      BY <2>4, <3>1, SumRemove
    <3>3. SumOf(Slots, K \cup {c}) = slots + launches
      BY <2>4, <2>10, <3>1, SumAdd
    <3>4. SumOf(wei, K \cup {c}) = sum + spent
      BY <2>4, <2>10, <3>1, SumAdd
    <3> QED
      BY <3>2, <3>3, <3>4
  <2>12. /\ spent + sum + reserved <= EthPerDay
         /\ launches + slots + reservedLaunches <= LaunchesPerDay
    <3>1. /\ days[d].spent + days[d].reserved <= EthPerDay
          /\ days[d].launches + days[d].reservedLaunches <= LaunchesPerDay
      BY DEF LedgerOK, LedgerWithinLimits
    <3>2. days[d] = [launches |-> launches, spent |-> spent,
                     reservedLaunches |-> SumOf(Slots, R), reserved |-> SumOf(wei, R)]
      BY DEF LedgerOK, Books, DayTotals, R, K
    <3> HIDE DEF launches, spent, reservedLaunches, reserved, slots, sum
    <3>3. EthPerDay \in Nat /\ LaunchesPerDay \in Nat
      BY SpendAssumption
    <3> QED
      BY <2>10, <2>11, <3>1, <3>2, <3>3
  <2>13. row = IF outcome = "committed"
                 THEN [launches |-> launches + slots, spent |-> spent + sum,
                       reservedLaunches |-> reservedLaunches, reserved |-> reserved]
                 ELSE [launches |-> launches, spent |-> spent,
                       reservedLaunches |-> reservedLaunches, reserved |-> reserved]
    <3> DEFINE given == [launches |-> launches, spent |-> spent,
                         reservedLaunches |-> reservedLaunches, reserved |-> reserved]
    <3>1. freed = given /\ sum = wei[c]
      BY <2>9
    <3> HIDE DEF freed, launches, spent, reservedLaunches, reserved, slots, sum
    <3>2. freed.launches + LaunchSlots(c) = launches + slots /\ freed.spent + wei[c] = spent + sum
      BY <2>10, <3>1
    <3>3. CASE outcome = "committed"
      <4> HIDE DEF given
      <4>1. row = [given EXCEPT !.launches = launches + slots, !.spent = spent + sum]
        BY <3>1, <3>2, <3>3, Zenon
      <4>2. [given EXCEPT !.launches = launches + slots, !.spent = spent + sum]
              = [launches |-> launches + slots, spent |-> spent + sum,
                 reservedLaunches |-> reservedLaunches, reserved |-> reserved]
        <5> DEFINE moved == [launches |-> launches + slots, spent |-> spent,
                             reservedLaunches |-> reservedLaunches, reserved |-> reserved]
        <5>1. [given EXCEPT !.launches = launches + slots] = moved
          BY DEF given
        <5>2. [moved EXCEPT !.spent = spent + sum]
                = [launches |-> launches + slots, spent |-> spent + sum,
                   reservedLaunches |-> reservedLaunches, reserved |-> reserved]
          OBVIOUS
        <5> HIDE DEF moved
        <5>3. [given EXCEPT !.launches = launches + slots, !.spent = spent + sum]
                = [[given EXCEPT !.launches = launches + slots] EXCEPT !.spent = spent + sum]
          BY DEF given
        <5> QED
          BY <5>1, <5>2, <5>3, Zenon
      <4> HIDE DEF row
      <4> QED
        BY <3>3, <4>1, <4>2, Zenon
    <3>4. CASE outcome # "committed"
      BY <3>1, <3>4
    <3> QED
      BY <3>3, <3>4
  <2>14. DayTotals(d)' = row
    <3>1. DayTotals(d)' =
            [launches |-> SumOf(Slots, CallsOn(d, "committed")'),
             spent |-> SumOf(wei, CallsOn(d, "committed")'),
             reservedLaunches |-> SumOf(Slots, CallsOn(d, "reserved")'),
             reserved |-> SumOf(wei, CallsOn(d, "reserved")')]
      BY <2>2 DEF DayTotals, Slots
    <3> HIDE DEF row, freed
    <3>2. CASE outcome = "committed"
      <4>1. /\ SumOf(Slots, CallsOn(d, "committed")') = launches + slots
            /\ SumOf(wei, CallsOn(d, "committed")') = spent + sum
        BY <2>7, <2>10, <2>11, <3>2
      <4> QED
        BY <2>7, <2>13, <3>1, <3>2, <4>1, Zenon
    <3>3. CASE outcome # "committed"
      BY <2>7, <2>13, <3>1, <3>3
    <3> QED
      BY <3>2, <3>3
  <2>15. /\ row \in DayRows
         /\ row.spent + row.reserved <= EthPerDay
         /\ row.launches + row.reservedLaunches <= LaunchesPerDay
    <3>1. EthPerDay \in Nat /\ LaunchesPerDay \in Nat
      BY SpendAssumption
    <3> HIDE DEF row, freed, launches, spent, reservedLaunches, reserved, slots, sum
    <3> QED
      BY <2>10, <2>12, <2>13, <3>1 DEF DayRows
  <2>16. \A e \in Days \ {d} : DayTotals(e)' = DayTotals(e)
    BY <2>2, <2>8, SameTotals DEF LedgerOK, LedgerTypeOK
  <2> HIDE DEF row, freed
  <2>17. days' \in [Days -> DayRows] /\ Books' /\ LedgerWithinLimits'
    BY <2>2, <2>14, <2>15, <2>16, OneDayChanges
  <2>18. status' \in [Calls -> Settled \cup {"none", "reserved"}]
    BY <2>2, <2>3
  <2> QED
    BY <2>2, <2>17, <2>18 DEF LedgerOK, LedgerTypeOK
<1> QED
  BY <1>1, <1>2

\* A reservation adds its amount to the reserved of its day, less what the
\* stale ones give back, and only where both are within the limits (store.ts,
\* reserveSpend, reserveTrade, releaseStaleReservations).
LEMMA ReservationKeepsTheBooks ==
  ASSUME TypeOK, LedgerOK, CallsInOrder, NEW c \in Calls, NEW w \in Amounts, Reserve(c, w)
  PROVE  LedgerOK'
<1>1. PICK d \in Days : d = today
  BY DEF TypeOK
<1> DEFINE R == CallsOn(d, "reserved")
           K == CallsOn(d, "committed")
           kept == R \ Stale
           launches == SumOf(Slots, K)
           spent == SumOf(wei, K)
           reservedLaunches == SumOf(Slots, kept)
           reserved == SumOf(wei, kept)
           slots == LaunchSlots(c)
           row == [launches |-> launches, spent |-> spent,
                   reservedLaunches |-> reservedLaunches + slots, reserved |-> reserved + w]
<1>2. /\ days' = [days EXCEPT ![d] =
                    [Freed EXCEPT !.reservedLaunches = @ + LaunchSlots(c), !.reserved = @ + w]]
      /\ \A r \in Calls : status'[r] = IF r = c THEN "reserved"
                                       ELSE IF r \in Stale THEN "released" ELSE status[r]
      /\ day' = [day EXCEPT ![c] = d]
      /\ wei' = [wei EXCEPT ![c] = w]
      /\ status[c] = "none"
      /\ HasRoom(Freed, c, w)
  BY <1>1 DEF Reserve, At, CallsInOrder
<1>3. /\ days \in [Days -> DayRows] /\ wei \in [Calls -> Amounts \cup {0}]
      /\ status \in [Calls -> Settled \cup {"none", "reserved"}]
      /\ day \in [Calls -> Days]
  BY DEF TypeOK
<1>4. /\ Stale \in SUBSET R /\ c \notin R /\ c \notin K
      /\ R \in SUBSET Calls /\ K \in SUBSET Calls /\ kept \in SUBSET Calls
  BY <1>1, <1>2 DEF Stale, CallsOn
<1>5. \A e, s : CallsOn(e, s)' = {r \in Calls : status'[r] = s /\ day'[r] = e}
  BY DEF CallsOn
<1>6. /\ CallsOn(d, "reserved")' = kept \cup {c}
      /\ CallsOn(d, "committed")' = K
  BY <1>1, <1>2, <1>3, <1>4, <1>5 DEF CallsOn, Stale
<1>7. \A e \in Days \ {d} : /\ CallsOn(e, "committed")' = CallsOn(e, "committed")
                            /\ CallsOn(e, "reserved")' = CallsOn(e, "reserved")
  BY <1>1, <1>2, <1>3, <1>5 DEF CallsOn, Stale
<1>8. \A r \in Calls \ {c} : wei'[r] = wei[r]
  BY <1>2, <1>3
<1>9. Freed = [launches |-> launches, spent |-> spent,
               reservedLaunches |-> reservedLaunches, reserved |-> reserved]
  BY <1>1, <1>4, GiveBackIsExact DEF LedgerOK, Freed
<1>10. /\ launches \in Nat /\ spent \in Nat /\ reservedLaunches \in Nat /\ reserved \in Nat
       /\ slots \in Nat /\ w \in Nat /\ EthPerDay \in Nat /\ LaunchesPerDay \in Nat
       /\ IsFiniteSet(kept) /\ IsFiniteSet(K)
       /\ \A r \in K \cup kept : wei[r] \in Nat /\ Slots[r] \in Nat
  <2> HIDE DEF R, K, kept
  <2> QED
    BY <1>3, <1>4, SumsOfCalls, SpendAssumption DEF LaunchSlots
<1>11. Slots[c] = slots /\ wei'[c] = w
  BY <1>2, <1>3 DEF Slots
<1>12. days' = [days EXCEPT ![d] = row]
  <2> DEFINE given == [launches |-> launches, spent |-> spent,
                       reservedLaunches |-> reservedLaunches, reserved |-> reserved]
  <2>1. /\ Freed = given
        /\ Freed.reservedLaunches + LaunchSlots(c) = reservedLaunches + slots
        /\ Freed.reserved + w = reserved + w
    BY <1>9
  <2>2. [given EXCEPT !.reservedLaunches = reservedLaunches + slots, !.reserved = reserved + w] = row
    <3> DEFINE half == [launches |-> launches, spent |-> spent,
                        reservedLaunches |-> reservedLaunches + slots, reserved |-> reserved]
    <3>1. [given EXCEPT !.reservedLaunches = reservedLaunches + slots] = half
      OBVIOUS
    <3>2. [half EXCEPT !.reserved = reserved + w] = row
      OBVIOUS
    <3>3. [given EXCEPT !.reservedLaunches = reservedLaunches + slots, !.reserved = reserved + w]
            = [[given EXCEPT !.reservedLaunches = reservedLaunches + slots]
                 EXCEPT !.reserved = reserved + w]
      OBVIOUS
    <3> HIDE DEF half
    <3> QED
      BY <3>1, <3>2, <3>3, Zenon
  <2>3. days' = [days EXCEPT ![d] =
                   [Freed EXCEPT !.reservedLaunches = Freed.reservedLaunches + LaunchSlots(c),
                                 !.reserved = Freed.reserved + w]]
    BY <1>2
  <2> HIDE DEF given, row, slots, launches, spent, reservedLaunches, reserved
  <2> QED
    BY <2>1, <2>2, <2>3, Zenon
<1>13. row = DayTotals(d)'
  <2>1. DayTotals(d)' =
          [launches |-> SumOf(Slots, CallsOn(d, "committed")'),
           spent |-> SumOf(wei', CallsOn(d, "committed")'),
           reservedLaunches |-> SumOf(Slots, CallsOn(d, "reserved")'),
           reserved |-> SumOf(wei', CallsOn(d, "reserved")')]
    BY DEF DayTotals, Slots
  <2>2. SumOf(wei', K) = spent /\ SumOf(wei', kept) = reserved
    <3>1. (\A r \in K : wei'[r] = wei[r]) /\ (\A r \in kept : wei'[r] = wei[r])
      BY <1>4, <1>8
    <3> HIDE DEF K, kept
    <3> QED
      BY <1>10, <3>1, SumCongruent
  <2>3. SumOf(wei', kept \cup {c}) = reserved + w
    <3>1. c \notin kept /\ (\A r \in kept : wei'[r] \in Int) /\ wei'[c] \in Int
      BY <1>4, <1>8, <1>10, <1>11
    <3> HIDE DEF K, kept
    <3>2. SumOf(wei', kept \cup {c}) = wei'[c] + SumOf(wei', kept)
      BY <1>10, <3>1, SumAdd
    <3> QED
      BY <1>10, <1>11, <2>2, <3>2
  <2>4. SumOf(Slots, kept \cup {c}) = reservedLaunches + slots
    <3>1. c \notin kept /\ (\A r \in kept : Slots[r] \in Int) /\ Slots[c] \in Int
      BY <1>4, <1>10, <1>11
    <3> HIDE DEF K, kept
    <3>2. SumOf(Slots, kept \cup {c}) = Slots[c] + SumOf(Slots, kept)
      BY <1>10, <3>1, SumAdd
    <3> QED
      BY <1>10, <1>11, <3>2
  <2> QED
    BY <1>6, <2>1, <2>2, <2>3, <2>4
<1>14. /\ row.spent + row.reserved <= EthPerDay
       /\ row.launches + row.reservedLaunches <= LaunchesPerDay
       /\ row \in DayRows
  <2>1. /\ spent + reserved + w <= EthPerDay
        /\ c \in Launches => launches + reservedLaunches + 1 <= LaunchesPerDay
    BY <1>2, <1>9 DEF HasRoom
  <2>2. launches + reservedLaunches <= LaunchesPerDay
    <3>1. launches + SumOf(Slots, R) <= LaunchesPerDay
      <4>1. days[d].launches = launches /\ days[d].reservedLaunches = SumOf(Slots, R)
        <5>1. days[d] = DayTotals(d)
          BY DEF LedgerOK, Books
        <5>2. DayTotals(d).launches = launches /\ DayTotals(d).reservedLaunches = SumOf(Slots, R)
          BY DEF DayTotals
        <5> HIDE DEF launches, R
        <5> QED
          BY <5>1, <5>2, Zenon
      <4>2. days[d].launches + days[d].reservedLaunches <= LaunchesPerDay
        BY DEF LedgerOK, LedgerWithinLimits
      <4> QED
        BY <4>1, <4>2, Zenon
    <3>2. reservedLaunches <= SumOf(Slots, R) /\ SumOf(Slots, R) \in Nat
      <4>1. kept \in SUBSET R
        OBVIOUS
      <4> HIDE DEF R, kept
      <4> QED
        BY <1>3, <1>4, <4>1, SumsOfCalls, SumOfPart
    <3> HIDE DEF launches, reservedLaunches, R
    <3> QED
      BY <1>10, <3>1, <3>2
  <2>3. slots = IF c \in Launches THEN 1 ELSE 0
    BY DEF LaunchSlots
  <2> HIDE DEF launches, spent, reservedLaunches, reserved, slots
  <2> QED
    BY <1>10, <2>1, <2>2, <2>3 DEF DayRows
<1>15. \A e \in Days \ {d} : DayTotals(e)' = DayTotals(e)
  <2> SUFFICES ASSUME NEW e \in Days \ {d} PROVE DayTotals(e)' = DayTotals(e)
    OBVIOUS
  <2>1. \A r \in CallsOn(e, "committed") \cup CallsOn(e, "reserved") : wei'[r] = wei[r]
    BY <1>2, <1>8 DEF CallsOn
  <2> QED
    BY <1>7, <2>1, SameTotals DEF LedgerOK
<1>16. days' \in [Days -> DayRows] /\ Books' /\ LedgerWithinLimits'
  <2> HIDE DEF row
  <2> QED
    BY <1>12, <1>13, <1>14, <1>15, OneDayChanges
<1>17. /\ status' \in [Calls -> Settled \cup {"none", "reserved"}]
       /\ day' \in [Calls -> Days]
       /\ wei' \in [Calls -> Amounts \cup {0}]
  BY <1>2, <1>3, ReserveSparesTheSettled DEF RowsTypeOK, TypeOK
<1> QED
  BY <1>16, <1>17 DEF LedgerOK, LedgerTypeOK

LEMMA LedgerInit == Init => LedgerInv
<1> SUFFICES ASSUME Init PROVE LedgerInv
  OBVIOUS
<1>1. 0 \in Days
  BY SpendAssumption DEF Days
<1>2. TypeOK
  <2>1. days \in [Days -> DayRows]
    BY DEF Init, EmptyDay, DayRows
  <2>2. crashes \in 0 .. MaxCrashes
    BY SpendAssumption DEF Init
  <2> QED
    BY <1>1, <2>1, <2>2 DEF Init, TypeOK, Settled
<1>3. Books
  <2> SUFFICES ASSUME NEW d \in Days PROVE days[d] = DayTotals(d)
    BY DEF Books
  <2>1. CallsOn(d, "committed") = {} /\ CallsOn(d, "reserved") = {}
    BY DEF Init, CallsOn
  <2>2. DayTotals(d) = EmptyDay
    BY <2>1, SumEmpty DEF DayTotals, EmptyDay
  <2> QED
    BY <2>2 DEF Init
<1>4. LedgerWithinLimits
  <2>1. EthPerDay \in Nat /\ LaunchesPerDay \in Nat
    BY SpendAssumption
  <2> QED
    BY <2>1 DEF Init, LedgerWithinLimits, EmptyDay
<1>5. CallsInOrder
  BY DEF Init, CallsInOrder
<1> QED
  BY <1>2, <1>3, <1>4, <1>5 DEF LedgerInv, LedgerOK, LedgerTypeOK, TypeOK

\* A step that writes neither a row of the ledger nor a reservation.
LEMMA LedgerUntouched ==
  ASSUME LedgerOK, UNCHANGED <<days, reservations>>
  PROVE  LedgerOK'
<1>1. UNCHANGED <<days, status, day, wei>>
  BY DEF reservations
<1> QED
  BY <1>1 DEF LedgerOK, LedgerTypeOK, Books, DayTotals, CallsOn, LedgerWithinLimits

\* Every step keeps the books of the ledger.
LEMMA LedgerOKStep ==
  ASSUME LedgerInv, [Next]_vars
  PROVE  LedgerOK'
<1> USE DEF LedgerInv
<1>1. CASE UNCHANGED <<days, reservations>>
  BY <1>1, LedgerUntouched
<1>2. ASSUME NEW c \in Calls, NEW outcome \in Settled, FinalizeReservation(c, outcome)
      PROVE  LedgerOK'
  BY <1>2, SettlementKeepsTheBooks
<1>3. ASSUME NEW c \in Calls, Catch(c) \/ Settle(c) PROVE LedgerOK'
  BY <1>2, <1>3 DEF Catch, Settle, Settled
<1>4. ASSUME NEW c \in Calls, NEW w \in Amounts, Reserve(c, w) PROVE LedgerOK'
  BY <1>4, ReservationKeepsTheBooks
<1>5. ASSUME NEW c \in Calls, CallStep(c) PROVE LedgerOK'
  BY <1>1, <1>3, <1>4, <1>5
  DEF CallStep, Refused, PrepareThrows, Submit, LoseResponse, ReceiptThrows, Record,
      RecordThrows
<1> QED
  BY <1>1, <1>5 DEF Next, Mine, GrowOld, Midnight, Crash, vars

LEMMA LedgerStep == LedgerInv /\ SpendInv /\ [Next]_vars => LedgerInv' /\ SpendInv'
<1> SUFFICES ASSUME LedgerInv, SpendInv, [Next]_vars PROVE LedgerInv' /\ SpendInv'
  OBVIOUS
<1>1. LedgerOK' /\ SpendInv'
  BY LedgerOKStep, SpendStep
<1>2. today' \in Days /\ old' \subseteq Calls /\ crashes' \in 0 .. MaxCrashes
  <2>1. TypeOK /\ LastDay \in Nat /\ MaxCrashes \in Nat
    BY SpendAssumption DEF LedgerInv
  <2>2. CASE Midnight
    BY <2>1, <2>2 DEF Midnight, TypeOK, Days
  <2>3. CASE Crash
    BY <2>1, <2>3 DEF Crash, TypeOK
  <2>4. ASSUME NEW c \in Calls, GrowOld(c)
        PROVE  today' \in Days /\ old' \subseteq Calls /\ crashes' \in 0 .. MaxCrashes
    BY <2>1, <2>4 DEF GrowOld, TypeOK
  <2>5. CASE UNCHANGED <<today, old, crashes>>
    BY <2>1, <2>5 DEF TypeOK
  <2>6. ASSUME NEW c \in Calls, CallStep(c) \/ Mine(c)
        PROVE  UNCHANGED <<today, old, crashes>>
    BY <2>6
    DEF CallStep, Mine, Reserve, Refused, PrepareThrows, Submit, LoseResponse, Settle,
        ReceiptThrows, Record, RecordThrows
  <2> QED
    BY <2>2, <2>3, <2>4, <2>5, <2>6 DEF Next, vars
<1>3. TypeOK'
  BY <1>1, <1>2 DEF TypeOK, LedgerOK, LedgerTypeOK, SpendInv, RowsTypeOK
<1> QED
  BY <1>1, <1>3 DEF LedgerInv, SpendInv

LEMMA LedgerInvariant == Spec => []LedgerInv
<1>1. Init => LedgerInv /\ SpendInv
  BY LedgerInit, SpendInit
<1> QED
  BY <1>1, LedgerStep, PTL DEF Spec

\* Every variable of the ledger keeps its type: nothing is given back that takes
\* a day's reserved below zero (store.ts, finalizeReservation).
THEOREM LedgerTypes == Spec => []TypeOK
<1>1. LedgerInv => TypeOK
  BY DEF LedgerInv
<1> QED
  BY <1>1, LedgerInvariant, PTL

\* A day row is at all times the sum of its reservations and its charges,
\* whatever order calls settle in, go stale or die (store.ts, reserveSpend,
\* finalizeReservation, releaseStaleReservations).
THEOREM BooksAlwaysBalance == Spec => []BooksBalance
<1>1. LedgerInv => BooksBalance
  BY BooksAreTheSums DEF LedgerInv, LedgerOK
<1> QED
  BY <1>1, LedgerInvariant, PTL

\* However many calls run at once, what a day has spent and holds reserved stays
\* within the agent's limits (store.ts, reserveSpend).
THEOREM LimitsHold == Spec => []LedgerWithinLimits
<1>1. LedgerInv => LedgerWithinLimits
  BY DEF LedgerInv, LedgerOK
<1> QED
  BY <1>1, LedgerInvariant, PTL

=============================================================================
