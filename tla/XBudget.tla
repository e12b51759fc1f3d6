------------------------------ MODULE XBudget ------------------------------
(***************************************************************************)
(* The sponsor's daily ledger as a value: one row of x_days, the launches   *)
(* one account has had that day (a row of x_user_days), and the three       *)
(* transactions store.ts runs on them.  Gas is counted in units, not wei.   *)
(*                                                                          *)
(* A row that does not exist yet and a row of zeros are the same to every   *)
(* statement below, so both are EmptyDay.                                   *)
(***************************************************************************)
EXTENDS Naturals

CONSTANTS MaxPerDay,          \* limits().launchesPerDay
          MaxPerUserPerDay,   \* limits().launchesPerUserPerDay
          MaxGasPerDay,       \* limits().gasPerDayWei
          EstimateGas         \* budgetedGasWei(), held for one launch

ASSUME BudgetAssumption ==
  /\ MaxPerDay \in Nat
  /\ MaxPerUserPerDay \in Nat
  /\ MaxGasPerDay \in Nat
  /\ EstimateGas \in Nat

DayRows == [launches : Nat, reserved : Nat, gas : Nat, reservedGas : Nat]

EmptyDay == [launches |-> 0, reserved |-> 0, gas |-> 0, reservedGas |-> 0]

\* A bug to catch: the counter is decremented without the MAX.
MonusUnclamped(a, b) == a - b

\* SQL's MAX(a - b, 0), and the bigint comparison that stands for it.
Monus(a, b) == IF a > b THEN a - b ELSE 0

\* A bug to catch: launches still in flight are not counted.
UsedSettledOnly(day) == day.launches

UsedLaunches(day) == day.launches + day.reserved

UsedGas(day) == day.gas + day.reservedGas

\* The three counters reserveLaunch compares before it takes room.
HasRoom(day, mine) ==
  /\ UsedLaunches(day) < MaxPerDay
  /\ UsedGas(day) + EstimateGas <= MaxGasPerDay
  /\ mine < MaxPerUserPerDay

TakeRoom(day) ==
  [launches    |-> day.launches,
   reserved    |-> day.reserved + 1,
   gas         |-> day.gas,
   reservedGas |-> day.reservedGas + EstimateGas]

\* releaseReservation: the estimate is given back and nothing was spent.
GiveBack(day) ==
  [launches    |-> day.launches,
   reserved    |-> Monus(day.reserved, 1),
   gas         |-> day.gas,
   reservedGas |-> Monus(day.reservedGas, EstimateGas)]

\* recordGasSpent: the estimate becomes one launch and what it cost.
Charge(day, actual) ==
  [launches    |-> day.launches + 1,
   reserved    |-> Monus(day.reserved, 1),
   gas         |-> day.gas + actual,
   reservedGas |-> Monus(day.reservedGas, EstimateGas)]

=============================================================================
