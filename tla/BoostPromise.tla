---------------------------- MODULE BoostPromise ----------------------------
(***************************************************************************)
(* What Boost promises about the fees of a market, without the three        *)
(* contracts that keep the promise.                                         *)
(*                                                                          *)
(* Every wei is either committed to buying the token back or belongs to     *)
(* those who earned it.  The switch decides which of the two a wei earned   *)
(* from now on is; it moves nothing that was earned before.  Committed      *)
(* money leaves by a buyback alone, and a locked switch stays on.           *)
(***************************************************************************)
EXTENDS Integers

CONSTANT Markets

VARIABLES on, locked,
          committed, \* wei that only a buyback may spend
          theirs     \* wei of the creator and of the platform

vars == <<on, locked, committed, theirs>>

Init ==
  /\ on = [m \in Markets |-> FALSE]
  /\ locked = [m \in Markets |-> FALSE]
  /\ committed = [m \in Markets |-> 0]
  /\ theirs = [m \in Markets |-> 0]

Others(m) == \A k \in Markets \ {m} :
  committed'[k] = committed[k] /\ theirs'[k] = theirs[k]

Switches == <<on, locked>>

\* A fee.
Earn(m) ==
  /\ committed'[m] >= committed[m] /\ theirs'[m] >= theirs[m]
  /\ IF on[m] THEN theirs'[m] = theirs[m] ELSE committed'[m] = committed[m]
  /\ Others(m) /\ UNCHANGED Switches

\* A present to the buybacks.
Give(m) ==
  /\ committed'[m] > committed[m] /\ theirs'[m] = theirs[m]
  /\ Others(m) /\ UNCHANGED Switches

\* What its owners take is theirs.
PayOut(m) ==
  /\ theirs'[m] < theirs[m] /\ committed'[m] = committed[m]
  /\ Others(m) /\ UNCHANGED Switches

\* A buyback is itself a trade, and pays a fee.
Buyback(m) ==
  /\ committed'[m] < committed[m]
  /\ theirs'[m] >= theirs[m]
  /\ on[m] => theirs'[m] = theirs[m]
  /\ Others(m) /\ UNCHANGED Switches

Turn(m) ==
  /\ ~locked[m]
  /\ on' = [on EXCEPT ![m] = ~@]
  /\ UNCHANGED <<locked, committed, theirs>>

Lock(m) ==
  /\ on[m] /\ ~locked[m]
  /\ locked' = [locked EXCEPT ![m] = TRUE]
  /\ UNCHANGED <<on, committed, theirs>>

Next == \E m \in Markets :
  Earn(m) \/ Give(m) \/ PayOut(m) \/ Buyback(m) \/ Turn(m) \/ Lock(m)

Spec == Init /\ [][Next]_vars

=============================================================================
