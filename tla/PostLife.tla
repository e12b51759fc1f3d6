------------------------------ MODULE PostLife ------------------------------
(***************************************************************************)
(* What the mention bot promises about one command post, without the engine *)
(* that keeps the promise.                                                  *)
(*                                                                          *)
(*   open    -> held      a handler takes the post                          *)
(*   held    -> open      it gives it back, having sent nothing             *)
(*   held    -> closed    it is done with it, and there is no market        *)
(*   held    -> pending   it sends the one create transaction               *)
(*   pending -> market    the transaction made the market                   *)
(*   pending -> held      the transaction reverted, the handler still runs  *)
(*   pending -> closed    the transaction reverted after the post was settled *)
(*                                                                          *)
(* A market and a closed post are final: nothing is sent for them again.    *)
(***************************************************************************)
CONSTANT Posts

VARIABLE fate

Fates == {"open", "held", "pending", "market", "closed"}

TypeOK == fate \in [Posts -> Fates]

Init == fate = [p \in Posts |-> "open"]

Move(p, from, to) == fate[p] \in from /\ fate' = [fate EXCEPT ![p] = to]

Take(p)     == Move(p, {"open"}, "held")
GiveBack(p) == Move(p, {"held"}, "open")
Send(p)     == Move(p, {"held"}, "pending")
Succeed(p)  == Move(p, {"pending"}, "market")
Revert(p)   == Move(p, {"pending"}, "held")
Close(p)    == Move(p, {"held", "pending"}, "closed")

Next == \E p \in Posts :
  Take(p) \/ GiveBack(p) \/ Send(p) \/ Succeed(p) \/ Revert(p) \/ Close(p)

Spec == Init /\ [][Next]_fate

=============================================================================
