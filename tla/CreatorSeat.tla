----------------------------- MODULE CreatorSeat ------------------------------
(***************************************************************************)
(* The seat a market names as the creator of its fees                       *)
(* (packages/contracts/src/CreatorSeat.sol), with what it asks of its       *)
(* factory and of the vaults that pay it.                                   *)
(*                                                                          *)
(* The vault's recipient is fixed for ever; the seat's occupant is not.     *)
(* There are two ways to change it.  The occupant offers the seat and the   *)
(* invited address takes it; or Agen's steward proposes an address, which   *)
(* may accept once the proposal has stood for TIMELOCK.                     *)
(*                                                                          *)
(* An action is one transaction and its first parameter the sender.  Time   *)
(* matters only to a proposal, so it is the age of the standing one.        *)
(***************************************************************************)
EXTENDS Naturals

CONSTANTS Addresses,   \* who may hold the seat
          Opener,      \* the key the seat is opened for
          Refusing,    \* contracts that do not accept ether
          Vaults,      \* markets whose vault names the seat
          Timelock,    \* TIMELOCK
          Nobody

ASSUME SeatAssumption ==
  /\ Opener \in Addresses
  /\ Nobody \notin Addresses
  /\ Timelock \in Nat \ {0}

VARIABLES beneficiary,
          offered,
          proposed,
          age,         \* block.timestamp - proposedAt, as far as Timelock
          arbitrable,
          stewarded,   \* the factory has a steward
          owed,        \* the vaults that hold something for the seat
          inviter,     \* history: who made the offer that stands
          stood        \* history: for how long this occupant has faced this proposal

handover == <<beneficiary, offered, proposed, age, arbitrable, inviter, stood>>
seat == <<handover, stewarded, owed>>

SeatOK ==
  /\ beneficiary \in Addresses
  /\ offered \in Addresses \cup {Nobody}
  /\ proposed \in Addresses \cup {Nobody}
  /\ age \in 0 .. Timelock
  /\ arbitrable \in BOOLEAN /\ stewarded \in BOOLEAN
  /\ owed \in SUBSET Vaults
  /\ inviter \in Addresses \cup {Nobody}
  /\ stood \in 0 .. Timelock

SeatInit ==
  /\ beneficiary = Opener
  /\ offered = Nobody
  /\ proposed = Nobody
  /\ age = 0
  /\ arbitrable = TRUE
  /\ stewarded \in BOOLEAN
  /\ owed = {}
  /\ inviter = Nobody
  /\ stood = 0

\* The two histories, for a transaction that is not an offer.
Watched ==
  /\ inviter' = IF offered' = Nobody THEN Nobody ELSE inviter
  /\ stood' = IF proposed' = proposed /\ beneficiary' = beneficiary THEN stood ELSE 0

ClearProposal == proposed' = Nobody /\ age' = 0

-----------------------------------------------------------------------------
(* The negotiated handover.                                                 *)

\* A standing proposal is vetoed: the occupant is present and chooses.
Offer(a, next) ==
  /\ a = beneficiary
  /\ next # a
  /\ offered' = next
  /\ ClearProposal
  /\ inviter' = a /\ stood' = 0
  /\ UNCHANGED <<beneficiary, arbitrable, stewarded, owed>>

WithdrawOffer(a) ==
  /\ a = beneficiary
  /\ offered # Nobody
  /\ offered' = Nobody
  /\ UNCHANGED <<beneficiary, proposed, age, arbitrable, stewarded, owed>>
  /\ Watched

\* _seat: one occupant, no offer and no proposal.
Seat(next) ==
  /\ beneficiary' = next
  /\ offered' = Nobody
  /\ ClearProposal

Take(a) ==
  /\ a = offered
  /\ Seat(a)
  /\ UNCHANGED <<arbitrable, stewarded, owed>>
  /\ Watched

-----------------------------------------------------------------------------
(* The abandoned handover.                                                  *)

\* A bug to catch: the name is replaced and the clock runs on.
ProposeLater(next) ==
  /\ stewarded /\ arbitrable
  /\ next # beneficiary
  /\ offered' = Nobody
  /\ proposed' = next
  /\ UNCHANGED age
  /\ UNCHANGED <<beneficiary, arbitrable, stewarded, owed>>
  /\ Watched

\* The steward, whoever that is now.  Naming again, even the same address,
\* starts the clock again, and an open offer is withdrawn.
Propose(next) ==
  /\ stewarded /\ arbitrable
  /\ next # beneficiary
  /\ offered' = Nobody
  /\ proposed' = next
  /\ age' = 0
  /\ UNCHANGED <<beneficiary, arbitrable, stewarded, owed>>
  /\ Watched

Veto(a) ==
  /\ a = beneficiary
  /\ proposed # Nobody
  /\ ClearProposal
  /\ UNCHANGED <<beneficiary, offered, arbitrable, stewarded, owed>>
  /\ Watched

Accept(a) ==
  /\ a = proposed
  /\ age = Timelock
  /\ Seat(a)
  /\ UNCHANGED <<arbitrable, stewarded, owed>>
  /\ Watched

RenounceArbitration(a) ==
  /\ a = beneficiary
  /\ arbitrable
  /\ arbitrable' = FALSE
  /\ ClearProposal
  /\ UNCHANGED <<beneficiary, offered, stewarded, owed>>
  /\ Watched

\* CreatorSeatFactory.renounceSteward.  A proposal made before stands.
RenounceSteward ==
  /\ stewarded
  /\ stewarded' = FALSE
  /\ UNCHANGED <<handover, owed>>

Tick ==
  /\ proposed # Nobody
  /\ age < Timelock
  /\ age' = age + 1
  /\ stood' = IF stood < Timelock THEN stood + 1 ELSE stood
  /\ UNCHANGED <<beneficiary, offered, proposed, arbitrable, stewarded, owed, inviter>>

-----------------------------------------------------------------------------
(* The money.                                                               *)

Trade(v) ==
  /\ v \notin owed
  /\ owed' = owed \cup {v}
  /\ UNCHANGED <<handover, stewarded>>

\* Anyone may send it.  It reverts where the vault has nothing to claim, and
\* where the occupant does not accept ether.
Collect(v) ==
  /\ v \in owed
  /\ beneficiary \notin Refusing
  /\ owed' = owed \ {v}
  /\ UNCHANGED <<handover, stewarded>>

-----------------------------------------------------------------------------
\* "A delay the steward can skip is not a delay", and "two successors at once
\* is a race, not a process" (CreatorSeat.sol): the seat leaves an occupant who
\* did not offer it only for an address that has been named to that very
\* occupant, without a break, for the whole TIMELOCK; and an invitation is
\* worth nothing once its maker has left the seat.
HandoverIsAgreed ==
  [][beneficiary' # beneficiary =>
       \/ beneficiary' = offered /\ inviter = beneficiary
       \/ beneficiary' = proposed /\ stood = Timelock]_seat

=============================================================================
