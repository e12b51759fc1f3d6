------------------------------ MODULE SeatClaim -------------------------------
(***************************************************************************)
(* "Launch first, account later": how one X account comes to its seat.      *)
(*                                                                          *)
(* apps/agen/src/app/lib/x/claim.ts (offerSeat, collectFees), wallet.ts     *)
(* (xWalletFor, linkXWalletOwner), the rows of store.ts they write, and     *)
(* the CreatorSeat on the chain, which its occupants, Agen's steward and    *)
(* anyone who collects act upon without asking the server.                  *)
(*                                                                          *)
(* A call is one request; it interleaves with everything else at its        *)
(* awaits, and at names the one it is at.                                   *)
(***************************************************************************)
EXTENDS CreatorSeat

CONSTANTS Sponsor,    \* the address that pays for transactions, Agen's as the Opener is
          Calls,      \* running calls of offerSeat, all of one identity
          Collectors, \* running calls of collectFees
          Dead,       \* UNCLAIMED_OWNER
          Unread      \* a field readSeatState has not returned yet

ASSUME ClaimAssumption ==
  /\ Dead \notin Addresses \cup {Nobody}
  /\ Unread \notin Addresses \cup {Nobody}

VARIABLES rows,        \* x_launches: claim_status and claim_wallet of the launched markets
          claimWallet, \* x_identities.claim_wallet
          owner,       \* agents.owner_address of the trading wallet, Nobody where there is none
          at,          \* offerSeat: the await each call is at
          want,        \* the wallet it was asked for
          seenHolder, seenOffer, \* and what readSeatState has returned
          stage,       \* collectFees: the await each call is at
          market,      \* and the market it was asked for
          named,       \* history: the wallets the identity has named
          occupants,   \* history: who has held the seat
          sponsoredTo  \* history: whom a collect of collectFees has paid

tables == <<rows, claimWallet, owner>>
seen == <<seenHolder, seenOffer>>
offerings == <<at, want, seen>>
collections == <<stage, market>>
vars == <<seat, tables, offerings, collections, named, occupants, sponsoredTo>>

\* asWallet refuses Agen's own addresses.
Wallets == Addresses \ {Opener, Sponsor}

ClaimStatuses == {"none", "unclaimed", "offered", "claimed"}

\* "none" stands for a market that is not launched.
Rows == [status : ClaimStatuses, wallet : Addresses \cup {Nobody}]

TypeOK ==
  /\ SeatOK
  /\ rows \in [Vaults -> Rows]
  /\ claimWallet \in Addresses \cup {Nobody}
  /\ owner \in Addresses \cup {Nobody, Dead}
  /\ at \in [Calls -> {"idle", "deriving", "reading", "offering", "mined"}]
  /\ want \in [Calls -> Addresses \cup {Nobody}]
  /\ seenHolder \in [Calls -> Addresses \cup {Unread}]
  /\ seenOffer \in [Calls -> Addresses \cup {Nobody, Unread}]
  /\ stage \in [Collectors -> {"idle", "checking", "pricing", "sending"}]
  /\ market \in [Collectors -> Vaults \cup {Nobody}]
  /\ named \in SUBSET Wallets
  /\ occupants \in SUBSET Addresses
  /\ sponsoredTo \in SUBSET Addresses

Init ==
  /\ SeatInit
  /\ rows = [v \in Vaults |-> [status |-> "none", wallet |-> Nobody]]
  /\ claimWallet = Nobody
  /\ owner = Nobody
  /\ at = [c \in Calls |-> "idle"]
  /\ want = [c \in Calls |-> Nobody]
  /\ seenHolder = [c \in Calls |-> Unread]
  /\ seenOffer = [c \in Calls |-> Unread]
  /\ stage = [s \in Collectors |-> "idle"]
  /\ market = [s \in Collectors |-> Nobody]
  /\ named = {}
  /\ occupants = {Opener}
  /\ sponsoredTo = {}

Launched(v) == rows[v].status # "none"

Deployed == \E v \in Vaults : Launched(v)

-----------------------------------------------------------------------------
(* The account's other requests.                                            *)

\* A launch of the engine, done: the seat is there and the row says launched.
Launch(v) ==
  /\ ~Launched(v)
  /\ rows' = [rows EXCEPT ![v].status = "unclaimed"]
  /\ UNCHANGED <<seat, claimWallet, owner, offerings, collections, named, occupants, sponsoredTo>>

\* xWalletFor, the first time the account trades.
CreateWallet ==
  /\ owner = Nobody
  /\ owner' = Dead
  /\ UNCHANGED <<seat, rows, claimWallet, offerings, collections, named, occupants, sponsoredTo>>

\* setClaimStatusForUser: every launched row of the account.
SetClaimStatus(status, w) ==
  rows' = [v \in Vaults |->
             IF Launched(v) THEN [status |-> status, wallet |-> w] ELSE rows[v]]

\* linkXWalletOwner: silent where the account has no wallet.
LinkOwner(w) == owner' = IF owner = Nobody THEN Nobody ELSE w

-----------------------------------------------------------------------------
(* offerSeat.                                                               *)

\* The request ends, answered or failed.
Return(c) ==
  /\ at' = [at EXCEPT ![c] = "idle"]
  /\ want' = [want EXCEPT ![c] = Nobody]
  /\ seenHolder' = [seenHolder EXCEPT ![c] = Unread]
  /\ seenOffer' = [seenOffer EXCEPT ![c] = Unread]

Ask(c, w) ==
  /\ at[c] = "idle"
  /\ at' = [at EXCEPT ![c] = "deriving"]
  /\ want' = [want EXCEPT ![c] = w]
  /\ named' = named \cup {w}
  /\ UNCHANGED <<seat, tables, seen, collections, occupants, sponsoredTo>>

\* seatFor and assertSeatBelongsTo: NOT_FOUND where there is no seat yet.
Derived(c) ==
  /\ at[c] = "deriving"
  /\ IF Deployed
       THEN at' = [at EXCEPT ![c] = "reading"] /\ UNCHANGED <<want, seen>>
       ELSE Return(c)
  /\ UNCHANGED <<seat, tables, collections, named, occupants, sponsoredTo>>

\* readSeatState asks for each field by itself; a block may come in between.
ReadHolder(c) ==
  /\ at[c] = "reading"
  /\ seenHolder[c] = Unread
  /\ seenHolder' = [seenHolder EXCEPT ![c] = beneficiary]
  /\ UNCHANGED <<seat, tables, at, want, seenOffer, collections, named, occupants, sponsoredTo>>

ReadOffer(c) ==
  /\ at[c] = "reading"
  /\ seenOffer[c] = Unread
  /\ seenOffer' = [seenOffer EXCEPT ![c] = offered]
  /\ UNCHANGED <<seat, tables, at, want, seenHolder, collections, named, occupants, sponsoredTo>>

StateRead(c) == at[c] = "reading" /\ Unread \notin {seenHolder[c], seenOffer[c]}

\* Already somebody's: recorded as the chain reports it.
AlreadyTaken(c) ==
  /\ StateRead(c)
  /\ seenHolder[c] # Opener
  /\ claimWallet' = seenHolder[c]
  /\ SetClaimStatus("claimed", seenHolder[c])
  /\ LinkOwner(seenHolder[c])
  /\ Return(c)
  /\ UNCHANGED <<seat, collections, named, occupants, sponsoredTo>>

\* A bug to catch: an invitation is recorded as a handover.
RecordTaken(c) ==
  /\ SetClaimStatus("claimed", want[c])
  /\ LinkOwner(want[c])
  /\ Return(c)
  /\ UNCHANGED <<seat, claimWallet, collections, named, occupants, sponsoredTo>>

\* The wallet is recorded as invited, and as the one that may withdraw.
RecordOffer(c) ==
  /\ SetClaimStatus("offered", want[c])
  /\ LinkOwner(want[c])
  /\ Return(c)
  /\ UNCHANGED <<seat, claimWallet, collections, named, occupants, sponsoredTo>>

\* The same wallet as before: nothing to send.
AlreadyOffered(c) ==
  /\ StateRead(c)
  /\ seenHolder[c] = Opener
  /\ seenOffer[c] = want[c]
  /\ RecordOffer(c)

\* sendAsSeatOpener begins.
SendOffer(c) ==
  /\ StateRead(c)
  /\ seenHolder[c] = Opener
  /\ seenOffer[c] # want[c]
  /\ at' = [at EXCEPT ![c] = "offering"]
  /\ UNCHANGED <<seat, tables, want, seen, collections, named, occupants, sponsoredTo>>

OfferMined(c) ==
  /\ at[c] = "offering"
  /\ Offer(Opener, want[c])
  /\ at' = [at EXCEPT ![c] = "mined"]
  /\ UNCHANGED <<tables, want, seen, collections, named, occupants, sponsoredTo>>

OfferReceipt(c) ==
  /\ at[c] = "mined"
  /\ RecordOffer(c)

\* The chain does not answer, the opener has no gas, the transaction reverts or
\* its receipt does not come; or the process dies.  Nothing is recorded.
OfferThrows(c) ==
  /\ at[c] # "idle"
  /\ Return(c)
  /\ UNCHANGED <<seat, tables, collections, named, occupants, sponsoredTo>>

-----------------------------------------------------------------------------
(* collectFees.                                                             *)

Leave(s) ==
  /\ stage' = [stage EXCEPT ![s] = "idle"]
  /\ market' = [market EXCEPT ![s] = Nobody]

AskCollect(s, v) ==
  /\ stage[s] = "idle"
  /\ Launched(v)
  /\ stage' = [stage EXCEPT ![s] = "checking"]
  /\ market' = [market EXCEPT ![s] = v]
  /\ UNCHANGED <<seat, tables, offerings, named, occupants, sponsoredTo>>

\* A bug to catch: an invitation is taken for a handover.
SeesInvited(s) ==
  /\ stage[s] = "checking"
  /\ beneficiary # Opener \/ offered # Nobody
  /\ stage' = [stage EXCEPT ![s] = "pricing"]
  /\ UNCHANGED <<seat, tables, offerings, market, named, occupants, sponsoredTo>>

\* seatSummary: the seat has left Agen's hands.
SeesClaimed(s) ==
  /\ stage[s] = "checking"
  /\ beneficiary # Opener
  /\ stage' = [stage EXCEPT ![s] = "pricing"]
  /\ UNCHANGED <<seat, tables, offerings, market, named, occupants, sponsoredTo>>

SeesAmount(s) ==
  /\ stage[s] = "pricing"
  /\ market[s] \in owed
  /\ stage' = [stage EXCEPT ![s] = "sending"]
  /\ UNCHANGED <<seat, tables, offerings, market, named, occupants, sponsoredTo>>

SponsoredCollect(s) ==
  /\ stage[s] = "sending"
  /\ Collect(market[s])
  /\ sponsoredTo' = sponsoredTo \cup {beneficiary}
  /\ Leave(s)
  /\ UNCHANGED <<tables, offerings, named, occupants>>

\* Refused, nothing outstanding, a revert, or the chain does not answer.
CollectThrows(s) ==
  /\ stage[s] # "idle"
  /\ Leave(s)
  /\ UNCHANGED <<seat, tables, offerings, named, occupants, sponsoredTo>>

-----------------------------------------------------------------------------
(* The chain without the server.                                            *)

\* OPENER_SELECTORS: that key signs offer and withdrawOffer, and the server
\* asks it for offers only.  The sponsor's key is asked for collections only.
Holders ==
  \E a \in Wallets :
    \/ \E next \in Addresses : Offer(a, next)
    \/ WithdrawOffer(a)
    \/ Take(a)
    \/ Veto(a)
    \/ Accept(a)
    \/ RenounceArbitration(a)

Steward == (\E next \in Addresses : Propose(next)) \/ RenounceSteward

Others == Tick \/ \E v \in Vaults : (Launched(v) /\ Trade(v)) \/ Collect(v)

OnChain ==
  /\ Deployed
  /\ Holders \/ Steward \/ Others
  /\ occupants' = occupants \cup {beneficiary'}
  /\ UNCHANGED <<tables, offerings, collections, named, sponsoredTo>>

OfferStep(c) ==
  \/ \E w \in Wallets : Ask(c, w)
  \/ Derived(c)
  \/ ReadHolder(c)
  \/ ReadOffer(c)
  \/ AlreadyTaken(c)
  \/ AlreadyOffered(c)
  \/ SendOffer(c)
  \/ OfferMined(c)
  \/ OfferReceipt(c)
  \/ OfferThrows(c)

CollectStep(s) ==
  \/ \E v \in Vaults : AskCollect(s, v)
  \/ SeesClaimed(s)
  \/ SeesAmount(s)
  \/ SponsoredCollect(s)
  \/ CollectThrows(s)

Next ==
  \/ \E v \in Vaults : Launch(v)
  \/ CreateWallet
  \/ \E c \in Calls : OfferStep(c)
  \/ \E s \in Collectors : CollectStep(s)
  \/ OnChain

Spec == Init /\ [][Next]_vars

-----------------------------------------------------------------------------
\* "That check is the one thing standing between this feature and taking a
\* stranger's money" (claim.ts): a collect Agen sends never pays Agen, though
\* the seat is read several awaits before the transaction is mined.
SponsoredCollectPaysCreator == Opener \notin sponsoredTo

\* A row, or the account, that says claimed by a wallet tells the truth about
\* the chain: that wallet has held the seat, and the seat has left Agen.
ClaimedMeansTaken ==
  /\ \A v \in Vaults :
       rows[v].status = "claimed" => rows[v].wallet \in occupants \ {Opener}
  /\ claimWallet # Nobody => claimWallet \in occupants \ {Opener}
  /\ claimWallet # Nobody => beneficiary # Opener

\* Agen's invitation goes to a wallet the signed-in account has named, so the
\* first to take the seat is the account's choice or the steward's.
InvitedWasNamed ==
  beneficiary = Opener /\ offered # Nobody => offered \in named

\* "It becomes their real address when they prove one" (wallet.ts): whoever may
\* empty the trading wallet has been named by the account it belongs to.
OwnerWasNamed == owner \in named \cup {Nobody, Dead}

=============================================================================
