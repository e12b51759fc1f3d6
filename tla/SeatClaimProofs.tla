--------------------------- MODULE SeatClaimProofs ----------------------------
(***************************************************************************)
(* For any number of claims, collections, markets and wallets, and whatever *)
(* the occupants, the steward and strangers do on the chain meanwhile: the  *)
(* seat changes hands by agreement only, no collect that Agen sends pays    *)
(* Agen, and what the tables call claimed has been taken.                   *)
(***************************************************************************)
EXTENDS SeatClaim, TLAPS

USE SeatAssumption, ClaimAssumption

\* What stands was made to, or by, the present occupant; and not both stand.
Standing ==
  /\ offered # Nobody => inviter = beneficiary
  /\ proposed # Nobody => stood >= age
  /\ offered = Nobody \/ proposed = Nobody

\* The seat never comes back to Agen, so what a call has read of it stays true.
Gone ==
  /\ beneficiary \in occupants
  /\ \A s \in Collectors : stage[s] \in {"pricing", "sending"} => beneficiary # Opener
  /\ \A c \in Calls : seenHolder[c] \in Addresses \ {Opener} =>
       beneficiary # Opener /\ seenHolder[c] \in occupants

Named == \A c \in Calls : at[c] # "idle" => want[c] \in named

IInv ==
  /\ TypeOK
  /\ Standing
  /\ Gone
  /\ Named
  /\ SponsoredCollectPaysCreator
  /\ ClaimedMeansTaken
  /\ InvitedWasNamed

LEMMA InitInv == Init => IInv
<1> SUFFICES ASSUME Init PROVE IInv
  OBVIOUS
<1> USE DEF Init, SeatInit, Wallets, Launched
<1>1. TypeOK
  BY DEF TypeOK, SeatOK, Rows, ClaimStatuses
<1>2. Standing /\ Gone /\ Named
  BY DEF Standing, Gone, Named
<1>3. SponsoredCollectPaysCreator /\ ClaimedMeansTaken /\ InvitedWasNamed
  BY DEF SponsoredCollectPaysCreator, ClaimedMeansTaken, InvitedWasNamed
<1> QED
  BY <1>1, <1>2, <1>3 DEF IInv

-----------------------------------------------------------------------------
(* The chain.                                                               *)

\* A transaction of somebody who is not Agen.
ByOthers == Holders \/ Steward \/ Others

LEMMA SeatTyped ==
  ASSUME SeatOK, ByOthers \/ \E w \in Wallets : Offer(Opener, w)
  PROVE  SeatOK'
<1> USE DEF SeatOK, Watched, ClearProposal, Seat, handover
<1>0. 0 \in 0 .. Timelock
  OBVIOUS
<1>1. ASSUME NEW a \in Addresses, NEW next \in Addresses, Offer(a, next)
      PROVE  SeatOK'
  BY <1>0, <1>1 DEF Offer
<1>2. ASSUME NEW a \in Addresses, Take(a) \/ Accept(a)
      PROVE  SeatOK'
  BY <1>0, <1>2 DEF Take, Accept
<1>3. ASSUME NEW a \in Addresses, WithdrawOffer(a) \/ Veto(a) \/ RenounceArbitration(a)
      PROVE  SeatOK'
  BY <1>0, <1>3 DEF WithdrawOffer, Veto, RenounceArbitration
<1>4. CASE Steward
  BY <1>0, <1>4 DEF Steward, Propose, RenounceSteward
<1>5. CASE Tick
  BY <1>5 DEF Tick
<1>6. ASSUME NEW v \in Vaults, Trade(v) \/ Collect(v)
      PROVE  SeatOK'
  BY <1>6 DEF Trade, Collect
<1> QED
  BY <1>1, <1>2, <1>3, <1>4, <1>5, <1>6 DEF ByOthers, Holders, Others, Wallets

LEMMA StandingStep ==
  ASSUME SeatOK, Standing, ByOthers \/ \E w \in Wallets : Offer(Opener, w)
  PROVE  Standing'
<1> USE DEF SeatOK, Standing, Wallets, Watched, ClearProposal, Seat, handover
<1>1. ASSUME NEW a \in Addresses, NEW next \in Addresses, Offer(a, next)
      PROVE  Standing'
  BY <1>1 DEF Offer
<1>2. ASSUME NEW a \in Wallets,
             WithdrawOffer(a) \/ Take(a) \/ Veto(a) \/ Accept(a) \/ RenounceArbitration(a)
      PROVE  Standing'
  BY <1>2 DEF WithdrawOffer, Take, Veto, Accept, RenounceArbitration
<1>3. CASE Steward
  BY <1>3 DEF Steward, Propose, RenounceSteward
<1>4. CASE Tick
  BY <1>4 DEF Tick
<1>5. ASSUME NEW v \in Vaults, Trade(v) \/ Collect(v)
      PROVE  Standing'
  BY <1>5 DEF Trade, Collect
<1> QED
  BY <1>1, <1>2, <1>3, <1>4, <1>5 DEF ByOthers, Holders, Others

\* Who may leave the seat, to whom, and what becomes of an invitation of Agen's.
LEMMA OthersMove ==
  ASSUME SeatOK, ByOthers
  PROVE  /\ beneficiary # Opener => beneficiary' # Opener
         /\ beneficiary' = Opener => offered' \in {offered, Nobody}
<1> USE DEF SeatOK, Wallets, Watched, ClearProposal, Seat, handover
<1>1. ASSUME NEW a \in Wallets, NEW next \in Addresses, Offer(a, next)
      PROVE  beneficiary' = beneficiary /\ beneficiary # Opener
  BY <1>1 DEF Offer
<1>2. ASSUME NEW a \in Wallets,
             WithdrawOffer(a) \/ Take(a) \/ Veto(a) \/ Accept(a) \/ RenounceArbitration(a)
      PROVE  /\ beneficiary' \in {beneficiary, a}
             /\ beneficiary' = Opener => offered' \in {offered, Nobody}
  BY <1>2 DEF WithdrawOffer, Take, Veto, Accept, RenounceArbitration
<1>3. CASE Steward
  BY <1>3 DEF Steward, Propose, RenounceSteward
<1>4. CASE Others
  BY <1>4 DEF Others, Tick, Trade, Collect
<1> QED
  BY <1>1, <1>2, <1>3, <1>4 DEF ByOthers, Holders

\* A handover, seen from where it leaves.
LEMMA Agreed ==
  ASSUME SeatOK, Standing, ByOthers \/ \E w \in Wallets : Offer(Opener, w),
         beneficiary' # beneficiary
  PROVE  \/ beneficiary' = offered /\ inviter = beneficiary
         \/ beneficiary' = proposed /\ stood = Timelock
<1> USE DEF SeatOK, Standing, Wallets, Watched, ClearProposal, Seat, handover
<1>1. ASSUME NEW a \in Addresses, NEW next \in Addresses, Offer(a, next)
      PROVE  FALSE
  BY <1>1 DEF Offer
<1>2. ASSUME NEW a \in Wallets,
             WithdrawOffer(a) \/ Veto(a) \/ RenounceArbitration(a)
      PROVE  FALSE
  BY <1>2 DEF WithdrawOffer, Veto, RenounceArbitration
<1>3. ASSUME NEW a \in Wallets, Take(a)
      PROVE  beneficiary' = offered /\ inviter = beneficiary
  BY <1>3 DEF Take
<1>4. ASSUME NEW a \in Wallets, Accept(a)
      PROVE  beneficiary' = proposed /\ stood = Timelock
  BY <1>4 DEF Accept
<1>5. ASSUME Steward \/ Others
      PROVE  FALSE
  BY <1>5 DEF Steward, Propose, RenounceSteward, Others, Tick, Trade, Collect
<1> QED
  BY <1>1, <1>2, <1>3, <1>4, <1>5 DEF ByOthers, Holders

-----------------------------------------------------------------------------
(* The server.                                                              *)

\* A call that returns keeps what is known of the others.
LEMMA Returned ==
  ASSUME TypeOK, NEW c \in Calls, Return(c)
  PROVE  /\ at' \in [Calls -> {"idle", "deriving", "reading", "offering", "mined"}]
         /\ want' \in [Calls -> Addresses \cup {Nobody}]
         /\ seenHolder' \in [Calls -> Addresses \cup {Unread}]
         /\ seenOffer' \in [Calls -> Addresses \cup {Nobody, Unread}]
         /\ \A d \in Calls : at'[d] # "idle" => at[d] # "idle" /\ want'[d] = want[d]
         /\ \A d \in Calls : seenHolder'[d] \in {seenHolder[d], Unread}
  BY DEF TypeOK, Return

\* Recording rows that say no more than the chain does.
LEMMA Recorded ==
  ASSUME TypeOK, NEW w \in Addresses, NEW st \in {"offered", "claimed"},
         SetClaimStatus(st, w), LinkOwner(w)
  PROVE  /\ rows' \in [Vaults -> Rows]
         /\ owner' \in Addresses \cup {Nobody, Dead}
         /\ \A v \in Vaults : rows'[v].status = "claimed" =>
              \/ rows'[v] = rows[v]
              \/ rows'[v].wallet = w /\ st = "claimed"
<1>1. rows' \in [Vaults -> Rows]
  BY DEF TypeOK, SetClaimStatus, Rows, ClaimStatuses
<1>2. ASSUME NEW v \in Vaults, rows'[v].status = "claimed"
      PROVE  \/ rows'[v] = rows[v]
             \/ rows'[v].wallet = w /\ st = "claimed"
  BY <1>2 DEF SetClaimStatus
<1> QED
  BY <1>1, <1>2 DEF TypeOK, LinkOwner

LEMMA OfferStepInv ==
  ASSUME IInv, NEW c \in Calls, OfferStep(c)
  PROVE  IInv'
<1> USE DEF IInv
<1>r. ASSUME NEW w \in Addresses, NEW st \in {"offered", "claimed"},
             SetClaimStatus(st, w), LinkOwner(w), Return(c),
             UNCHANGED <<seat, collections, named, occupants, sponsoredTo>>,
             claimWallet' \in {claimWallet, w},
             claimWallet' # claimWallet => st = "claimed",
             st = "claimed" => w \in occupants \ {Opener} /\ beneficiary # Opener
      PROVE  IInv'
  <2>1. TypeOK'
    BY <1>r, Returned, Recorded DEF TypeOK, SeatOK, seat, handover, collections
  <2>2. Standing' /\ Named'
    BY <1>r, Returned DEF Standing, Named, seat, handover
  <2>3. Gone'
    BY <1>r, Returned DEF Gone, TypeOK, seat, handover, collections
  <2>4. ClaimedMeansTaken'
    BY <1>r, Recorded DEF ClaimedMeansTaken, seat, handover
  <2>5. SponsoredCollectPaysCreator' /\ InvitedWasNamed'
    BY <1>r DEF SponsoredCollectPaysCreator, InvitedWasNamed, seat, handover
  <2> QED
    BY <2>1, <2>2, <2>3, <2>4, <2>5
<1>1. ASSUME NEW w \in Wallets, Ask(c, w)
      PROVE  IInv'
  <2> USE <1>1 DEF Ask, Wallets
  <2>1. TypeOK'
    BY DEF TypeOK, SeatOK, seat, handover, tables, seen, collections
  <2>2. Standing' /\ Named'
    BY DEF Standing, Named, seat, handover, TypeOK
  <2>3. Gone' /\ ClaimedMeansTaken'
    BY DEF Gone, ClaimedMeansTaken, seat, handover, seen, collections, tables
  <2>4. SponsoredCollectPaysCreator' /\ InvitedWasNamed'
    BY DEF SponsoredCollectPaysCreator, InvitedWasNamed, seat, handover
  <2> QED
    BY <2>1, <2>2, <2>3, <2>4
<1>2. ASSUME Return(c), UNCHANGED <<seat, tables, collections, named, occupants, sponsoredTo>>
      PROVE  IInv'
  <2>1. TypeOK'
    BY <1>2, Returned DEF TypeOK, SeatOK, seat, handover, tables, collections
  <2>2. Standing' /\ Named'
    BY <1>2, Returned DEF Standing, Named, seat, handover
  <2>3. Gone'
    BY <1>2, Returned DEF Gone, TypeOK, seat, handover, collections
  <2>4. ClaimedMeansTaken' /\ SponsoredCollectPaysCreator' /\ InvitedWasNamed'
    BY <1>2 DEF ClaimedMeansTaken, SponsoredCollectPaysCreator, InvitedWasNamed, seat, handover, tables
  <2> QED
    BY <2>1, <2>2, <2>3, <2>4
<1>3. ASSUME at[c] # "idle",
             at' \in {[at EXCEPT ![c] = "reading"], [at EXCEPT ![c] = "offering"]},
             UNCHANGED <<seat, tables, want, seen, collections, named, occupants, sponsoredTo>>
      PROVE  IInv'
  <2>1. TypeOK' /\ Named'
    BY <1>3 DEF TypeOK, Named, SeatOK, seat, handover, tables, seen, collections
  <2>2. Standing' /\ Gone'
    BY <1>3 DEF Standing, Gone, seat, handover, seen, collections
  <2>3. ClaimedMeansTaken' /\ SponsoredCollectPaysCreator' /\ InvitedWasNamed'
    BY <1>3 DEF ClaimedMeansTaken, SponsoredCollectPaysCreator, InvitedWasNamed, seat, handover, tables
  <2> QED
    BY <2>1, <2>2, <2>3
<1>4. CASE ReadHolder(c)
  <2> USE <1>4 DEF ReadHolder
  <2>1. TypeOK' /\ Named'
    BY DEF TypeOK, Named, SeatOK, seat, handover, tables, collections
  <2>2. Gone'
    BY DEF Gone, TypeOK, SeatOK, seat, handover, collections
  <2>3. Standing' /\ ClaimedMeansTaken' /\ SponsoredCollectPaysCreator' /\ InvitedWasNamed'
    BY DEF Standing, ClaimedMeansTaken, SponsoredCollectPaysCreator, InvitedWasNamed, seat, handover, tables
  <2> QED
    BY <2>1, <2>2, <2>3
<1>5. CASE ReadOffer(c)
  <2> USE <1>5 DEF ReadOffer
  <2>1. TypeOK' /\ Named'
    BY DEF TypeOK, Named, SeatOK, seat, handover, tables, collections
  <2>2. Gone'
    BY DEF Gone, seat, handover, collections
  <2>3. Standing' /\ ClaimedMeansTaken' /\ SponsoredCollectPaysCreator' /\ InvitedWasNamed'
    BY DEF Standing, ClaimedMeansTaken, SponsoredCollectPaysCreator, InvitedWasNamed, seat, handover, tables
  <2> QED
    BY <2>1, <2>2, <2>3
<1>6. CASE AlreadyTaken(c)
  <2>1. seenHolder[c] \in Addresses \ {Opener}
    BY <1>6 DEF AlreadyTaken, StateRead, TypeOK
  <2>2. seenHolder[c] \in occupants \ {Opener} /\ beneficiary # Opener
    BY <2>1 DEF Gone
  <2> QED
    BY <1>6, <1>r, <2>1, <2>2 DEF AlreadyTaken
<1>7. ASSUME at[c] # "idle", RecordOffer(c)
      PROVE  IInv'
  <2>1. want[c] \in Addresses
    BY <1>7 DEF Named, TypeOK, Wallets
  <2> QED
    BY <1>7, <1>r, <2>1 DEF RecordOffer
<1>8. CASE OfferMined(c)
  <2> USE <1>8 DEF OfferMined
  <2>1. want[c] \in named /\ want[c] \in Wallets
    BY DEF Named, TypeOK
  <2>2. SeatOK' /\ Standing'
    BY <2>1, SeatTyped, StandingStep DEF TypeOK
  <2>3. beneficiary' = beneficiary /\ offered' = want[c] /\ inviter' = beneficiary
    BY DEF Offer
  <2>4. TypeOK' /\ Named'
    BY <2>2 DEF TypeOK, Named, tables, seen, collections
  <2>5. Gone'
    BY <2>3 DEF Gone, seen, collections
  <2>6. ClaimedMeansTaken' /\ SponsoredCollectPaysCreator' /\ InvitedWasNamed'
    BY <2>1, <2>3 DEF ClaimedMeansTaken, SponsoredCollectPaysCreator, InvitedWasNamed, tables
  <2> QED
    BY <2>2, <2>4, <2>5, <2>6
<1>9. CASE Derived(c)
  BY <1>2, <1>3, <1>9 DEF Derived, seen
<1>10. CASE SendOffer(c)
  BY <1>3, <1>10 DEF SendOffer, StateRead
<1>11. CASE AlreadyOffered(c) \/ OfferReceipt(c)
  BY <1>7, <1>11 DEF AlreadyOffered, OfferReceipt, StateRead
<1>12. CASE OfferThrows(c)
  BY <1>2, <1>12 DEF OfferThrows
<1> QED
  BY <1>1, <1>4, <1>5, <1>6, <1>8, <1>9, <1>10, <1>11, <1>12 DEF OfferStep

LEMMA CollectStepInv ==
  ASSUME IInv, NEW s \in Collectors, CollectStep(s)
  PROVE  IInv'
<1> USE DEF IInv
<1>1. ASSUME stage' \in [Collectors -> {"idle", "checking", "pricing", "sending"}],
             market' \in [Collectors -> Vaults \cup {Nobody}],
             \A d \in Collectors : stage'[d] \in {"pricing", "sending"} => beneficiary # Opener,
             owed' \in SUBSET Vaults,
             sponsoredTo' \in SUBSET Addresses, Opener \notin sponsoredTo',
             UNCHANGED <<handover, stewarded, tables, offerings, named, occupants>>
      PROVE  IInv'
  <2>1. TypeOK'
    BY <1>1 DEF TypeOK, SeatOK, handover, tables, offerings, seen
  <2>2. Standing' /\ Named'
    BY <1>1 DEF Standing, Named, handover, offerings
  <2>3. Gone'
    BY <1>1 DEF Gone, handover, offerings, seen
  <2>4. ClaimedMeansTaken' /\ SponsoredCollectPaysCreator' /\ InvitedWasNamed'
    BY <1>1 DEF ClaimedMeansTaken, SponsoredCollectPaysCreator, InvitedWasNamed, handover, tables
  <2> QED
    BY <2>1, <2>2, <2>3, <2>4
<1>2. owed \in SUBSET Vaults /\ sponsoredTo \in SUBSET Addresses /\ Opener \notin sponsoredTo
  BY DEF TypeOK, SeatOK, SponsoredCollectPaysCreator
<1>3. ASSUME NEW v \in Vaults, AskCollect(s, v)
      PROVE  IInv'
  BY <1>1, <1>2, <1>3 DEF AskCollect, seat, TypeOK, Gone
<1>4. CASE SeesClaimed(s)
  BY <1>1, <1>2, <1>4 DEF SeesClaimed, seat, TypeOK, Gone
<1>5. CASE SeesAmount(s)
  BY <1>1, <1>2, <1>5 DEF SeesAmount, seat, TypeOK, Gone
<1>6. CASE SponsoredCollect(s)
  <2>1. beneficiary \in Addresses \ {Opener}
    BY <1>6 DEF SponsoredCollect, Gone, TypeOK, SeatOK
  <2> QED
    BY <1>1, <1>2, <1>6, <2>1 DEF SponsoredCollect, Collect, Leave, TypeOK, Gone
<1>7. CASE CollectThrows(s)
  BY <1>1, <1>2, <1>7 DEF CollectThrows, Leave, seat, TypeOK, Gone
<1> QED
  BY <1>3, <1>4, <1>5, <1>6, <1>7 DEF CollectStep

LEMMA OnChainInv ==
  ASSUME IInv, OnChain
  PROVE  IInv'
<1> USE DEF IInv
<1>1. ByOthers /\ SeatOK
  BY DEF OnChain, ByOthers, TypeOK
<1>2. SeatOK' /\ Standing'
  BY <1>1, SeatTyped, StandingStep
<1>3. /\ beneficiary # Opener => beneficiary' # Opener
      /\ beneficiary' = Opener => offered' \in {offered, Nobody}
  BY <1>1, OthersMove
<1>4. TypeOK' /\ Named'
  BY <1>2 DEF OnChain, TypeOK, Named, SeatOK, tables, offerings, collections, seen
<1>5. Gone'
  BY <1>3 DEF OnChain, Gone, offerings, collections, seen
<1>6. ClaimedMeansTaken' /\ SponsoredCollectPaysCreator'
  BY <1>3 DEF OnChain, ClaimedMeansTaken, SponsoredCollectPaysCreator, tables
<1>7. InvitedWasNamed'
  BY <1>3 DEF OnChain, InvitedWasNamed
<1> QED
  BY <1>2, <1>4, <1>5, <1>6, <1>7

LEMMA StepInv == IInv /\ [Next]_vars => IInv'
<1> SUFFICES ASSUME IInv, [Next]_vars PROVE IInv'
  OBVIOUS
<1>1. ASSUME NEW v \in Vaults, Launch(v)
      PROVE  IInv'
  <2> USE <1>1 DEF Launch, IInv
  <2>1. rows' \in [Vaults -> Rows] /\ \A u \in Vaults :
          rows'[u].status = "claimed" => rows'[u] = rows[u]
    BY DEF TypeOK, Rows, ClaimStatuses
  <2>2. TypeOK' /\ Named' /\ Standing' /\ Gone'
    BY <2>1 DEF TypeOK, Named, Standing, Gone, SeatOK, seat, handover, offerings, collections, seen
  <2>3. ClaimedMeansTaken' /\ SponsoredCollectPaysCreator' /\ InvitedWasNamed'
    BY <2>1 DEF ClaimedMeansTaken, SponsoredCollectPaysCreator, InvitedWasNamed, seat, handover
  <2> QED
    BY <2>2, <2>3
<1>2. CASE CreateWallet
  BY <1>2 DEF CreateWallet, IInv, TypeOK, Named, Standing, Gone, SeatOK, ClaimedMeansTaken,
     SponsoredCollectPaysCreator, InvitedWasNamed, seat, handover, offerings, collections, seen
<1>3. CASE UNCHANGED vars
  BY <1>3 DEF vars, IInv, TypeOK, Named, Standing, Gone, SeatOK, ClaimedMeansTaken, tables,
     SponsoredCollectPaysCreator, InvitedWasNamed, seat, handover, offerings, collections, seen
<1> QED
  BY <1>1, <1>2, <1>3, OfferStepInv, CollectStepInv, OnChainInv DEF Next

-----------------------------------------------------------------------------
\* Every reachable state is well typed, for any claims, collections and markets.
THEOREM TypeCorrect == Spec => []TypeOK
<1>1. IInv => TypeOK
  BY DEF IInv
<1> QED
  BY InitInv, StepInv, <1>1, PTL DEF Spec

\* A collect that Agen sends never pays Agen, whatever happens between the
\* check and the transaction (claim.ts, collectFees).
THEOREM AgenCollectsForCreators == Spec => []SponsoredCollectPaysCreator
<1>1. IInv => SponsoredCollectPaysCreator
  BY DEF IInv
<1> QED
  BY InitInv, StepInv, <1>1, PTL DEF Spec

\* What x_launches and x_identities call claimed has been taken on the chain.
THEOREM RecordsFollowTheChain == Spec => []ClaimedMeansTaken
<1>1. IInv => ClaimedMeansTaken
  BY DEF IInv
<1> QED
  BY InitInv, StepInv, <1>1, PTL DEF Spec

\* Agen's key invites nobody but a wallet the signed-in account has named.
THEOREM AgenInvitesTheNamed == Spec => []InvitedWasNamed
<1>1. IInv => InvitedWasNamed
  BY DEF IInv
<1> QED
  BY InitInv, StepInv, <1>1, PTL DEF Spec

\* The seat changes hands by its occupant's own invitation, or after a proposal
\* that faced that occupant for the whole TIMELOCK (CreatorSeat.sol).
THEOREM SeatsChangeHandsByAgreement == Spec => HandoverIsAgreed
<1>1. IInv /\ [Next]_vars =>
        [beneficiary' # beneficiary =>
           \/ beneficiary' = offered /\ inviter = beneficiary
           \/ beneficiary' = proposed /\ stood = Timelock]_seat
  <2> SUFFICES ASSUME IInv, [Next]_vars, beneficiary' # beneficiary
               PROVE  \/ beneficiary' = offered /\ inviter = beneficiary
                      \/ beneficiary' = proposed /\ stood = Timelock
    OBVIOUS
  <2>1. ASSUME NEW c \in Calls, OfferStep(c)
        PROVE  FALSE
    BY <2>1 DEF OfferStep, Ask, Derived, ReadHolder, ReadOffer, AlreadyTaken, AlreadyOffered,
       RecordOffer, SendOffer, OfferMined, Offer, OfferReceipt, OfferThrows, seat, handover
  <2>2. ASSUME NEW s \in Collectors, CollectStep(s)
        PROVE  FALSE
    BY <2>2 DEF CollectStep, AskCollect, SeesClaimed, SeesAmount, SponsoredCollect, Collect,
       CollectThrows, seat, handover
  <2>3. ASSUME NEW v \in Vaults, Launch(v) \/ CreateWallet \/ UNCHANGED vars
        PROVE  FALSE
    BY <2>3 DEF Launch, CreateWallet, vars, seat, handover
  <2>4. CASE OnChain
    BY <2>4, Agreed DEF OnChain, ByOthers, IInv, TypeOK
  <2>5. ~CreateWallet /\ ~UNCHANGED vars
    BY DEF CreateWallet, vars, seat, handover
  <2> QED
    BY <2>1, <2>2, <2>3, <2>4, <2>5 DEF Next
<1> QED
  BY InitInv, StepInv, <1>1, PTL DEF Spec, HandoverIsAgreed

=============================================================================
