-------------------------------- MODULE Boost --------------------------------
(***************************************************************************)
(* Where the fees of an Instant market go, and the switch that decides it.  *)
(*                                                                          *)
(* Every trade is charged by InstantHook, which mints the fee as a claim to *)
(* the market's InstantFeeVault; the vault keeps two ledgers and pays each  *)
(* out to a fixed address.  Here the creator's is the BoostEscrow of one    *)
(* creator, shared by the creator's markets, and the platform's is, for     *)
(* the Captured markets, the BoostTreasury.  Either of the two decides at   *)
(* the moment ether arrives, from a flag of its own, whether it is          *)
(* committed to buybacks or belongs to its owner.                           *)
(*                                                                          *)
(* An action is one transaction; the calls it makes between the contracts   *)
(* are operators on the ledger it runs on: the market's books and the       *)
(* balances it shares with other markets.                                   *)
(***************************************************************************)
EXTENDS Integers, FiniteSetsExt

CONSTANTS Markets,       \* markets whose vault names this escrow as creator
          Captured,      \* those whose vault pays the BoostTreasury
          Codeless,      \* those whose vault pays a wallet; the rest pay some other contract
          TotalPpm, PlatformPpm, Denominator, \* InstantFees
          MinBoost,      \* MIN_BOOST_WEI
          Legs,          \* ether legs of the trades
          Gifts,         \* what contribute and stray transfers carry
          Refunds,       \* what a pool may leave of a buyback
          MaxInflows     \* bound: trades, contributions and strays

ASSUME BoostAssumption ==
  /\ Captured \subseteq Markets
  /\ Codeless \subseteq Markets \ Captured
  /\ TotalPpm \in Nat /\ PlatformPpm \in 0 .. TotalPpm
  /\ Denominator \in Nat \ {0} /\ TotalPpm <= Denominator
  /\ MinBoost \in Nat \ {0}
  /\ Legs \subseteq Nat /\ Gifts \subseteq Nat \ {0}
  /\ Refunds \subseteq Nat
  /\ MaxInflows \in Nat

\* The sums of Solvent are over all of them.
ASSUME MarketsAssumption == IsFiniteSet(Markets)

VARIABLES books,   \* per market: its vault, and its Market structs in escrow and treasury
          cash,    \* the escrow's and the treasury's balance, and what each calls unattributed
          inflows

vars == <<books, cash, inflows>>

Books ==
  [\* InstantFeeVault
   creatorAccrued : Nat, creatorClaimed : Nat,
   platformAccrued : Nat, platformClaimed : Nat,
   claims : Nat,
   \* BoostEscrow.Market
   enrolled : BOOLEAN, platformBoosted : BOOLEAN,
   boostEnabled : BOOLEAN, boostLocked : BOOLEAN,
   boostPending : Nat, creatorPending : Nat,
   platformRouted : Nat, agenContributed : Nat,
   boostSpent : Nat,
   cooling : BOOLEAN, \* lastBoostAt is less than BOOST_INTERVAL ago
   \* BoostTreasury.Market; platformPending is its boostPending
   registered : BOOLEAN, boosting : BOOLEAN,
   agenPending : Nat, platformPending : Nat, routedToBoost : Nat,
   \* history: the fees of trades made while Boost was on
   earnedOn : Nat]

\* Balances are Int here: that none is overdrawn is what Solvent says.
Balances == [escrow : Int, treasury : Int, escrowStray : Nat, treasuryStray : Nat]

TypeOK ==
  /\ books \in [Markets -> Books]
  /\ cash \in Balances
  /\ inflows \in 0 .. MaxInflows

NewBooks ==
  [creatorAccrued |-> 0, creatorClaimed |-> 0,
   platformAccrued |-> 0, platformClaimed |-> 0,
   claims |-> 0,
   enrolled |-> FALSE, platformBoosted |-> FALSE,
   boostEnabled |-> FALSE, boostLocked |-> FALSE,
   boostPending |-> 0, creatorPending |-> 0,
   platformRouted |-> 0, agenContributed |-> 0,
   boostSpent |-> 0, cooling |-> FALSE,
   registered |-> FALSE, boosting |-> FALSE,
   agenPending |-> 0, platformPending |-> 0, routedToBoost |-> 0,
   earnedOn |-> 0]

Init ==
  /\ books = [m \in Markets |-> NewBooks]
  /\ cash = [escrow |-> 0, treasury |-> 0, escrowStray |-> 0, treasuryStray |-> 0]
  /\ inflows = 0

\* What a transaction about market m runs on, and the end of one.
Ledger(m) == [b |-> books[m], c |-> cash]

Become(m, l) ==
  /\ books' = [books EXCEPT ![m] = l.b]
  /\ cash' = l.c

-----------------------------------------------------------------------------
(* The fee and the vault.                                                   *)

TotalOf(leg) == (leg * TotalPpm) \div Denominator

PlatformOf(leg) == (leg * PlatformPpm) \div Denominator

CreatorOf(leg) == TotalOf(leg) - PlatformOf(leg)

OwedCreator(b) == b.creatorAccrued - b.creatorClaimed

OwedPlatform(b) == b.platformAccrued - b.platformClaimed

\* What of a fee is Boost's.
OnShare(b, leg) ==
  IF ~b.boostEnabled THEN 0
  ELSE IF b.platformBoosted THEN TotalOf(leg) ELSE CreatorOf(leg)

\* InstantHook._collect: the fee is minted to the vault, the vault credited.
Collect(b, leg) ==
  [b EXCEPT !.claims = @ + TotalOf(leg),
            !.creatorAccrued = @ + CreatorOf(leg),
            !.platformAccrued = @ + PlatformOf(leg),
            !.earnedOn = @ + OnShare(b, leg)]

\* Ether between an account and a contract: what it brings, and what of it
\* cannot be attributed.
EscrowGets(c, w, stray) == [c EXCEPT !.escrow = @ + w, !.escrowStray = @ + stray]

TreasuryGets(c, w, stray) == [c EXCEPT !.treasury = @ + w, !.treasuryStray = @ + stray]

\* BoostEscrow.receive, from a vault.
EscrowBooks(b, w) ==
  IF ~b.enrolled THEN b
  ELSE IF b.boostEnabled THEN [b EXCEPT !.boostPending = @ + w]
  ELSE [b EXCEPT !.creatorPending = @ + w]

\* BoostTreasury.receive.
TreasuryBooks(b, w) ==
  IF ~b.registered THEN b
  ELSE IF b.boosting THEN [b EXCEPT !.platformPending = @ + w]
  ELSE [b EXCEPT !.agenPending = @ + w]

ForgetCreator(b) ==
  [b EXCEPT !.creatorClaimed = b.creatorAccrued, !.claims = @ - OwedCreator(b)]

ForgetPlatform(b) ==
  [b EXCEPT !.platformClaimed = b.platformAccrued, !.claims = @ - OwedPlatform(b)]

\* InstantFeeVault.claimCreator: the claims are redeemed for ether and paid out.
ClaimCreator(l) ==
  LET w == OwedCreator(l.b) IN
  [b |-> EscrowBooks(ForgetCreator(l.b), w),
   c |-> EscrowGets(l.c, w, IF l.b.enrolled THEN 0 ELSE w)]

\* claimPlatform: to the BoostTreasury, or to whatever else the vault names.
ClaimPlatform(m, l) ==
  LET w == OwedPlatform(l.b) IN
  IF m \in Captured
  THEN [b |-> TreasuryBooks(ForgetPlatform(l.b), w),
        c |-> TreasuryGets(l.c, w, IF l.b.registered THEN 0 ELSE w)]
  ELSE [b |-> ForgetPlatform(l.b), c |-> l.c]

-----------------------------------------------------------------------------
(* The internal functions of the two contracts.                             *)

\* _ensureRegistered.
EnsureRegistered(l) == [b |-> [l.b EXCEPT !.registered = TRUE], c |-> l.c]

\* register is called in a try, which catches a revert but not the empty answer
\* of an address without code: its result cannot be decoded, and the whole
\* transaction reverts.  Such a market is never enrolled.
Enrollable(m) == m \notin Codeless

\* _ensureEnrolled: a contract that is no BoostTreasury refuses register.
EnsureEnrolled(m, l) ==
  IF l.b.enrolled THEN l
  ELSE IF m \in Captured
  THEN [b |-> [l.b EXCEPT !.enrolled = TRUE, !.platformBoosted = TRUE, !.registered = TRUE],
        c |-> l.c]
  ELSE [b |-> [l.b EXCEPT !.enrolled = TRUE], c |-> l.c]

\* BoostEscrow._settle.
SettleCreator(l) == IF OwedCreator(l.b) = 0 THEN l ELSE ClaimCreator(l)

\* _settlePlatform, through BoostTreasury.settle.
SettlePlatform(m, l) ==
  IF ~l.b.platformBoosted \/ OwedPlatform(l.b) = 0 THEN l ELSE ClaimPlatform(m, l)

\* BoostTreasury.pullForBoost, which pays receivePlatformFee.
Routed(b) ==
  LET w == b.platformPending IN
  [b EXCEPT !.platformPending = 0, !.routedToBoost = @ + w,
            !.platformRouted = @ + w, !.boostPending = @ + w]

\* _pullPlatform.
PullPlatform(l) ==
  LET w == l.b.platformPending IN
  IF ~l.b.platformBoosted \/ w = 0 THEN l
  ELSE [b |-> Routed(l.b), c |-> EscrowGets(TreasuryGets(l.c, -w, 0), w, 0)]

\* _setPlatformBoost, through BoostTreasury.setBoost.
SetPlatformBoost(b, boosting) ==
  IF b.platformBoosted THEN [b EXCEPT !.boosting = boosting] ELSE b

\* Both streams, to the side the switch is on.
SettleBoth(m, l) == SettlePlatform(m, SettleCreator(l))

\* The flag after the settlements, and the treasury's copy after the flag.
Switch(m, l, boost) ==
  LET settled == SettleBoth(m, l) IN
  [b |-> SetPlatformBoost([settled.b EXCEPT !.boostEnabled = boost], boost),
   c |-> settled.c]

-----------------------------------------------------------------------------
(* Anybody.                                                                 *)

\* One more payment from outside.
Inflow == inflows < MaxInflows /\ inflows' = inflows + 1

\* A swap, charged on its ether leg.
Trade(m, leg) ==
  /\ Inflow
  /\ Become(m, [b |-> Collect(books[m], leg), c |-> cash])

\* vault.claimCreator(), by anybody and at any time.
DirectClaimCreator(m) ==
  /\ OwedCreator(books[m]) > 0
  /\ Become(m, ClaimCreator(Ledger(m)))
  /\ UNCHANGED inflows

\* vault.claimPlatform().
DirectClaimPlatform(m) ==
  /\ OwedPlatform(books[m]) > 0
  /\ Become(m, ClaimPlatform(m, Ledger(m)))
  /\ UNCHANGED inflows

\* treasury.register(vault).
Register(m) ==
  /\ m \in Captured
  /\ Become(m, EnsureRegistered(Ledger(m)))
  /\ UNCHANGED inflows

\* treasury.settle(vault).
TreasurySettle(m) ==
  /\ m \in Captured
  /\ LET l == EnsureRegistered(Ledger(m)) IN
     Become(m, IF OwedPlatform(l.b) = 0 THEN l ELSE ClaimPlatform(m, l))
  /\ UNCHANGED inflows

\* escrow.enroll(token).
Enroll(m) ==
  /\ Enrollable(m)
  /\ Become(m, EnsureEnrolled(m, Ledger(m)))
  /\ UNCHANGED inflows

\* escrow.settle(token).
Settle(m) ==
  /\ Enrollable(m)
  /\ Become(m, SettleCreator(EnsureEnrolled(m, Ledger(m))))
  /\ UNCHANGED inflows

\* escrow.contribute(token).
Contribute(m, w) ==
  /\ Enrollable(m)
  /\ Inflow
  /\ LET l == EnsureEnrolled(m, Ledger(m)) IN
     Become(m, [b |-> [l.b EXCEPT !.boostPending = @ + w, !.agenContributed = @ + w],
                c |-> EscrowGets(l.c, w, 0)])

\* A transfer from an address that is no vault.
Stray(w) ==
  /\ Inflow
  /\ \/ cash' = EscrowGets(cash, w, w)
     \/ cash' = TreasuryGets(cash, w, w)
  /\ UNCHANGED books

\* A bug to catch: the owner is paid and the books are not told.
PaidOwnerKept(l) == [b |-> l.b, c |-> EscrowGets(l.c, -l.b.creatorPending, 0)]

PaidOwner(l) ==
  [b |-> [l.b EXCEPT !.creatorPending = 0],
   c |-> EscrowGets(l.c, -l.b.creatorPending, 0)]

\* escrow.withdraw(token).
Withdraw(m) ==
  /\ books[m].enrolled /\ books[m].creatorPending > 0
  /\ Become(m, PaidOwner(Ledger(m)))
  /\ UNCHANGED inflows

\* escrow.pull(token): a settle, and a withdrawal of what it leaves.
Pull(m) ==
  /\ Enrollable(m)
  /\ Become(m, PaidOwner(SettleCreator(EnsureEnrolled(m, Ledger(m)))))
  /\ UNCHANGED inflows

\* treasury.withdrawAgen(vault).
WithdrawAgen(m) ==
  /\ books[m].agenPending > 0
  /\ Become(m, [b |-> [books[m] EXCEPT !.agenPending = 0],
                c |-> TreasuryGets(cash, -books[m].agenPending, 0)])
  /\ UNCHANGED inflows

\* sweepUnattributed, of either contract.
Sweep ==
  /\ \/ /\ cash.escrowStray > 0
        /\ cash' = EscrowGets(cash, -cash.escrowStray, -cash.escrowStray)
     \/ /\ cash.treasuryStray > 0
        /\ cash' = TreasuryGets(cash, -cash.treasuryStray, -cash.treasuryStray)
  /\ UNCHANGED <<books, inflows>>

-----------------------------------------------------------------------------
(* The buyback.                                                             *)

\* _commit: everything either stream holds is brought in first.
Gathered(m) ==
  PullPlatform(SettleBoth(m, EnsureEnrolled(m, Ledger(m))))

\* _swap: the whole commitment is offered, the hook takes its fee of all of it,
\* and what the pool could not absorb comes back to the commitment.
Swapped(l, refund) ==
  LET amountIn == l.b.boostPending
      spent == amountIn - refund
  IN  [b |-> Collect([l.b EXCEPT !.boostPending = refund, !.boostSpent = @ + spent,
                                 !.cooling = TRUE], amountIn),
       c |-> EscrowGets(l.c, -spent, 0)]

\* escrow.boost(token, minTokensOut).
Boost(m, refund) ==
  LET l == Gathered(m) IN
  /\ Enrollable(m)
  /\ ~books[m].cooling
  /\ l.b.boostPending >= MinBoost
  /\ refund + TotalOf(l.b.boostPending) < l.b.boostPending
  /\ Become(m, Swapped(l, refund))
  /\ UNCHANGED inflows

-----------------------------------------------------------------------------
(* The owner's switch.                                                      *)

\* A bug to catch: the flag is set before the streams are settled.
EnableFirst(m) ==
  LET l == EnsureEnrolled(m, Ledger(m)) IN
  /\ Enrollable(m)
  /\ ~l.b.boostEnabled
  /\ Become(m, SettleBoth(m, [b |-> SetPlatformBoost([l.b EXCEPT !.boostEnabled = TRUE], TRUE),
                              c |-> l.c]))
  /\ UNCHANGED inflows

\* enableBoost.
Enable(m) ==
  LET l == EnsureEnrolled(m, Ledger(m)) IN
  /\ Enrollable(m)
  /\ ~l.b.boostEnabled
  /\ Become(m, Switch(m, l, TRUE))
  /\ UNCHANGED inflows

\* A bug to catch: the treasury is not told.
DisableUntold(m) ==
  /\ books[m].boostEnabled /\ ~books[m].boostLocked
  /\ LET l == SettleBoth(m, Ledger(m)) IN
     Become(m, [b |-> [l.b EXCEPT !.boostEnabled = FALSE], c |-> l.c])
  /\ UNCHANGED inflows

\* A bug to catch: a locked market is switched off.
DisableLocked(m) ==
  /\ books[m].boostEnabled
  /\ Become(m, Switch(m, Ledger(m), FALSE))
  /\ UNCHANGED inflows

\* disableBoost.
Disable(m) ==
  /\ books[m].boostEnabled /\ ~books[m].boostLocked
  /\ Become(m, Switch(m, Ledger(m), FALSE))
  /\ UNCHANGED inflows

\* lockBoostForever.
Lock(m) ==
  /\ books[m].boostEnabled /\ ~books[m].boostLocked
  /\ books' = [books EXCEPT ![m].boostLocked = TRUE]
  /\ UNCHANGED <<cash, inflows>>

\* BOOST_INTERVAL after a buyback.
CoolDown(m) ==
  /\ books[m].cooling
  /\ books' = [books EXCEPT ![m].cooling = FALSE]
  /\ UNCHANGED <<cash, inflows>>

Next ==
  \/ \E m \in Markets :
       \/ \E leg \in Legs : Trade(m, leg)
       \/ DirectClaimCreator(m) \/ DirectClaimPlatform(m)
       \/ Register(m) \/ TreasurySettle(m) \/ Enroll(m) \/ Settle(m)
       \/ \E w \in Gifts : Contribute(m, w)
       \/ Withdraw(m) \/ Pull(m) \/ WithdrawAgen(m)
       \/ \E refund \in Refunds : Boost(m, refund)
       \/ Enable(m) \/ Disable(m) \/ Lock(m) \/ CoolDown(m)
  \/ \E w \in Gifts : Stray(w)
  \/ Sweep

Spec == Init /\ [][Next]_vars

-----------------------------------------------------------------------------
(* Properties.                                                              *)

\* Wei that only a buyback of the market may spend, wherever it is.
Committed(b) ==
  b.boostPending + b.platformPending
    + (IF b.boostEnabled THEN OwedCreator(b) ELSE 0)
    + (IF b.boostEnabled /\ b.platformBoosted THEN OwedPlatform(b) ELSE 0)

\* Wei of the creator, and of the platform where its share is captured.
Theirs(m, b) ==
  b.creatorPending + b.agenPending
    + (IF b.boostEnabled THEN 0 ELSE OwedCreator(b))
    + (IF b.boostEnabled \/ m \notin Captured THEN 0 ELSE OwedPlatform(b))

\* What each contract owes for a market.
EscrowOwes == [m \in Markets |-> books[m].boostPending + books[m].creatorPending]

TreasuryOwes == [m \in Markets |-> books[m].platformPending + books[m].agenPending]

\* Both contracts hold to the wei what their books of all markets say, and
\* each vault the claims for what it owes: no withdrawal, sweep or buyback of
\* one market can leave another's short.
Solvent ==
  /\ cash.escrow = cash.escrowStray + MapThenSumSet(LAMBDA m : EscrowOwes[m], Markets)
  /\ cash.treasury = cash.treasuryStray + MapThenSumSet(LAMBDA m : TreasuryOwes[m], Markets)
  /\ \A m \in Markets :
       books[m].claims = OwedCreator(books[m]) + OwedPlatform(books[m])

\* The cutoff is exact: what has been spent on buybacks or is committed to
\* them is what was earned while Boost was on and what was contributed, however
\* claims by strangers fall between the trades and the switches.
CutoffExact == \A m \in Markets :
  Committed(books[m]) + books[m].boostSpent = books[m].earnedOn + books[m].agenContributed

\* The treasury's copy of the switch is the escrow's, and what one has routed
\* the other has received.
MirrorInStep == \A m \in Markets :
  /\ books[m].boosting = (books[m].boostEnabled /\ m \in Captured)
  /\ books[m].platformRouted = books[m].routedToBoost

\* The three contracts keep the promise of BoostPromise: a toggle moves no
\* wei, committed wei leaves by a buyback, a locked switch stays on.
Promise == INSTANCE BoostPromise WITH
  on <- [m \in Markets |-> books[m].boostEnabled],
  locked <- [m \in Markets |-> books[m].boostLocked],
  committed <- [m \in Markets |-> Committed(books[m])],
  theirs <- [m \in Markets |-> Theirs(m, books[m])]

KeepsPromise == Promise!Spec

=============================================================================
