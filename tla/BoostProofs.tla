---------------------------- MODULE BoostProofs -----------------------------
(***************************************************************************)
(* For every set of markets, every fee and every sequence of transactions:  *)
(* the cutoff is exact, the treasury's copy of the switch is the escrow's,  *)
(* both contracts hold what they owe to the wei, and the three contracts    *)
(* keep the promise of BoostPromise.                                        *)
(*                                                                          *)
(* A transaction is a composition of calls.  Each call has a lemma: what it *)
(* does to a ledger whose books are in order, and that they still are.      *)
(***************************************************************************)
EXTENDS Boost, SumLemmas, TLAPS

USE BoostAssumption

Ledgers == [b : Books, c : Balances]

\* The vault's part of the books.
VaultOK(b) ==
  /\ b.creatorClaimed <= b.creatorAccrued
  /\ b.platformClaimed <= b.platformAccrued
  /\ b.claims = OwedCreator(b) + OwedPlatform(b)

\* Who is enrolled and registered, and what that allows.
SeatsOK(m, b) ==
  /\ b.platformBoosted = (b.enrolled /\ m \in Captured)
  /\ b.platformBoosted => b.registered
  /\ b.boostEnabled => b.enrolled
  /\ b.boostLocked => b.boostEnabled

MirrorOK(m, b) ==
  /\ b.boosting = (b.boostEnabled /\ m \in Captured)
  /\ b.platformRouted = b.routedToBoost

CutoffOK(b) == Committed(b) + b.boostSpent = b.earnedOn + b.agenContributed

BooksOK(m, b) == VaultOK(b) /\ SeatsOK(m, b) /\ MirrorOK(m, b) /\ CutoffOK(b)

IInv == TypeOK /\ \A m \in Markets : BooksOK(m, books[m])

\* Calls that move wei from one pocket to another of the same owner.
SamePockets(m, b, c) ==
  /\ c.boostEnabled = b.boostEnabled /\ c.boostLocked = b.boostLocked
  /\ Committed(c) = Committed(b)
  /\ Theirs(m, c) = Theirs(m, b)

\* Both shares of a fee are natural numbers.
LEMMA SplitNat ==
  ASSUME NEW leg \in Nat
  PROVE  TotalOf(leg) \in Nat /\ PlatformOf(leg) \in Nat /\ CreatorOf(leg) \in Nat
<1> DEFINE p == leg * PlatformPpm
           t == leg * TotalPpm
<1>1. p \in Nat /\ t \in Nat
  OBVIOUS
<1>2. leg * (TotalPpm - PlatformPpm) >= 0
  OBVIOUS
<1>3. p <= t
  BY <1>2
<1> HIDE DEF p, t
<1>4. ASSUME NEW x \in Nat, NEW y \in Nat, x <= y
      PROVE  x \div Denominator <= y \div Denominator
  BY <1>4
<1>5. ASSUME NEW x \in Nat
      PROVE  x \div Denominator \in Nat
  BY <1>5
<1> QED
  BY <1>1, <1>3, <1>4, <1>5 DEF TotalOf, PlatformOf, CreatorOf, p, t

\* A fee goes to the side the switch is on.
LEMMA CollectOK ==
  ASSUME NEW m \in Markets, NEW b \in Books, BooksOK(m, b), NEW leg \in Nat
  PROVE  /\ Collect(b, leg) \in Books
         /\ BooksOK(m, Collect(b, leg))
<1> DEFINE k == Collect(b, leg)
<1>1. /\ TotalOf(leg) \in Nat /\ PlatformOf(leg) \in Nat
      /\ CreatorOf(leg) = TotalOf(leg) - PlatformOf(leg)
      /\ CreatorOf(leg) \in Nat
  BY SplitNat DEF CreatorOf
<1>2. OnShare(b, leg) \in Nat
  BY <1>1 DEF OnShare, Books
<1>3. k \in Books
  <2> DEFINE t == b.claims + TotalOf(leg)
             c == b.creatorAccrued + CreatorOf(leg)
             p == b.platformAccrued + PlatformOf(leg)
             o == b.earnedOn + OnShare(b, leg)
  <2>1. t \in Nat /\ c \in Nat /\ p \in Nat /\ o \in Nat
    BY <1>1, <1>2 DEF Books
  <2>2. k = [b EXCEPT !.claims = t, !.creatorAccrued = c,
                      !.platformAccrued = p, !.earnedOn = o]
    BY DEF Collect
  <2> HIDE DEF t, c, p, o, k
  <2> QED
    BY <2>1, <2>2 DEF Books
<1>4. VaultOK(k)
  BY <1>1 DEF Collect, Books, BooksOK, VaultOK, OwedCreator, OwedPlatform
<1>5. SeatsOK(m, k) /\ MirrorOK(m, k)
  BY DEF Collect, Books, BooksOK, SeatsOK, MirrorOK
<1>6. CutoffOK(k)
  BY <1>1 DEF Collect, OnShare, Books, BooksOK, CutoffOK, Committed, OwedCreator, OwedPlatform
<1> QED
  BY <1>3, <1>4, <1>5, <1>6 DEF BooksOK

\* The two pockets hold natural numbers.
LEMMA PocketsNat ==
  ASSUME NEW m \in Markets, NEW b \in Books, VaultOK(b)
  PROVE  /\ OwedCreator(b) \in Nat /\ OwedPlatform(b) \in Nat
         /\ Committed(b) \in Nat /\ Theirs(m, b) \in Nat
<1>1. OwedCreator(b) \in Nat /\ OwedPlatform(b) \in Nat
  BY DEF Books, VaultOK, OwedCreator, OwedPlatform
<1>2. Committed(b) \in Nat
  BY <1>1 DEF Books, Committed
<1>3. Theirs(m, b) \in Nat
  BY <1>1 DEF Books, Theirs
<1> QED
  BY <1>1, <1>2, <1>3

-----------------------------------------------------------------------------
(* The calls.                                                               *)

CreatorPaid(b) == EscrowBooks(ForgetCreator(b), OwedCreator(b))

PlatformPaid(b) == TreasuryBooks(ForgetPlatform(b), OwedPlatform(b))

\* The fields of an enrolment, and the two flags.
SameSeats(b, c) ==
  /\ c.enrolled = b.enrolled /\ c.registered = b.registered
  /\ c.platformBoosted = b.platformBoosted
  /\ c.boostEnabled = b.boostEnabled /\ c.boostLocked = b.boostLocked
  /\ c.cooling = b.cooling

\* claimCreator settles with the escrow; before the enrolment it pays the owner.
LEMMA CreatorPaidOK ==
  ASSUME NEW m \in Markets, NEW b \in Books, BooksOK(m, b)
  PROVE  /\ CreatorPaid(b) \in Books
         /\ BooksOK(m, CreatorPaid(b))
         /\ SameSeats(b, CreatorPaid(b))
         /\ OwedCreator(CreatorPaid(b)) = 0
         /\ OwedPlatform(CreatorPaid(b)) = OwedPlatform(b)
         /\ Committed(CreatorPaid(b)) = Committed(b)
         /\ Theirs(m, CreatorPaid(b)) =
              IF b.enrolled THEN Theirs(m, b) ELSE Theirs(m, b) - OwedCreator(b)
<1> DEFINE w == OwedCreator(b)
           f == ForgetCreator(b)
           k == CreatorPaid(b)
           rest == b.claims - w
<1>1. w \in Nat /\ rest = OwedPlatform(b) /\ rest \in Nat
  BY PocketsNat DEF BooksOK, VaultOK, Books, OwedPlatform, OwedCreator
<1>2. f = [b EXCEPT !.creatorClaimed = b.creatorAccrued, !.claims = rest]
  BY DEF ForgetCreator
<1>3. f \in Books
  <2> HIDE DEF rest, f, w
  <2> QED
    BY <1>1, <1>2 DEF Books
<1> HIDE DEF f
<1>4. k = IF ~f.enrolled THEN f
          ELSE IF f.boostEnabled THEN [f EXCEPT !.boostPending = f.boostPending + w]
          ELSE [f EXCEPT !.creatorPending = f.creatorPending + w]
  BY DEF EscrowBooks, CreatorPaid, f
<1> HIDE DEF w, rest, k
<1>5. k \in Books
  BY <1>1, <1>3, <1>4 DEF Books
<1>6. OwedCreator(k) = 0 /\ OwedPlatform(k) = OwedPlatform(b) /\ SameSeats(b, k)
  BY <1>1, <1>2, <1>3, <1>4 DEF Books, OwedCreator, OwedPlatform, SameSeats
<1>7. VaultOK(k)
  BY <1>1, <1>2, <1>3, <1>4, <1>6 DEF BooksOK, VaultOK, Books
<1>8. SeatsOK(m, k) /\ MirrorOK(m, k)
  BY <1>2, <1>3, <1>4 DEF BooksOK, SeatsOK, MirrorOK, Books
<1>9. Committed(k) = Committed(b)
  BY <1>1, <1>2, <1>3, <1>4, <1>6 DEF BooksOK, SeatsOK, Books, Committed, w, SameSeats
<1>10. CutoffOK(k)
  BY <1>2, <1>3, <1>4, <1>9 DEF BooksOK, CutoffOK, Books
<1>11. Theirs(m, k) = IF b.enrolled THEN Theirs(m, b) ELSE Theirs(m, b) - OwedCreator(b)
  BY <1>1, <1>2, <1>3, <1>4, <1>6 DEF BooksOK, SeatsOK, Books, Theirs, w, SameSeats
<1> QED
  BY <1>5, <1>6, <1>7, <1>8, <1>9, <1>10, <1>11 DEF BooksOK, k

\* claimPlatform with a BoostTreasury, as claimCreator with the escrow.
LEMMA PlatformPaidOK ==
  ASSUME NEW m \in Markets, NEW b \in Books, BooksOK(m, b), m \in Captured
  PROVE  /\ PlatformPaid(b) \in Books
         /\ BooksOK(m, PlatformPaid(b))
         /\ SameSeats(b, PlatformPaid(b))
         /\ OwedPlatform(PlatformPaid(b)) = 0
         /\ OwedCreator(PlatformPaid(b)) = OwedCreator(b)
         /\ Committed(PlatformPaid(b)) = Committed(b)
         /\ Theirs(m, PlatformPaid(b)) =
              IF b.registered THEN Theirs(m, b) ELSE Theirs(m, b) - OwedPlatform(b)
<1> DEFINE w == OwedPlatform(b)
           f == ForgetPlatform(b)
           k == PlatformPaid(b)
           rest == b.claims - w
<1>1. w \in Nat /\ rest = OwedCreator(b) /\ rest \in Nat
  BY PocketsNat DEF BooksOK, VaultOK, Books, OwedPlatform, OwedCreator
<1>2. f = [b EXCEPT !.platformClaimed = b.platformAccrued, !.claims = rest]
  BY DEF ForgetPlatform
<1>3. f \in Books
  <2> HIDE DEF rest, f, w
  <2> QED
    BY <1>1, <1>2 DEF Books
<1> HIDE DEF f
<1>4. k = IF ~f.registered THEN f
          ELSE IF f.boosting THEN [f EXCEPT !.platformPending = f.platformPending + w]
          ELSE [f EXCEPT !.agenPending = f.agenPending + w]
  BY DEF TreasuryBooks, PlatformPaid, f
<1> HIDE DEF w, rest, k
<1>5. k \in Books
  BY <1>1, <1>3, <1>4 DEF Books
<1>6. OwedPlatform(k) = 0 /\ OwedCreator(k) = OwedCreator(b) /\ SameSeats(b, k)
  BY <1>1, <1>2, <1>3, <1>4 DEF Books, OwedCreator, OwedPlatform, SameSeats
<1>7. VaultOK(k)
  BY <1>1, <1>2, <1>3, <1>4, <1>6 DEF BooksOK, VaultOK, Books
<1>8. SeatsOK(m, k) /\ MirrorOK(m, k)
  BY <1>2, <1>3, <1>4 DEF BooksOK, SeatsOK, MirrorOK, Books
<1>9. Committed(k) = Committed(b)
  BY <1>1, <1>2, <1>3, <1>4, <1>6 DEF BooksOK, SeatsOK, MirrorOK, Books, Committed, w, SameSeats
<1>10. CutoffOK(k)
  BY <1>2, <1>3, <1>4, <1>9 DEF BooksOK, CutoffOK, Books
<1>11. Theirs(m, k) = IF b.registered THEN Theirs(m, b) ELSE Theirs(m, b) - OwedPlatform(b)
  BY <1>1, <1>2, <1>3, <1>4, <1>6 DEF BooksOK, SeatsOK, MirrorOK, Books, Theirs, w, SameSeats
<1> QED
  BY <1>5, <1>6, <1>7, <1>8, <1>9, <1>10, <1>11 DEF BooksOK, k

\* A platform share that goes to a wallet was never in either pocket.
LEMMA WalletPaidOK ==
  ASSUME NEW m \in Markets, NEW b \in Books, BooksOK(m, b), m \notin Captured
  PROVE  /\ ForgetPlatform(b) \in Books
         /\ BooksOK(m, ForgetPlatform(b))
         /\ SamePockets(m, b, ForgetPlatform(b))
<1> DEFINE k == ForgetPlatform(b)
           rest == b.claims - OwedPlatform(b)
<1>1. rest = OwedCreator(b) /\ rest \in Nat
  BY PocketsNat DEF BooksOK, VaultOK, Books, OwedPlatform, OwedCreator
<1>2. k = [b EXCEPT !.platformClaimed = b.platformAccrued, !.claims = rest]
  BY DEF ForgetPlatform
<1> HIDE DEF rest, k
<1>3. k \in Books
  BY <1>1, <1>2 DEF Books
<1>4. VaultOK(k)
  BY <1>1, <1>2, <1>3 DEF BooksOK, VaultOK, Books, OwedCreator, OwedPlatform
<1>5. SeatsOK(m, k) /\ MirrorOK(m, k)
  BY <1>2 DEF BooksOK, SeatsOK, MirrorOK, Books
<1>6. SamePockets(m, b, k)
  BY <1>2 DEF BooksOK, SeatsOK, Books, SamePockets, Committed, Theirs, OwedCreator
<1>7. CutoffOK(k)
  BY <1>2, <1>6 DEF BooksOK, CutoffOK, Books, SamePockets
<1> QED
  BY <1>3, <1>4, <1>5, <1>6, <1>7 DEF BooksOK, k

\* pullForBoost and receivePlatformFee: committed before and after.
LEMMA RoutedOK ==
  ASSUME NEW m \in Markets, NEW b \in Books, BooksOK(m, b)
  PROVE  /\ Routed(b) \in Books
         /\ BooksOK(m, Routed(b))
         /\ SamePockets(m, b, Routed(b))
         /\ SameSeats(b, Routed(b))
<1> DEFINE w == b.platformPending
           k == Routed(b)
           r == b.routedToBoost + w
           s == b.platformRouted + w
           t == b.boostPending + w
<1>1. w \in Nat /\ r \in Nat /\ s \in Nat /\ t \in Nat /\ r = s
  BY DEF Books, BooksOK, MirrorOK
<1>2. k = [b EXCEPT !.platformPending = 0, !.routedToBoost = r,
                    !.platformRouted = s, !.boostPending = t]
  BY DEF Routed
<1>3. t = b.boostPending + b.platformPending
  OBVIOUS
<1> HIDE DEF w, k, r, s, t
<1>4. k \in Books
  BY <1>1, <1>2 DEF Books
<1>5. VaultOK(k)
  BY <1>2 DEF BooksOK, VaultOK, Books, OwedCreator, OwedPlatform
<1>6. SeatsOK(m, k) /\ MirrorOK(m, k) /\ SameSeats(b, k)
  BY <1>1, <1>2 DEF BooksOK, SeatsOK, MirrorOK, Books, SameSeats
<1>7. SamePockets(m, b, k)
  BY <1>1, <1>2, <1>3 DEF Books, SamePockets, Committed, Theirs, OwedCreator, OwedPlatform
<1>8. CutoffOK(k)
  BY <1>2, <1>7 DEF BooksOK, CutoffOK, Books, SamePockets
<1> QED
  BY <1>4, <1>5, <1>6, <1>7, <1>8 DEF BooksOK, k

\* Enrolling and registering move nothing.
LEMMA EnrolOK ==
  ASSUME NEW m \in Markets, NEW l \in Ledgers, BooksOK(m, l.b)
  PROVE  /\ EnsureEnrolled(m, l) \in Ledgers
         /\ BooksOK(m, EnsureEnrolled(m, l).b)
         /\ SamePockets(m, l.b, EnsureEnrolled(m, l).b)
         /\ EnsureEnrolled(m, l).b.enrolled
         /\ EnsureEnrolled(m, l).b.cooling = l.b.cooling
<1> DEFINE k == EnsureEnrolled(m, l)
<1>1. l.b \in Books /\ l.c \in Balances
  BY DEF Ledgers
<1>2. k = IF l.b.enrolled THEN l
          ELSE IF m \in Captured
          THEN [b |-> [l.b EXCEPT !.enrolled = TRUE, !.platformBoosted = TRUE, !.registered = TRUE],
                c |-> l.c]
          ELSE [b |-> [l.b EXCEPT !.enrolled = TRUE], c |-> l.c]
  BY DEF EnsureEnrolled
<1> HIDE DEF k
<1>3. CASE l.b.enrolled
  BY <1>2, <1>3 DEF SamePockets, k
<1>4. CASE ~l.b.enrolled
  <2>1. ~l.b.boostEnabled /\ ~l.b.platformBoosted
    BY <1>1, <1>4 DEF BooksOK, SeatsOK, Books
  <2>2. k \in Ledgers /\ k.b.enrolled
    BY <1>1, <1>2, <1>4 DEF Ledgers, Books
  <2>3. BooksOK(m, k.b)
    <3>1. VaultOK(k.b)
      BY <1>1, <1>2, <1>4 DEF BooksOK, VaultOK, Books, OwedCreator, OwedPlatform
    <3>2. SeatsOK(m, k.b) /\ MirrorOK(m, k.b)
      BY <1>1, <1>2, <1>4, <2>1 DEF BooksOK, SeatsOK, MirrorOK, Books
    <3>3. CutoffOK(k.b)
      BY <1>1, <1>2, <1>4, <2>1 DEF BooksOK, CutoffOK, Books, Committed
    <3> QED
      BY <3>1, <3>2, <3>3 DEF BooksOK
  <2>4. SamePockets(m, l.b, k.b)
    BY <1>1, <1>2, <1>4, <2>1
    DEF SamePockets, Books, Committed, Theirs, OwedCreator, OwedPlatform
  <2>5. k.b.cooling = l.b.cooling
    BY <1>1, <1>2, <1>4 DEF Books
  <2> QED
    BY <2>2, <2>3, <2>4, <2>5 DEF k
<1> QED
  BY <1>3, <1>4

\* Registering sets one flag.
LEMMA RegisterOK ==
  ASSUME NEW m \in Captured, NEW l \in Ledgers, BooksOK(m, l.b)
  PROVE  /\ EnsureRegistered(l) \in Ledgers
         /\ BooksOK(m, EnsureRegistered(l).b)
         /\ SamePockets(m, l.b, EnsureRegistered(l).b)
         /\ EnsureRegistered(l).b.registered
<1> DEFINE b == l.b
           k == [b EXCEPT !.registered = TRUE]
<1>1. b \in Books /\ l.c \in Balances
  BY DEF Ledgers
<1>2. EnsureRegistered(l) = [b |-> k, c |-> l.c]
  BY DEF EnsureRegistered
<1> HIDE DEF b
<1>3. k \in Books /\ k.registered
  BY <1>1 DEF Books
<1>4. VaultOK(k) /\ SeatsOK(m, k) /\ MirrorOK(m, k) /\ CutoffOK(k)
  BY <1>1 DEF BooksOK, VaultOK, SeatsOK, MirrorOK, CutoffOK, Committed, Books,
              OwedCreator, OwedPlatform, b
<1>5. SamePockets(m, b, k)
  BY <1>1 DEF SamePockets, Books, Committed, Theirs, OwedCreator, OwedPlatform
<1> HIDE DEF k
<1>6. EnsureRegistered(l) \in Ledgers /\ EnsureRegistered(l).b = k
  BY <1>1, <1>2, <1>3 DEF Ledgers
<1> QED
  BY <1>3, <1>4, <1>5, <1>6 DEF BooksOK, b

\* What a contract receives changes its balance by integers.
LEMMA GetsOK ==
  ASSUME NEW c \in Balances, NEW w \in Int, NEW s \in Nat
  PROVE  EscrowGets(c, w, s) \in Balances /\ TreasuryGets(c, w, s) \in Balances
<1>1. EscrowGets(c, w, s) \in Balances
  <2> DEFINE x == c.escrow + w
             y == c.escrowStray + s
  <2>1. x \in Int /\ y \in Nat
    BY DEF Balances
  <2>2. EscrowGets(c, w, s) = [c EXCEPT !.escrow = x, !.escrowStray = y]
    BY DEF EscrowGets
  <2> HIDE DEF x, y
  <2> QED
    BY <2>1, <2>2 DEF Balances
<1>2. TreasuryGets(c, w, s) \in Balances
  <2> DEFINE x == c.treasury + w
             y == c.treasuryStray + s
  <2>1. x \in Int /\ y \in Nat
    BY DEF Balances
  <2>2. TreasuryGets(c, w, s) = [c EXCEPT !.treasury = x, !.treasuryStray = y]
    BY DEF TreasuryGets
  <2> HIDE DEF x, y
  <2> QED
    BY <2>1, <2>2 DEF Balances
<1> QED
  BY <1>1, <1>2

LEMMA SettleCreatorOK ==
  ASSUME NEW m \in Markets, NEW l \in Ledgers, BooksOK(m, l.b), l.b.enrolled
  PROVE  LET k == SettleCreator(l) IN
         /\ k \in Ledgers /\ BooksOK(m, k.b)
         /\ SamePockets(m, l.b, k.b) /\ SameSeats(l.b, k.b)
         /\ OwedCreator(k.b) = 0
<1> DEFINE k == SettleCreator(l)
<1>1. l.b \in Books /\ l.c \in Balances
  BY DEF Ledgers
<1>2. CASE OwedCreator(l.b) = 0
  BY <1>2 DEF SettleCreator, SamePockets, SameSeats
<1>3. CASE OwedCreator(l.b) # 0
  <2>1. k = [b |-> CreatorPaid(l.b), c |-> EscrowGets(l.c, OwedCreator(l.b), 0)]
    BY <1>3 DEF SettleCreator, ClaimCreator, CreatorPaid
  <2>2. OwedCreator(l.b) \in Nat
    BY <1>1, PocketsNat DEF BooksOK
  <2>3. EscrowGets(l.c, OwedCreator(l.b), 0) \in Balances
    BY <1>1, <2>2, GetsOK
  <2>4. CreatorPaid(l.b) \in Books /\ BooksOK(m, CreatorPaid(l.b))
        /\ SameSeats(l.b, CreatorPaid(l.b)) /\ OwedCreator(CreatorPaid(l.b)) = 0
        /\ SamePockets(m, l.b, CreatorPaid(l.b))
    BY <1>1, CreatorPaidOK DEF SamePockets, SameSeats
  <2> HIDE DEF k
  <2>5. k \in Ledgers /\ k.b = CreatorPaid(l.b)
    BY <2>1, <2>3, <2>4 DEF Ledgers
  <2> QED
    BY <2>4, <2>5 DEF k
<1> QED
  BY <1>2, <1>3

LEMMA SettlePlatformOK ==
  ASSUME NEW m \in Markets, NEW l \in Ledgers, BooksOK(m, l.b), l.b.enrolled
  PROVE  LET k == SettlePlatform(m, l) IN
         /\ k \in Ledgers /\ BooksOK(m, k.b)
         /\ SamePockets(m, l.b, k.b) /\ SameSeats(l.b, k.b)
         /\ OwedCreator(k.b) = OwedCreator(l.b)
         /\ m \in Captured => OwedPlatform(k.b) = 0
<1> DEFINE k == SettlePlatform(m, l)
<1>1. l.b \in Books /\ l.c \in Balances
  BY DEF Ledgers
<1>2. CASE ~l.b.platformBoosted \/ OwedPlatform(l.b) = 0
  <2>1. k = l
    BY <1>2 DEF SettlePlatform
  <2>2. m \in Captured => OwedPlatform(l.b) = 0
    BY <1>1, <1>2 DEF BooksOK, SeatsOK, Books
  <2> QED
    BY <2>1, <2>2 DEF SamePockets, SameSeats
<1>3. CASE ~(~l.b.platformBoosted \/ OwedPlatform(l.b) = 0)
  <2>1. m \in Captured /\ l.b.registered
    BY <1>1, <1>3 DEF BooksOK, SeatsOK, Books
  <2>2. k = [b |-> PlatformPaid(l.b), c |-> TreasuryGets(l.c, OwedPlatform(l.b), 0)]
    BY <1>3, <2>1 DEF SettlePlatform, ClaimPlatform, PlatformPaid
  <2>3. OwedPlatform(l.b) \in Nat
    BY <1>1, PocketsNat DEF BooksOK
  <2>4. TreasuryGets(l.c, OwedPlatform(l.b), 0) \in Balances
    BY <1>1, <2>3, GetsOK
  <2>5. PlatformPaid(l.b) \in Books /\ BooksOK(m, PlatformPaid(l.b))
        /\ SameSeats(l.b, PlatformPaid(l.b)) /\ OwedPlatform(PlatformPaid(l.b)) = 0
        /\ OwedCreator(PlatformPaid(l.b)) = OwedCreator(l.b)
        /\ SamePockets(m, l.b, PlatformPaid(l.b))
    BY <1>1, <2>1, PlatformPaidOK DEF SamePockets, SameSeats
  <2> HIDE DEF k
  <2>6. k \in Ledgers /\ k.b = PlatformPaid(l.b)
    BY <2>2, <2>4, <2>5 DEF Ledgers
  <2> QED
    BY <2>5, <2>6 DEF k
<1> QED
  BY <1>2, <1>3

LEMMA SettleBothOK ==
  ASSUME NEW m \in Markets, NEW l \in Ledgers, BooksOK(m, l.b), l.b.enrolled
  PROVE  LET k == SettleBoth(m, l) IN
         /\ k \in Ledgers /\ BooksOK(m, k.b)
         /\ SamePockets(m, l.b, k.b) /\ SameSeats(l.b, k.b)
         /\ OwedCreator(k.b) = 0
         /\ m \in Captured => OwedPlatform(k.b) = 0
<1> DEFINE h == SettleCreator(l)
           k == SettlePlatform(m, h)
<1>1. /\ h \in Ledgers /\ BooksOK(m, h.b) /\ h.b.enrolled
      /\ SamePockets(m, l.b, h.b) /\ SameSeats(l.b, h.b) /\ OwedCreator(h.b) = 0
  BY SettleCreatorOK DEF SameSeats
<1>2. /\ k \in Ledgers /\ BooksOK(m, k.b) /\ SamePockets(m, h.b, k.b)
      /\ SameSeats(h.b, k.b) /\ OwedCreator(k.b) = OwedCreator(h.b)
      /\ m \in Captured => OwedPlatform(k.b) = 0
  BY <1>1, SettlePlatformOK
<1>3. SettleBoth(m, l) = k
  BY DEF SettleBoth
<1> HIDE DEF h, k
<1> QED
  BY <1>1, <1>2, <1>3 DEF SamePockets, SameSeats

\* With both streams settled the switch moves nothing.
LEMMA SwitchOK ==
  ASSUME NEW m \in Markets, NEW l \in Ledgers, BooksOK(m, l.b),
         l.b.enrolled, ~l.b.boostLocked, NEW boost \in BOOLEAN
  PROVE  LET k == Switch(m, l, boost) IN
         /\ k \in Ledgers /\ BooksOK(m, k.b)
         /\ k.b.boostEnabled = boost /\ k.b.boostLocked = l.b.boostLocked
         /\ Committed(k.b) = Committed(l.b)
         /\ Theirs(m, k.b) = Theirs(m, l.b)
<1> DEFINE s == SettleBoth(m, l)
           b == s.b
           k == SetPlatformBoost([b EXCEPT !.boostEnabled = boost], boost)
<1>1. /\ s \in Ledgers /\ BooksOK(m, b) /\ SamePockets(m, l.b, b) /\ SameSeats(l.b, b)
      /\ OwedCreator(b) = 0
      /\ m \in Captured => OwedPlatform(b) = 0
  BY SettleBothOK
<1>2. Switch(m, l, boost) = [b |-> k, c |-> s.c]
  BY DEF Switch
<1>3. b \in Books /\ s.c \in Balances
  BY <1>1 DEF Ledgers
<1> HIDE DEF s, b
<1>4. b.enrolled /\ b.platformBoosted = (m \in Captured) /\ ~b.boostLocked
  BY <1>1, <1>3 DEF BooksOK, SeatsOK, SameSeats, Books
<1>5. k = IF m \in Captured THEN [b EXCEPT !.boostEnabled = boost, !.boosting = boost]
                            ELSE [b EXCEPT !.boostEnabled = boost]
  BY <1>3, <1>4 DEF SetPlatformBoost, Books
<1> HIDE DEF k
<1>6. k \in Books
  BY <1>3, <1>5 DEF Books
<1>7. VaultOK(k)
  BY <1>1, <1>3, <1>5 DEF BooksOK, VaultOK, OwedCreator, OwedPlatform, Books
<1>8. SeatsOK(m, k)
  BY <1>1, <1>3, <1>4, <1>5 DEF BooksOK, SeatsOK, Books
<1>9. MirrorOK(m, k)
  BY <1>1, <1>3, <1>5 DEF BooksOK, MirrorOK, Books
<1>10. Committed(k) = Committed(b)
  BY <1>1, <1>3, <1>4, <1>5 DEF Committed, OwedCreator, OwedPlatform, Books
<1>11. Theirs(m, k) = Theirs(m, b)
  BY <1>1, <1>3, <1>5 DEF Theirs, OwedCreator, OwedPlatform, Books
<1>12. CutoffOK(k)
  BY <1>1, <1>3, <1>5, <1>10 DEF BooksOK, CutoffOK, Books
<1>13. k.boostEnabled = boost /\ k.boostLocked = l.b.boostLocked
  BY <1>1, <1>3, <1>5 DEF SameSeats, Books
<1> QED
  BY <1>1, <1>2, <1>3, <1>6, <1>7, <1>8, <1>9, <1>10, <1>11, <1>12, <1>13
  DEF Ledgers, BooksOK, SamePockets

LEMMA GatheredOK ==
  ASSUME NEW m \in Markets, IInv
  PROVE  LET k == Gathered(m) IN
         /\ k \in Ledgers /\ BooksOK(m, k.b)
         /\ SamePockets(m, books[m], k.b)
<1> DEFINE e == EnsureEnrolled(m, Ledger(m))
           s == SettleBoth(m, e)
           k == PullPlatform(s)
<1>1. Ledger(m) \in Ledgers /\ BooksOK(m, Ledger(m).b) /\ Ledger(m).b = books[m]
  BY DEF IInv, TypeOK, Ledger, Ledgers
<1>2. e \in Ledgers /\ BooksOK(m, e.b) /\ e.b.enrolled /\ SamePockets(m, books[m], e.b)
  BY <1>1, EnrolOK
<1>3. s \in Ledgers /\ BooksOK(m, s.b) /\ SamePockets(m, e.b, s.b)
  BY <1>2, SettleBothOK
<1>4. Gathered(m) = k
  BY DEF Gathered
<1> HIDE DEF e, s
<1>5. k \in Ledgers /\ BooksOK(m, k.b) /\ SamePockets(m, s.b, k.b)
  <2>1. s.b \in Books /\ s.c \in Balances
    BY <1>3 DEF Ledgers
  <2>2. CASE ~s.b.platformBoosted \/ s.b.platformPending = 0
    BY <1>3, <2>2 DEF PullPlatform, SamePockets
  <2>3. CASE ~(~s.b.platformBoosted \/ s.b.platformPending = 0)
    <3> DEFINE w == s.b.platformPending
               c == EscrowGets(TreasuryGets(s.c, -w, 0), w, 0)
    <3>1. k = [b |-> Routed(s.b), c |-> c]
      BY <2>3 DEF PullPlatform
    <3>2. w \in Nat /\ -w \in Int
      BY <2>1 DEF Books
    <3>3. c \in Balances
      BY <2>1, <3>2, GetsOK
    <3> QED
      BY <1>3, <2>1, <3>1, <3>3, RoutedOK DEF Ledgers
  <2> QED
    BY <2>2, <2>3
<1> QED
  BY <1>2, <1>3, <1>4, <1>5 DEF SamePockets

\* A buyback spends more than the fee it pays.
LEMMA SwappedOK ==
  ASSUME NEW m \in Markets, NEW l \in Ledgers, BooksOK(m, l.b), NEW refund \in Nat,
         refund + TotalOf(l.b.boostPending) < l.b.boostPending
  PROVE  LET k == Swapped(l, refund) IN
         /\ k \in Ledgers /\ BooksOK(m, k.b)
         /\ k.b.boostEnabled = l.b.boostEnabled /\ k.b.boostLocked = l.b.boostLocked
         /\ Committed(k.b) < Committed(l.b)
         /\ Theirs(m, k.b) >= Theirs(m, l.b)
         /\ l.b.boostEnabled => Theirs(m, k.b) = Theirs(m, l.b)
<1> DEFINE b == l.b
           in == b.boostPending
           spent == in - refund
           newSpent == b.boostSpent + spent
           h == [b EXCEPT !.boostPending = refund, !.boostSpent = newSpent, !.cooling = TRUE]
           k == Collect(h, in)
<1>1. b \in Books /\ l.c \in Balances /\ BooksOK(m, b)
  BY DEF Ledgers
<1>2. in \in Nat /\ TotalOf(in) \in Nat /\ PlatformOf(in) \in Nat /\ CreatorOf(in) \in Nat
      /\ CreatorOf(in) = TotalOf(in) - PlatformOf(in)
  BY <1>1, SplitNat DEF Books, CreatorOf
<1>3. spent \in Nat /\ newSpent \in Nat /\ refund + TotalOf(in) < in
  BY <1>1, <1>2 DEF Books
<1>4. Swapped(l, refund) = [b |-> k, c |-> EscrowGets(l.c, -spent, 0)]
  BY DEF Swapped
<1>5. EscrowGets(l.c, -spent, 0) \in Balances
  <2>1. -spent \in Int
    BY <1>3
  <2> QED
    BY <1>1, <2>1, GetsOK
<1>6. newSpent + refund = b.boostSpent + b.boostPending
  BY <1>1, <1>2 DEF Books
<1>7. in = b.boostPending
  OBVIOUS
<1> HIDE DEF b, in, spent, newSpent, k
<1>8. h \in Books
  BY <1>1, <1>3 DEF Books
<1>9. BooksOK(m, h)
  <2>1. VaultOK(h) /\ SeatsOK(m, h) /\ MirrorOK(m, h)
    BY <1>1 DEF BooksOK, VaultOK, SeatsOK, MirrorOK, Books, OwedCreator, OwedPlatform
  <2>2. Committed(h) + newSpent = Committed(b) + b.boostSpent
    BY <1>1, <1>3, <1>6 DEF Committed, Books, OwedCreator, OwedPlatform
  <2>3. CutoffOK(h)
    BY <1>1, <2>2 DEF BooksOK, CutoffOK, Books
  <2> QED
    BY <2>1, <2>3 DEF BooksOK
<1>10. k \in Books /\ BooksOK(m, k)
  BY <1>2, <1>8, <1>9, CollectOK DEF k
<1>11. k.boostEnabled = b.boostEnabled /\ k.boostLocked = b.boostLocked
       /\ k.platformBoosted = b.platformBoosted
       /\ k.boostPending = refund /\ k.platformPending = b.platformPending
       /\ k.creatorPending = b.creatorPending /\ k.agenPending = b.agenPending
  BY <1>1 DEF k, Collect, Books
<1>12. OwedCreator(k) = OwedCreator(b) + CreatorOf(in)
       /\ OwedPlatform(k) = OwedPlatform(b) + PlatformOf(in)
  BY <1>1, <1>2 DEF k, Collect, Books, OwedCreator, OwedPlatform
<1>13. OwedCreator(b) \in Nat /\ OwedPlatform(b) \in Nat
  BY <1>1, PocketsNat DEF BooksOK
<1>14. Committed(k) < Committed(b)
  BY <1>1, <1>2, <1>3, <1>7, <1>11, <1>12, <1>13 DEF Committed, Books
<1>15. Theirs(m, k) >= Theirs(m, b) /\ (b.boostEnabled => Theirs(m, k) = Theirs(m, b))
  BY <1>1, <1>2, <1>11, <1>12, <1>13 DEF Theirs, Books
<1> QED
  BY <1>4, <1>5, <1>10, <1>11, <1>14, <1>15 DEF Ledgers, b

-----------------------------------------------------------------------------
(* The steps.                                                               *)

\* What a step may do to the pockets of one market.
SameSwitch(b, c) == c.boostEnabled = b.boostEnabled /\ c.boostLocked = b.boostLocked

Earned(m, b, c) ==
  /\ SameSwitch(b, c)
  /\ Committed(c) >= Committed(b) /\ Theirs(m, c) >= Theirs(m, b)
  /\ IF b.boostEnabled THEN Theirs(m, c) = Theirs(m, b) ELSE Committed(c) = Committed(b)

Given(m, b, c) ==
  SameSwitch(b, c) /\ Committed(c) > Committed(b) /\ Theirs(m, c) = Theirs(m, b)

PaidOut(m, b, c) ==
  SameSwitch(b, c) /\ Theirs(m, c) < Theirs(m, b) /\ Committed(c) = Committed(b)

BoughtBack(m, b, c) ==
  /\ SameSwitch(b, c)
  /\ Committed(c) < Committed(b) /\ Theirs(m, c) >= Theirs(m, b)
  /\ b.boostEnabled => Theirs(m, c) = Theirs(m, b)

Turned(m, b, c) ==
  /\ ~b.boostLocked /\ ~c.boostLocked
  /\ c.boostEnabled = ~b.boostEnabled
  /\ Committed(c) = Committed(b) /\ Theirs(m, c) = Theirs(m, b)

TurnedForever(m, b, c) ==
  /\ b.boostEnabled /\ c.boostEnabled /\ ~b.boostLocked /\ c.boostLocked
  /\ Committed(c) = Committed(b) /\ Theirs(m, c) = Theirs(m, b)

Allowed(m, b, c) ==
  \/ SamePockets(m, b, c) \/ Earned(m, b, c) \/ Given(m, b, c) \/ PaidOut(m, b, c)
  \/ BoughtBack(m, b, c) \/ Turned(m, b, c) \/ TurnedForever(m, b, c)

PromiseStep == [Promise!Next]_(Promise!vars)

\* A transaction on one market that leaves its books in order keeps the rest.
LEMMA BecomeOK ==
  ASSUME IInv, NEW m \in Markets, NEW l \in Ledgers, BooksOK(m, l.b), Become(m, l),
         inflows' \in 0 .. MaxInflows
  PROVE  IInv'
<1>1. l.b \in Books /\ l.c \in Balances
  BY DEF Ledgers
<1>2. books \in [Markets -> Books] /\ books' = [books EXCEPT ![m] = l.b] /\ cash' = l.c
  BY DEF IInv, TypeOK, Become
<1>3. TypeOK'
  BY <1>1, <1>2 DEF TypeOK
<1>4. \A k \in Markets : BooksOK(k, books'[k])
  BY <1>1, <1>2 DEF IInv
<1>5. (\A k \in Markets : BooksOK(k, books[k]))'
  BY <1>4
<1> QED
  BY <1>3, <1>5 DEF IInv

\* What a step does to one market's pockets is a step of the promise.
LEMMA PromiseKept ==
  ASSUME IInv, NEW m \in Markets, NEW c \in Books,
         books' = [books EXCEPT ![m] = c], Allowed(m, books[m], c)
  PROVE  PromiseStep
<1> DEFINE b == books[m]
           On(f) == [k \in Markets |-> f[k].boostEnabled]
           Locked(f) == [k \in Markets |-> f[k].boostLocked]
           Com(f) == [k \in Markets |-> Committed(f[k])]
           Own(f) == [k \in Markets |-> Theirs(k, f[k])]
<1>1. books \in [Markets -> Books] /\ books' \in [Markets -> Books] /\ b \in Books
      /\ books'[m] = c /\ \A k \in Markets \ {m} : books'[k] = books[k]
  BY DEF IInv, TypeOK
<1>2. \A k \in Markets \ {m} :
        Com(books')[k] = Com(books)[k] /\ Own(books')[k] = Own(books)[k]
        /\ On(books')[k] = On(books)[k] /\ Locked(books')[k] = Locked(books)[k]
  BY <1>1
<1>3. /\ Com(books)[m] = Committed(b) /\ Com(books')[m] = Committed(c)
      /\ Own(books)[m] = Theirs(m, b) /\ Own(books')[m] = Theirs(m, c)
      /\ On(books)[m] = b.boostEnabled /\ On(books')[m] = c.boostEnabled
      /\ Locked(books)[m] = b.boostLocked /\ Locked(books')[m] = c.boostLocked
  BY <1>1
<1>4. b.boostEnabled \in BOOLEAN /\ c.boostEnabled \in BOOLEAN
      /\ b.boostLocked \in BOOLEAN /\ c.boostLocked \in BOOLEAN
  BY <1>1 DEF Books
<1>5. ASSUME SameSwitch(b, c)
      PROVE  On(books') = On(books) /\ Locked(books') = Locked(books)
  BY <1>2, <1>3, <1>5 DEF SameSwitch
<1>6. ASSUME Committed(c) = Committed(b), Theirs(m, c) = Theirs(m, b)
      PROVE  Com(books') = Com(books) /\ Own(books') = Own(books)
  BY <1>2, <1>3, <1>6
<1>7. CASE SamePockets(m, b, c)
  <2>1. SameSwitch(b, c) /\ Committed(c) = Committed(b) /\ Theirs(m, c) = Theirs(m, b)
    BY <1>7 DEF SamePockets, SameSwitch
  <2> QED
    BY <2>1, <1>5, <1>6 DEF PromiseStep, Promise!vars
<1>8. CASE Earned(m, b, c)
  <2>1. On(books') = On(books) /\ Locked(books') = Locked(books)
    BY <1>5, <1>8 DEF Earned
  <2>2. Promise!Earn(m)
    BY <1>2, <1>3, <1>8, <2>1 DEF Promise!Earn, Promise!Others, Promise!Switches, Earned
  <2> QED
    BY <2>2 DEF PromiseStep, Promise!Next
<1>9. CASE Given(m, b, c)
  <2>1. On(books') = On(books) /\ Locked(books') = Locked(books)
    BY <1>5, <1>9 DEF Given
  <2>2. Promise!Give(m)
    BY <1>2, <1>3, <1>9, <2>1 DEF Promise!Give, Promise!Others, Promise!Switches, Given
  <2> QED
    BY <2>2 DEF PromiseStep, Promise!Next
<1>10. CASE PaidOut(m, b, c)
  <2>1. On(books') = On(books) /\ Locked(books') = Locked(books)
    BY <1>5, <1>10 DEF PaidOut
  <2>2. Promise!PayOut(m)
    BY <1>2, <1>3, <1>10, <2>1 DEF Promise!PayOut, Promise!Others, Promise!Switches, PaidOut
  <2> QED
    BY <2>2 DEF PromiseStep, Promise!Next
<1>11. CASE BoughtBack(m, b, c)
  <2>1. On(books') = On(books) /\ Locked(books') = Locked(books)
    BY <1>5, <1>11 DEF BoughtBack
  <2>2. Promise!Buyback(m)
    BY <1>2, <1>3, <1>11, <2>1 DEF Promise!Buyback, Promise!Others, Promise!Switches, BoughtBack
  <2> QED
    BY <2>2 DEF PromiseStep, Promise!Next
<1>12. CASE Turned(m, b, c)
  <2>1. Com(books') = Com(books) /\ Own(books') = Own(books)
    BY <1>6, <1>12 DEF Turned
  <2>2. Locked(books') = Locked(books)
    BY <1>2, <1>3, <1>4, <1>12 DEF Turned
  <2>3. On(books') = [On(books) EXCEPT ![m] = ~@]
    <3> DEFINE f == On(books)
               g == On(books')
    <3>1. /\ f = [k \in Markets |-> f[k]] /\ g = [k \in Markets |-> g[k]]
          /\ g[m] = ~f[m]
          /\ \A k \in Markets \ {m} : g[k] = f[k]
      BY <1>2, <1>3, <1>4, <1>12 DEF Turned
    <3> HIDE DEF f, g
    <3>2. g = [f EXCEPT ![m] = ~f[m]]
      BY <3>1, Zenon
    <3> QED
      BY <3>2 DEF f, g
  <2>4. ~Locked(books)[m]
    BY <1>3, <1>12 DEF Turned
  <2>5. Promise!Turn(m)
    BY <2>1, <2>2, <2>3, <2>4 DEF Promise!Turn
  <2> QED
    BY <2>5 DEF PromiseStep, Promise!Next
<1>13. CASE TurnedForever(m, b, c)
  <2>1. Com(books') = Com(books) /\ Own(books') = Own(books)
    BY <1>6, <1>13 DEF TurnedForever
  <2>2. On(books') = On(books)
    BY <1>2, <1>3, <1>4, <1>13 DEF TurnedForever
  <2>3. Locked(books') = [Locked(books) EXCEPT ![m] = TRUE]
    <3> DEFINE f == Locked(books)
               g == Locked(books')
    <3>0. c.boostLocked = TRUE
      BY <1>4, <1>13 DEF TurnedForever
    <3>1. /\ f = [k \in Markets |-> f[k]] /\ g = [k \in Markets |-> g[k]]
          /\ g[m] = TRUE
          /\ \A k \in Markets \ {m} : g[k] = f[k]
      BY <1>2, <1>3, <3>0
    <3> HIDE DEF f, g
    <3>2. g = [f EXCEPT ![m] = TRUE]
      BY <3>1, Zenon
    <3> QED
      BY <3>2 DEF f, g
  <2>4. On(books)[m] /\ ~Locked(books)[m]
    BY <1>3, <1>13 DEF TurnedForever
  <2>5. Promise!Lock(m)
    BY <2>1, <2>2, <2>3, <2>4 DEF Promise!Lock
  <2> QED
    BY <2>5 DEF PromiseStep, Promise!Next
<1> QED
  BY <1>7, <1>8, <1>9, <1>10, <1>11, <1>12, <1>13 DEF Allowed

\* One transaction of one market: what is to be shown of each.
LEMMA TransactionOK ==
  ASSUME IInv, NEW m \in Markets, NEW l \in Ledgers, BooksOK(m, l.b), Become(m, l),
         inflows' \in 0 .. MaxInflows, Allowed(m, books[m], l.b)
  PROVE  IInv' /\ PromiseStep
<1>1. l.b \in Books
  BY DEF Ledgers
<1>2. books' = [books EXCEPT ![m] = l.b]
  BY DEF Become
<1>3. PromiseStep
  BY <1>1, <1>2, PromiseKept
<1> QED
  BY <1>3, BecomeOK

LEMMA TradeOK ==
  ASSUME IInv, NEW m \in Markets, NEW leg \in Legs, Trade(m, leg)
  PROVE  IInv' /\ PromiseStep
<1> DEFINE b == books[m]
           k == Collect(b, leg)
           l == [b |-> k, c |-> cash]
<1>1. b \in Books /\ BooksOK(m, b) /\ cash \in Balances /\ leg \in Nat
  BY DEF IInv, TypeOK
<1>2. k \in Books /\ BooksOK(m, k)
  BY <1>1, CollectOK
<1>3. Become(m, l) /\ inflows' \in 0 .. MaxInflows
  BY DEF Trade, Inflow, IInv, TypeOK
<1>4. /\ TotalOf(leg) \in Nat /\ PlatformOf(leg) \in Nat /\ CreatorOf(leg) \in Nat
      /\ CreatorOf(leg) = TotalOf(leg) - PlatformOf(leg)
  BY <1>1, SplitNat DEF CreatorOf
<1>5. OwedCreator(k) = OwedCreator(b) + CreatorOf(leg)
      /\ OwedPlatform(k) = OwedPlatform(b) + PlatformOf(leg)
  BY <1>1, <1>4 DEF Collect, Books, OwedCreator, OwedPlatform
<1>6. /\ k.boostEnabled = b.boostEnabled /\ k.boostLocked = b.boostLocked
      /\ k.platformBoosted = b.platformBoosted
      /\ k.boostPending = b.boostPending /\ k.platformPending = b.platformPending
      /\ k.creatorPending = b.creatorPending /\ k.agenPending = b.agenPending
  BY <1>1 DEF Collect, Books
<1>7. OwedCreator(b) \in Nat /\ OwedPlatform(b) \in Nat
  BY <1>1, PocketsNat DEF BooksOK
<1>8. l \in Ledgers /\ l.b = k
  BY <1>1, <1>2 DEF Ledgers
<1> HIDE DEF k, b
<1>9. Earned(m, b, k)
  BY <1>1, <1>4, <1>5, <1>6, <1>7 DEF Earned, SameSwitch, Committed, Theirs, Books
<1> HIDE DEF l
<1>10. Allowed(m, b, l.b)
  BY <1>8, <1>9 DEF Allowed
<1> QED
  BY <1>2, <1>3, <1>8, <1>10, TransactionOK DEF b

LEMMA DirectClaimCreatorOK ==
  ASSUME IInv, NEW m \in Markets, DirectClaimCreator(m)
  PROVE  IInv' /\ PromiseStep
<1> DEFINE b == books[m]
           k == CreatorPaid(b)
           w == OwedCreator(b)
           s == IF b.enrolled THEN 0 ELSE w
           l == ClaimCreator(Ledger(m))
<1>1. b \in Books /\ BooksOK(m, b) /\ cash \in Balances
  BY DEF IInv, TypeOK
<1>2. Become(m, l) /\ inflows' \in 0 .. MaxInflows /\ w > 0
  BY DEF DirectClaimCreator, IInv, TypeOK
<1>3. l = [b |-> k, c |-> EscrowGets(cash, w, s)]
  BY DEF ClaimCreator, Ledger, CreatorPaid
<1>4. w \in Nat /\ s \in Nat
  BY <1>1, PocketsNat DEF BooksOK
<1>5. EscrowGets(cash, w, s) \in Balances
  BY <1>1, <1>4, GetsOK
<1>6. /\ k \in Books /\ BooksOK(m, k) /\ SameSwitch(b, k)
      /\ Committed(k) = Committed(b)
      /\ Theirs(m, k) = IF b.enrolled THEN Theirs(m, b) ELSE Theirs(m, b) - w
  BY <1>1, CreatorPaidOK DEF SameSeats, SameSwitch
<1>7. Theirs(m, b) \in Nat
  BY <1>1, PocketsNat DEF BooksOK
<1> HIDE DEF k, b, w, s, l
<1>8. Allowed(m, b, k)
  BY <1>2, <1>4, <1>6, <1>7 DEF Allowed, SamePockets, SameSwitch, PaidOut
<1>9. l \in Ledgers /\ l.b = k
  BY <1>3, <1>5, <1>6 DEF Ledgers
<1> QED
  BY <1>2, <1>6, <1>8, <1>9, TransactionOK DEF b

\* Whatever claimPlatform finds, it leaves the books in order.
LEMMA ClaimPlatformOK ==
  ASSUME NEW m \in Markets, NEW l \in Ledgers, BooksOK(m, l.b), OwedPlatform(l.b) > 0
  PROVE  /\ ClaimPlatform(m, l) \in Ledgers
         /\ BooksOK(m, ClaimPlatform(m, l).b)
         /\ m \in Captured /\ l.b.registered => SamePockets(m, l.b, ClaimPlatform(m, l).b)
         /\ Allowed(m, l.b, ClaimPlatform(m, l).b)
<1> DEFINE b == l.b
           k == PlatformPaid(b)
           w == OwedPlatform(b)
           s == IF b.registered THEN 0 ELSE w
           r == ClaimPlatform(m, l)
<1>1. b \in Books /\ BooksOK(m, b) /\ l.c \in Balances /\ w > 0
  BY DEF Ledgers
<1>2. w \in Nat /\ s \in Nat /\ Theirs(m, b) \in Nat
  BY <1>1, PocketsNat DEF BooksOK
<1>3. CASE m \in Captured
  <2>1. r = [b |-> k, c |-> TreasuryGets(l.c, w, s)]
    BY <1>3 DEF ClaimPlatform, PlatformPaid
  <2>2. TreasuryGets(l.c, w, s) \in Balances
    BY <1>1, <1>2, GetsOK
  <2>3. /\ k \in Books /\ BooksOK(m, k) /\ SameSwitch(b, k)
        /\ Committed(k) = Committed(b)
        /\ Theirs(m, k) = IF b.registered THEN Theirs(m, b) ELSE Theirs(m, b) - w
    BY <1>1, <1>3, PlatformPaidOK DEF SameSeats, SameSwitch
  <2> HIDE DEF k, b, w, s, r
  <2>4. r \in Ledgers /\ r.b = k
    BY <2>1, <2>2, <2>3 DEF Ledgers
  <2>5. Allowed(m, b, k) /\ (b.registered => SamePockets(m, b, k))
    BY <1>1, <1>2, <2>3 DEF Allowed, SamePockets, SameSwitch, PaidOut
  <2> QED
    BY <2>3, <2>4, <2>5 DEF r, b
<1>4. CASE m \notin Captured
  <2>1. r = [b |-> ForgetPlatform(b), c |-> l.c]
    BY <1>4 DEF ClaimPlatform
  <2>2. /\ ForgetPlatform(b) \in Books /\ BooksOK(m, ForgetPlatform(b))
        /\ SamePockets(m, b, ForgetPlatform(b))
    BY <1>1, <1>4, WalletPaidOK
  <2> HIDE DEF r, b
  <2>3. r \in Ledgers /\ r.b = ForgetPlatform(b)
    BY <1>1, <2>1, <2>2 DEF Ledgers
  <2> QED
    BY <1>4, <2>2, <2>3 DEF Allowed, r, b
<1> QED
  BY <1>3, <1>4

LEMMA DirectClaimPlatformOK ==
  ASSUME IInv, NEW m \in Markets, DirectClaimPlatform(m)
  PROVE  IInv' /\ PromiseStep
<1>1. /\ Ledger(m) \in Ledgers /\ Ledger(m).b = books[m] /\ BooksOK(m, books[m])
      /\ OwedPlatform(books[m]) > 0
  BY DEF Ledger, Ledgers, IInv, TypeOK, DirectClaimPlatform
<1>2. Become(m, ClaimPlatform(m, Ledger(m))) /\ inflows' \in 0 .. MaxInflows
  BY DEF DirectClaimPlatform, IInv, TypeOK
<1> QED
  BY <1>1, <1>2, ClaimPlatformOK, TransactionOK

LEMMA RegistrationOK ==
  ASSUME IInv, NEW m \in Markets, Register(m) \/ TreasurySettle(m)
  PROVE  IInv' /\ PromiseStep
<1> DEFINE l == EnsureRegistered(Ledger(m))
<1>1. Ledger(m) \in Ledgers /\ Ledger(m).b = books[m] /\ BooksOK(m, books[m])
  BY DEF Ledger, Ledgers, IInv, TypeOK
<1>2. m \in Captured /\ inflows' \in 0 .. MaxInflows
  BY DEF Register, TreasurySettle, IInv, TypeOK
<1>3. /\ l \in Ledgers /\ BooksOK(m, l.b) /\ l.b.registered
      /\ SamePockets(m, books[m], l.b)
  BY <1>1, <1>2, RegisterOK
<1>4. CASE Become(m, l)
  BY <1>2, <1>3, <1>4, TransactionOK DEF Allowed
<1>5. CASE Become(m, ClaimPlatform(m, l)) /\ OwedPlatform(l.b) # 0
  <2>1. OwedPlatform(l.b) > 0
    BY <1>3, <1>5, PocketsNat DEF BooksOK, Ledgers
  <2> HIDE DEF l
  <2>2. SamePockets(m, l.b, ClaimPlatform(m, l).b)
    BY <1>2, <1>3, <2>1, ClaimPlatformOK
  <2>3. Allowed(m, books[m], ClaimPlatform(m, l).b)
    BY <1>3, <2>2 DEF Allowed, SamePockets
  <2> QED
    BY <1>2, <1>3, <1>5, <2>1, <2>3, ClaimPlatformOK, TransactionOK
<1>6. Become(m, l) \/ (Become(m, ClaimPlatform(m, l)) /\ OwedPlatform(l.b) # 0)
  BY DEF Register, TreasurySettle
<1> QED
  BY <1>4, <1>5, <1>6

\* The ledger after an enrolment and a settlement of the creator's stream.
LEMMA EnrolledAndSettled ==
  ASSUME IInv, NEW m \in Markets
  PROVE  LET e == EnsureEnrolled(m, Ledger(m))
             l == SettleCreator(e)
         IN  /\ e \in Ledgers /\ BooksOK(m, e.b) /\ e.b.enrolled
             /\ SamePockets(m, books[m], e.b)
             /\ l \in Ledgers /\ BooksOK(m, l.b)
             /\ SamePockets(m, books[m], l.b)
<1> DEFINE e == EnsureEnrolled(m, Ledger(m))
           l == SettleCreator(e)
<1>1. Ledger(m) \in Ledgers /\ Ledger(m).b = books[m] /\ BooksOK(m, books[m])
  BY DEF Ledger, Ledgers, IInv, TypeOK
<1>2. e \in Ledgers /\ BooksOK(m, e.b) /\ e.b.enrolled /\ SamePockets(m, books[m], e.b)
  BY <1>1, EnrolOK
<1>3. l \in Ledgers /\ BooksOK(m, l.b) /\ SamePockets(m, e.b, l.b)
  BY <1>2, SettleCreatorOK
<1> QED
  BY <1>2, <1>3 DEF SamePockets

LEMMA EnrollOK ==
  ASSUME IInv, NEW m \in Markets, Enroll(m)
  PROVE  IInv' /\ PromiseStep
<1> DEFINE l == EnsureEnrolled(m, Ledger(m))
<1>1. Become(m, l) /\ inflows' \in 0 .. MaxInflows
  BY DEF Enroll, IInv, TypeOK
<1>2. l \in Ledgers /\ BooksOK(m, l.b) /\ SamePockets(m, books[m], l.b)
  BY EnrolledAndSettled
<1> QED
  BY <1>1, <1>2, TransactionOK DEF Allowed

LEMMA SettleOK ==
  ASSUME IInv, NEW m \in Markets, Settle(m)
  PROVE  IInv' /\ PromiseStep
<1> DEFINE l == SettleCreator(EnsureEnrolled(m, Ledger(m)))
<1>1. Become(m, l) /\ inflows' \in 0 .. MaxInflows
  BY DEF Settle, IInv, TypeOK
<1>2. l \in Ledgers /\ BooksOK(m, l.b) /\ SamePockets(m, books[m], l.b)
  BY EnrolledAndSettled
<1> QED
  BY <1>1, <1>2, TransactionOK DEF Allowed

\* What is paid to the owner was the owner's.
LEMMA PaidOwnerOK ==
  ASSUME NEW m \in Markets, NEW l \in Ledgers, BooksOK(m, l.b)
  PROVE  /\ PaidOwner(l) \in Ledgers /\ BooksOK(m, PaidOwner(l).b)
         /\ SamePockets(m, l.b, PaidOwner(l).b) \/ PaidOut(m, l.b, PaidOwner(l).b)
<1> DEFINE b == l.b
           w == b.creatorPending
           k == [b EXCEPT !.creatorPending = 0]
           r == PaidOwner(l)
<1>1. b \in Books /\ BooksOK(m, b) /\ l.c \in Balances /\ w \in Nat /\ -w \in Int
  BY DEF Ledgers, Books
<1>2. r = [b |-> k, c |-> EscrowGets(l.c, -w, 0)]
  BY DEF PaidOwner
<1>3. EscrowGets(l.c, -w, 0) \in Balances
  BY <1>1, GetsOK
<1>4. w = b.creatorPending
  OBVIOUS
<1> HIDE DEF b, w, r
<1>5. k \in Books
  BY <1>1 DEF Books
<1>6. VaultOK(k) /\ SeatsOK(m, k) /\ MirrorOK(m, k) /\ CutoffOK(k)
  BY <1>1 DEF BooksOK, VaultOK, SeatsOK, MirrorOK, CutoffOK, Committed, Books,
              OwedCreator, OwedPlatform
<1>7. SameSwitch(b, k) /\ Committed(k) = Committed(b)
  BY <1>1 DEF SameSwitch, Committed, Books, OwedCreator, OwedPlatform
<1>8. Theirs(m, k) = Theirs(m, b) - w
  <2>1. OwedCreator(k) = OwedCreator(b) /\ OwedPlatform(k) = OwedPlatform(b)
    BY <1>1 DEF OwedCreator, OwedPlatform, Books
  <2>2. OwedCreator(b) \in Nat /\ OwedPlatform(b) \in Nat
    BY <1>1, PocketsNat DEF BooksOK
  <2> QED
    BY <1>1, <1>4, <2>1, <2>2 DEF Theirs, Books
<1>9. Theirs(m, b) \in Nat
  BY <1>1, PocketsNat DEF BooksOK
<1> HIDE DEF k
<1>10. r \in Ledgers /\ r.b = k
  BY <1>2, <1>3, <1>5 DEF Ledgers
<1>11. SamePockets(m, b, k) \/ PaidOut(m, b, k)
  BY <1>1, <1>7, <1>8, <1>9 DEF SamePockets, SameSwitch, PaidOut
<1> QED
  BY <1>6, <1>10, <1>11 DEF BooksOK, r, b

LEMMA WithdrawOK ==
  ASSUME IInv, NEW m \in Markets, Withdraw(m) \/ Pull(m)
  PROVE  IInv' /\ PromiseStep
<1>1. inflows' \in 0 .. MaxInflows
  BY DEF Withdraw, Pull, IInv, TypeOK
<1>2. CASE Withdraw(m)
  <2>1. Ledger(m) \in Ledgers /\ Ledger(m).b = books[m] /\ BooksOK(m, books[m])
    BY DEF Ledger, Ledgers, IInv, TypeOK
  <2>2. Become(m, PaidOwner(Ledger(m)))
    BY <1>2 DEF Withdraw
  <2> QED
    BY <1>1, <2>1, <2>2, PaidOwnerOK, TransactionOK DEF Allowed
<1>3. CASE Pull(m)
  <2> DEFINE l == SettleCreator(EnsureEnrolled(m, Ledger(m)))
             r == PaidOwner(l)
  <2>1. l \in Ledgers /\ BooksOK(m, l.b) /\ SamePockets(m, books[m], l.b)
    BY EnrolledAndSettled
  <2>2. Become(m, r)
    BY <1>3 DEF Pull
  <2> HIDE DEF l
  <2>3. /\ r \in Ledgers /\ BooksOK(m, r.b)
        /\ SamePockets(m, l.b, r.b) \/ PaidOut(m, l.b, r.b)
    BY <2>1, PaidOwnerOK
  <2>4. Allowed(m, books[m], r.b)
    BY <2>1, <2>3 DEF Allowed, SamePockets, PaidOut, SameSwitch
  <2> QED
    BY <1>1, <2>2, <2>3, <2>4, TransactionOK
<1> QED
  BY <1>2, <1>3

LEMMA WithdrawAgenOK ==
  ASSUME IInv, NEW m \in Markets, WithdrawAgen(m)
  PROVE  IInv' /\ PromiseStep
<1> DEFINE b == books[m]
           w == b.agenPending
           k == [b EXCEPT !.agenPending = 0]
           r == [b |-> k, c |-> TreasuryGets(cash, -w, 0)]
<1>1. b \in Books /\ BooksOK(m, b) /\ cash \in Balances /\ w \in Nat /\ -w \in Int /\ w > 0
  BY DEF IInv, TypeOK, Books, WithdrawAgen
<1>2. Become(m, r) /\ inflows' \in 0 .. MaxInflows
  BY DEF WithdrawAgen, IInv, TypeOK
<1>3. TreasuryGets(cash, -w, 0) \in Balances
  BY <1>1, GetsOK
<1>4. w = b.agenPending
  OBVIOUS
<1>5. r.b = k
  OBVIOUS
<1> HIDE DEF b, w
<1>6. k \in Books
  BY <1>1 DEF Books
<1>7. VaultOK(k) /\ SeatsOK(m, k) /\ MirrorOK(m, k) /\ CutoffOK(k)
  BY <1>1 DEF BooksOK, VaultOK, SeatsOK, MirrorOK, CutoffOK, Committed, Books,
              OwedCreator, OwedPlatform
<1>8. SameSwitch(b, k) /\ Committed(k) = Committed(b)
  BY <1>1 DEF SameSwitch, Committed, Books, OwedCreator, OwedPlatform
<1>9. Theirs(m, k) = Theirs(m, b) - w
  <2>1. OwedCreator(k) = OwedCreator(b) /\ OwedPlatform(k) = OwedPlatform(b)
    BY <1>1 DEF OwedCreator, OwedPlatform, Books
  <2>2. OwedCreator(b) \in Nat /\ OwedPlatform(b) \in Nat
    BY <1>1, PocketsNat DEF BooksOK
  <2> QED
    BY <1>1, <1>4, <2>1, <2>2 DEF Theirs, Books
<1>10. Theirs(m, b) \in Nat
  BY <1>1, PocketsNat DEF BooksOK
<1>11. r \in Ledgers
  BY <1>3, <1>6 DEF Ledgers
<1> HIDE DEF k, r
<1>12. PaidOut(m, b, k)
  BY <1>1, <1>8, <1>9, <1>10 DEF PaidOut
<1> QED
  BY <1>2, <1>5, <1>7, <1>11, <1>12, TransactionOK DEF BooksOK, Allowed, b

LEMMA ContributeOK ==
  ASSUME IInv, NEW m \in Markets, NEW w \in Gifts, Contribute(m, w)
  PROVE  IInv' /\ PromiseStep
<1> DEFINE e == EnsureEnrolled(m, Ledger(m))
           b == e.b
           x == b.boostPending + w
           y == b.agenContributed + w
           k == [b EXCEPT !.boostPending = x, !.agenContributed = y]
           r == [b |-> k, c |-> EscrowGets(e.c, w, 0)]
<1>1. /\ e \in Ledgers /\ BooksOK(m, b) /\ SamePockets(m, books[m], b)
      /\ b \in Books /\ e.c \in Balances /\ w \in Nat /\ w > 0
  BY EnrolledAndSettled DEF Ledgers
<1>2. Become(m, r) /\ inflows' \in 0 .. MaxInflows
  BY DEF Contribute, Inflow, IInv, TypeOK
<1>3. EscrowGets(e.c, w, 0) \in Balances
  BY <1>1, GetsOK
<1>4. x = b.boostPending + w /\ y = b.agenContributed + w /\ r.b = k
  OBVIOUS
<1> HIDE DEF b, x, y, e
<1>5. x \in Nat /\ y \in Nat
  BY <1>1, <1>4 DEF Books
<1>6. k \in Books
  BY <1>1, <1>5 DEF Books
<1>7. OwedCreator(k) = OwedCreator(b) /\ OwedPlatform(k) = OwedPlatform(b)
  BY <1>1 DEF OwedCreator, OwedPlatform, Books
<1>8. OwedCreator(b) \in Nat /\ OwedPlatform(b) \in Nat
  BY <1>1, PocketsNat DEF BooksOK
<1>9. Committed(k) = Committed(b) + w /\ Committed(b) \in Nat
  BY <1>1, <1>4, <1>7, <1>8 DEF Committed, Books
<1>10. Theirs(m, k) = Theirs(m, b) /\ SameSwitch(b, k)
  BY <1>1, <1>7 DEF Theirs, SameSwitch, Books
<1>11. VaultOK(k) /\ SeatsOK(m, k) /\ MirrorOK(m, k)
  BY <1>1, <1>7 DEF BooksOK, VaultOK, SeatsOK, MirrorOK, Books
<1>12. CutoffOK(k)
  BY <1>1, <1>4, <1>9 DEF BooksOK, CutoffOK, Books
<1>13. r \in Ledgers
  BY <1>3, <1>6 DEF Ledgers
<1> HIDE DEF k, r
<1>14. Given(m, books[m], k)
  BY <1>1, <1>9, <1>10 DEF Given, SameSwitch, SamePockets
<1> QED
  BY <1>2, <1>4, <1>11, <1>12, <1>13, <1>14, TransactionOK DEF BooksOK, Allowed

LEMMA BoostOK ==
  ASSUME IInv, NEW m \in Markets, NEW refund \in Refunds, Boost(m, refund)
  PROVE  IInv' /\ PromiseStep
<1> DEFINE l == Gathered(m)
           k == Swapped(l, refund)
<1>1. l \in Ledgers /\ BooksOK(m, l.b) /\ SamePockets(m, books[m], l.b)
  BY GatheredOK
<1>2. /\ refund + TotalOf(l.b.boostPending) < l.b.boostPending /\ refund \in Nat
      /\ Become(m, k) /\ inflows' \in 0 .. MaxInflows
  BY DEF Boost, IInv, TypeOK
<1> HIDE DEF l
<1>3. /\ k \in Ledgers /\ BooksOK(m, k.b)
      /\ k.b.boostEnabled = l.b.boostEnabled /\ k.b.boostLocked = l.b.boostLocked
      /\ Committed(k.b) < Committed(l.b)
      /\ Theirs(m, k.b) >= Theirs(m, l.b)
      /\ l.b.boostEnabled => Theirs(m, k.b) = Theirs(m, l.b)
  BY <1>1, <1>2, SwappedOK
<1> HIDE DEF k
<1>4. BoughtBack(m, books[m], k.b)
  BY <1>1, <1>3 DEF BoughtBack, SamePockets, SameSwitch
<1> QED
  BY <1>2, <1>3, <1>4, TransactionOK DEF Allowed

LEMMA TurnOK ==
  ASSUME IInv, NEW m \in Markets, Enable(m) \/ Disable(m)
  PROVE  IInv' /\ PromiseStep
<1>1. /\ Ledger(m) \in Ledgers /\ Ledger(m).b = books[m] /\ BooksOK(m, books[m])
      /\ books[m] \in Books /\ inflows' \in 0 .. MaxInflows
  BY DEF Ledger, Ledgers, IInv, TypeOK, Enable, Disable
<1>2. CASE Enable(m)
  <2> DEFINE e == EnsureEnrolled(m, Ledger(m))
             k == Switch(m, e, TRUE)
  <2>1. /\ e \in Ledgers /\ BooksOK(m, e.b) /\ e.b.enrolled
        /\ SamePockets(m, books[m], e.b) /\ e.b \in Books
    BY EnrolledAndSettled DEF Ledgers
  <2>2. ~e.b.boostEnabled /\ Become(m, k)
    BY <1>2 DEF Enable
  <2> HIDE DEF e
  <2>3. ~e.b.boostLocked
    BY <2>1, <2>2 DEF BooksOK, SeatsOK, Books
  <2>4. /\ k \in Ledgers /\ BooksOK(m, k.b)
        /\ k.b.boostEnabled = TRUE /\ k.b.boostLocked = e.b.boostLocked
        /\ Committed(k.b) = Committed(e.b) /\ Theirs(m, k.b) = Theirs(m, e.b)
    BY <2>1, <2>3, SwitchOK
  <2> HIDE DEF k
  <2>5. Turned(m, books[m], k.b)
    BY <1>1, <2>1, <2>2, <2>3, <2>4 DEF Turned, SamePockets, Books
  <2> QED
    BY <1>1, <2>2, <2>4, <2>5, TransactionOK DEF Allowed
<1>3. CASE Disable(m)
  <2> DEFINE k == Switch(m, Ledger(m), FALSE)
  <2>1. books[m].boostEnabled /\ ~books[m].boostLocked /\ Become(m, k)
    BY <1>3 DEF Disable
  <2>2. books[m].enrolled
    BY <1>1, <2>1 DEF BooksOK, SeatsOK, Books
  <2> DEFINE l == Ledger(m)
  <2>5. l \in Ledgers /\ l.b = books[m] /\ BooksOK(m, l.b) /\ l.b.enrolled
        /\ ~l.b.boostLocked /\ k = Switch(m, l, FALSE)
    BY <1>1, <2>1, <2>2
  <2> HIDE DEF l, k
  <2>6. /\ k \in Ledgers /\ BooksOK(m, k.b)
        /\ k.b.boostEnabled = FALSE /\ k.b.boostLocked = l.b.boostLocked
        /\ Committed(k.b) = Committed(l.b) /\ Theirs(m, k.b) = Theirs(m, l.b)
    BY <2>5, SwitchOK
  <2>3. /\ k \in Ledgers /\ BooksOK(m, k.b)
        /\ k.b.boostEnabled = FALSE /\ k.b.boostLocked = books[m].boostLocked
        /\ Committed(k.b) = Committed(books[m]) /\ Theirs(m, k.b) = Theirs(m, books[m])
    BY <2>5, <2>6
  <2>4. Turned(m, books[m], k.b)
    BY <1>1, <2>1, <2>3 DEF Turned, Books
  <2> QED
    BY <1>1, <2>1, <2>3, <2>4, TransactionOK DEF Allowed
<1> QED
  BY <1>2, <1>3

\* Changes of a flag that no wei depends on.
LEMMA FlagOK ==
  ASSUME IInv, NEW m \in Markets, Lock(m) \/ CoolDown(m)
  PROVE  IInv' /\ PromiseStep
<1> DEFINE b == books[m]
<1>1. b \in Books /\ BooksOK(m, b) /\ cash \in Balances /\ inflows' \in 0 .. MaxInflows
  BY DEF IInv, TypeOK, Lock, CoolDown
<1>2. CASE Lock(m)
  <2> DEFINE k == [b EXCEPT !.boostLocked = TRUE]
             l == [b |-> k, c |-> cash]
  <2>1. Become(m, l) /\ b.boostEnabled /\ ~b.boostLocked
    BY <1>2 DEF Lock, Become
  <2> HIDE DEF b
  <2>2. k \in Books /\ BooksOK(m, k)
    BY <1>1, <2>1 DEF BooksOK, VaultOK, SeatsOK, MirrorOK, CutoffOK, Committed, Books,
                      OwedCreator, OwedPlatform
  <2>3. TurnedForever(m, b, k)
    BY <1>1, <2>1 DEF TurnedForever, Committed, Theirs, Books, OwedCreator, OwedPlatform
  <2>4. l \in Ledgers /\ l.b = k
    BY <1>1, <2>2 DEF Ledgers
  <2> HIDE DEF k, l
  <2> QED
    BY <1>1, <2>1, <2>2, <2>3, <2>4, TransactionOK DEF Allowed, b
<1>3. CASE CoolDown(m)
  <2> DEFINE k == [b EXCEPT !.cooling = FALSE]
             l == [b |-> k, c |-> cash]
  <2>1. Become(m, l)
    BY <1>3 DEF CoolDown, Become
  <2> HIDE DEF b
  <2>2. k \in Books /\ BooksOK(m, k)
    BY <1>1 DEF BooksOK, VaultOK, SeatsOK, MirrorOK, CutoffOK, Committed, Books,
                OwedCreator, OwedPlatform
  <2>3. SamePockets(m, b, k)
    BY <1>1 DEF SamePockets, Committed, Theirs, Books, OwedCreator, OwedPlatform
  <2>4. l \in Ledgers /\ l.b = k
    BY <1>1, <2>2 DEF Ledgers
  <2> HIDE DEF k, l
  <2> QED
    BY <1>1, <2>1, <2>2, <2>3, <2>4, TransactionOK DEF Allowed, b
<1> QED
  BY <1>2, <1>3

\* Ether that is no market's.
LEMMA StrayOK ==
  ASSUME IInv, (\E w \in Gifts : Stray(w)) \/ Sweep
  PROVE  IInv' /\ PromiseStep
<1>1. books' = books /\ inflows' \in 0 .. MaxInflows
  BY DEF Stray, Sweep, Inflow, IInv, TypeOK
<1>2. cash \in Balances
  BY DEF IInv, TypeOK
<1>3. cash' \in Balances
  <2>1. ASSUME NEW w \in Gifts, Stray(w) PROVE cash' \in Balances
    BY <1>2, <2>1, GetsOK DEF Stray
  <2>2. ASSUME Sweep PROVE cash' \in Balances
    <3> DEFINE s == cash.escrowStray
               t == cash.treasuryStray
    <3>1. s \in Nat /\ t \in Nat /\ -s \in Int /\ -t \in Int
      BY <1>2 DEF Balances
    <3>2. cash' = EscrowGets(cash, -s, -s) \/ cash' = TreasuryGets(cash, -t, -t)
      BY <2>2 DEF Sweep
    <3>3. s + (-s) = 0 /\ t + (-t) = 0
      BY <3>1
    <3>4. EscrowGets(cash, -s, -s) \in Balances
      <4> DEFINE x == cash.escrow + (-s)
                 y == cash.escrowStray + (-s)
      <4>1. x \in Int /\ y = 0
        BY <1>2, <3>1, <3>3 DEF Balances
      <4>2. EscrowGets(cash, -s, -s) = [cash EXCEPT !.escrow = x, !.escrowStray = y]
        BY DEF EscrowGets
      <4> HIDE DEF x, y
      <4>3. [cash EXCEPT !.escrow = x, !.escrowStray = y] \in Balances
        BY <1>2, <4>1 DEF Balances
      <4> QED
        BY <4>2, <4>3
    <3>5. TreasuryGets(cash, -t, -t) \in Balances
      <4> DEFINE x == cash.treasury + (-t)
                 y == cash.treasuryStray + (-t)
      <4>1. x \in Int /\ y = 0
        BY <1>2, <3>1, <3>3 DEF Balances
      <4>2. TreasuryGets(cash, -t, -t) = [cash EXCEPT !.treasury = x, !.treasuryStray = y]
        BY DEF TreasuryGets
      <4> HIDE DEF x, y
      <4>3. [cash EXCEPT !.treasury = x, !.treasuryStray = y] \in Balances
        BY <1>2, <4>1 DEF Balances
      <4> QED
        BY <4>2, <4>3
    <3> QED
      BY <3>2, <3>4, <3>5
  <2> QED
    BY <2>1, <2>2
<1>4. TypeOK'
  BY <1>1, <1>3 DEF IInv, TypeOK
<1>5. PromiseStep
  BY <1>1 DEF PromiseStep, Promise!vars
<1>6. (\A m \in Markets : BooksOK(m, books[m]))'
  BY <1>1 DEF IInv
<1> QED
  BY <1>4, <1>5, <1>6 DEF IInv

-----------------------------------------------------------------------------
(* The theorems.                                                            *)

LEMMA InitOK == Init => IInv /\ Promise!Init
<1> SUFFICES ASSUME Init PROVE IInv /\ Promise!Init
  OBVIOUS
<1>1. NewBooks \in Books
  BY DEF NewBooks, Books
<1>2. TypeOK
  BY <1>1 DEF Init, TypeOK, Balances
<1>3. \A m \in Markets : books[m] = NewBooks
  BY DEF Init
<1>4. \A m \in Markets : BooksOK(m, NewBooks)
  <2>1. VaultOK(NewBooks)
    BY DEF VaultOK, NewBooks, OwedCreator, OwedPlatform
  <2>2. CutoffOK(NewBooks)
    BY DEF CutoffOK, Committed, NewBooks, OwedCreator, OwedPlatform
  <2>3. ASSUME NEW m \in Markets PROVE SeatsOK(m, NewBooks)
    BY Zenon DEF SeatsOK, NewBooks
  <2>4. ASSUME NEW m \in Markets PROVE MirrorOK(m, NewBooks)
    BY Zenon DEF MirrorOK, NewBooks
  <2> QED
    BY <2>1, <2>2, <2>3, <2>4 DEF BooksOK
<1>5. \A m \in Markets : Committed(NewBooks) = 0 /\ Theirs(m, NewBooks) = 0
  BY DEF Committed, Theirs, NewBooks, OwedCreator, OwedPlatform
<1>6. ~NewBooks.boostEnabled /\ ~NewBooks.boostLocked
  BY DEF NewBooks
<1>7. NewBooks.boostEnabled = FALSE /\ NewBooks.boostLocked = FALSE
  BY DEF NewBooks
<1>8. Promise!Init
  BY <1>3, <1>5, <1>7 DEF Promise!Init
<1> QED
  BY <1>2, <1>3, <1>4, <1>8 DEF IInv

LEMMA NextOK == IInv /\ [Next]_vars => IInv' /\ PromiseStep
<1> SUFFICES ASSUME IInv, [Next]_vars PROVE IInv' /\ PromiseStep
  OBVIOUS
<1>1. CASE UNCHANGED vars
  BY <1>1 DEF vars, IInv, TypeOK, PromiseStep, Promise!vars
<1>2. ASSUME NEW m \in Markets, NEW leg \in Legs, Trade(m, leg)
      PROVE  IInv' /\ PromiseStep
  BY <1>2, TradeOK
<1>3. ASSUME NEW m \in Markets, NEW w \in Gifts, Contribute(m, w)
      PROVE  IInv' /\ PromiseStep
  BY <1>3, ContributeOK
<1>4. ASSUME NEW m \in Markets, NEW refund \in Refunds, Boost(m, refund)
      PROVE  IInv' /\ PromiseStep
  BY <1>4, BoostOK
<1>5. ASSUME NEW m \in Markets,
             DirectClaimCreator(m) \/ DirectClaimPlatform(m) \/ Register(m)
               \/ TreasurySettle(m) \/ Enroll(m) \/ Settle(m)
      PROVE  IInv' /\ PromiseStep
  BY <1>5, DirectClaimCreatorOK, DirectClaimPlatformOK, RegistrationOK, EnrollOK,
     SettleOK
<1>6. ASSUME NEW m \in Markets,
             Withdraw(m) \/ Pull(m) \/ WithdrawAgen(m) \/ Enable(m) \/ Disable(m)
               \/ Lock(m) \/ CoolDown(m)
      PROVE  IInv' /\ PromiseStep
  BY <1>6, WithdrawOK, WithdrawAgenOK, TurnOK, FlagOK
<1>7. CASE (\E w \in Gifts : Stray(w)) \/ Sweep
  BY <1>7, StrayOK
<1> QED
  BY <1>1, <1>2, <1>3, <1>4, <1>5, <1>6, <1>7 DEF Next

LEMMA Inductive == Spec => []IInv
<1>1. Init => IInv
  BY InitOK
<1>2. IInv /\ [Next]_vars => IInv'
  BY NextOK
<1> QED
  BY <1>1, <1>2, PTL DEF Spec

\* Whatever the transactions and their order, every book keeps its type.
THEOREM TypeCorrect == Spec => []TypeOK
<1>1. IInv => TypeOK
  BY DEF IInv
<1> QED
  BY <1>1, Inductive, PTL

\* What is spent on buybacks or committed to them is, to the wei, what was
\* earned while Boost was on and what was contributed.
THEOREM CutoffIsExact == Spec => []CutoffExact
<1>1. IInv => CutoffExact
  BY DEF IInv, CutoffExact, BooksOK, CutoffOK
<1> QED
  BY <1>1, Inductive, PTL

\* The treasury's copy of the switch is never other than the escrow's.
THEOREM MirrorsAgree == Spec => []MirrorInStep
<1>1. IInv => MirrorInStep
  BY DEF IInv, MirrorInStep, BooksOK, MirrorOK
<1> QED
  BY <1>1, Inductive, PTL

\* The vault, the escrow and the treasury implement the promise of Boost.
THEOREM PromiseImplemented == Spec => KeepsPromise
<1>1. Init => Promise!Init
  BY InitOK
<1>2. IInv /\ [Next]_vars => [Promise!Next]_(Promise!vars)
  BY NextOK DEF PromiseStep
<1> QED
  BY <1>1, <1>2, Inductive, PTL DEF Spec, KeepsPromise, Promise!Spec

-----------------------------------------------------------------------------
(* Solvency.                                                                *)

\* What a contract holds beyond what it owes for the market of a ledger, and
\* beyond its strays: it belongs to the other markets.
EscrowRest(l) ==
  l.c.escrow - l.c.escrowStray - (l.b.boostPending + l.b.creatorPending)

TreasuryRest(l) ==
  l.c.treasury - l.c.treasuryStray - (l.b.platformPending + l.b.agenPending)

\* A call that leaves the other markets' ether where it is.
Spares(l, k) == EscrowRest(k) = EscrowRest(l) /\ TreasuryRest(k) = TreasuryRest(l)

\* What the escrow receives moves its own two fields.
LEMMA EscrowGetsMoves ==
  ASSUME NEW c \in Balances, NEW w \in Int, NEW s \in Int
  PROVE  LET k == EscrowGets(c, w, s) IN
         /\ k.escrow = c.escrow + w /\ k.escrowStray = c.escrowStray + s
         /\ k.treasury = c.treasury /\ k.treasuryStray = c.treasuryStray
  BY DEF EscrowGets, Balances

\* What the treasury receives moves its own two fields.
LEMMA TreasuryGetsMoves ==
  ASSUME NEW c \in Balances, NEW w \in Int, NEW s \in Int
  PROVE  LET k == TreasuryGets(c, w, s) IN
         /\ k.treasury = c.treasury + w /\ k.treasuryStray = c.treasuryStray + s
         /\ k.escrow = c.escrow /\ k.escrowStray = c.escrowStray
  BY DEF TreasuryGets, Balances

\* What claimCreator brings is the market's own, or a stray.
LEMMA ClaimCreatorSpares ==
  ASSUME NEW m \in Markets, NEW l \in Ledgers, BooksOK(m, l.b)
  PROVE  Spares(l, ClaimCreator(l))
<1> DEFINE b == l.b
           w == OwedCreator(b)
           s == IF b.enrolled THEN 0 ELSE w
           f == ForgetCreator(b)
           k == EscrowBooks(f, w)
           c == EscrowGets(l.c, w, s)
<1>1. b \in Books /\ l.c \in Balances
  BY DEF Ledgers
<1>2. w \in Nat /\ s \in Nat
  BY <1>1, PocketsNat DEF BooksOK
<1>3. ClaimCreator(l) = [b |-> k, c |-> c]
  BY DEF ClaimCreator
<1>4. /\ c.escrow = l.c.escrow + w /\ c.escrowStray = l.c.escrowStray + s
      /\ c.treasury = l.c.treasury /\ c.treasuryStray = l.c.treasuryStray
  BY <1>1, <1>2, EscrowGetsMoves
<1> HIDE DEF w
<1>5. /\ k.boostPending + k.creatorPending + s = b.boostPending + b.creatorPending + w
      /\ k.platformPending = b.platformPending /\ k.agenPending = b.agenPending
      /\ k.boostPending \in Nat /\ k.creatorPending \in Nat
  BY <1>1, <1>2 DEF Books, ForgetCreator, EscrowBooks
<1> HIDE DEF k, c, s, f
<1> QED
  BY <1>1, <1>2, <1>3, <1>4, <1>5 DEF Spares, EscrowRest, TreasuryRest, Balances, Books

\* So is what claimPlatform brings.
LEMMA ClaimPlatformSpares ==
  ASSUME NEW m \in Markets, NEW l \in Ledgers, BooksOK(m, l.b)
  PROVE  Spares(l, ClaimPlatform(m, l))
<1> DEFINE b == l.b
           w == OwedPlatform(b)
           s == IF b.registered THEN 0 ELSE w
           f == ForgetPlatform(b)
           k == TreasuryBooks(f, w)
           c == TreasuryGets(l.c, w, s)
<1>1. b \in Books /\ l.c \in Balances
  BY DEF Ledgers
<1>2. w \in Nat /\ s \in Nat
  BY <1>1, PocketsNat DEF BooksOK
<1>3. CASE m \in Captured
  <2>1. ClaimPlatform(m, l) = [b |-> k, c |-> c]
    BY <1>3 DEF ClaimPlatform
  <2>2. /\ c.treasury = l.c.treasury + w /\ c.treasuryStray = l.c.treasuryStray + s
        /\ c.escrow = l.c.escrow /\ c.escrowStray = l.c.escrowStray
    BY <1>1, <1>2, TreasuryGetsMoves
  <2> HIDE DEF w
  <2>3. /\ k.platformPending + k.agenPending + s = b.platformPending + b.agenPending + w
        /\ k.boostPending = b.boostPending /\ k.creatorPending = b.creatorPending
        /\ k.platformPending \in Nat /\ k.agenPending \in Nat
    BY <1>1, <1>2 DEF Books, ForgetPlatform, TreasuryBooks
  <2> HIDE DEF k, c, s, f
  <2> QED
    BY <1>1, <1>2, <2>1, <2>2, <2>3 DEF Spares, EscrowRest, TreasuryRest, Balances, Books
<1>4. CASE m \notin Captured
  BY <1>1, <1>4 DEF ClaimPlatform, ForgetPlatform, Spares, EscrowRest, TreasuryRest, Books
<1> QED
  BY <1>3, <1>4

\* Enrolments, registrations and the switch set flags.
LEMMA FlagsSpare ==
  ASSUME NEW m \in Markets, NEW l \in Ledgers
  PROVE  /\ Spares(l, EnsureRegistered(l))
         /\ Spares(l, EnsureEnrolled(m, l))
         /\ \A boost \in BOOLEAN :
              Spares(l, [b |-> SetPlatformBoost([l.b EXCEPT !.boostEnabled = boost], boost),
                         c |-> l.c])
<1>1. l.b \in Books
  BY DEF Ledgers
<1>2. Spares(l, EnsureRegistered(l))
  BY <1>1 DEF EnsureRegistered, Spares, EscrowRest, TreasuryRest, Books
<1>3. Spares(l, EnsureEnrolled(m, l))
  BY <1>1 DEF EnsureEnrolled, Spares, EscrowRest, TreasuryRest, Books
<1>4. ASSUME NEW boost \in BOOLEAN
      PROVE  Spares(l, [b |-> SetPlatformBoost([l.b EXCEPT !.boostEnabled = boost], boost),
                        c |-> l.c])
  BY <1>1 DEF SetPlatformBoost, Spares, EscrowRest, TreasuryRest, Books
<1> QED
  BY <1>2, <1>3, <1>4

\* A settlement is a claim or nothing.
LEMMA SettlementsSpare ==
  ASSUME NEW m \in Markets, NEW l \in Ledgers, BooksOK(m, l.b)
  PROVE  /\ Spares(l, SettleCreator(l))
         /\ Spares(l, SettlePlatform(m, l))
  BY ClaimCreatorSpares, ClaimPlatformSpares DEF SettleCreator, SettlePlatform, Spares

\* pullForBoost: what the treasury pays the escrow receives.
LEMMA PullSpares ==
  ASSUME NEW l \in Ledgers
  PROVE  Spares(l, PullPlatform(l))
<1> DEFINE b == l.b
           w == b.platformPending
           half == TreasuryGets(l.c, -w, 0)
           c == EscrowGets(half, w, 0)
           k == Routed(b)
<1>1. b \in Books /\ l.c \in Balances /\ w \in Nat /\ -w \in Int
  BY DEF Ledgers, Books
<1>2. CASE ~b.platformBoosted \/ w = 0
  BY <1>2 DEF PullPlatform, Spares
<1>3. CASE ~(~b.platformBoosted \/ w = 0)
  <2>1. PullPlatform(l) = [b |-> k, c |-> c]
    BY <1>3 DEF PullPlatform
  <2>2. half \in Balances
    BY <1>1, GetsOK
  <2>3. /\ half.treasury = l.c.treasury + (-w) /\ half.treasuryStray = l.c.treasuryStray + 0
        /\ half.escrow = l.c.escrow /\ half.escrowStray = l.c.escrowStray
    BY <1>1, TreasuryGetsMoves
  <2>4. /\ c.escrow = half.escrow + w /\ c.escrowStray = half.escrowStray + 0
        /\ c.treasury = half.treasury /\ c.treasuryStray = half.treasuryStray
    <3> HIDE DEF half
    <3> QED
      BY <1>1, <2>2, EscrowGetsMoves
  <2>5. /\ k.boostPending = b.boostPending + w /\ k.creatorPending = b.creatorPending
        /\ k.platformPending = 0 /\ k.agenPending = b.agenPending
    BY <1>1 DEF Routed, Books
  <2>6. w = b.platformPending
    OBVIOUS
  <2> HIDE DEF k, c, half, w
  <2> QED
    BY <1>1, <2>1, <2>3, <2>4, <2>5, <2>6 DEF Spares, EscrowRest, TreasuryRest, Balances, Books
<1> QED
  BY <1>2, <1>3

\* A buyback spends what it takes off the commitment.
LEMMA SwapSpares ==
  ASSUME NEW l \in Ledgers, NEW refund \in Nat
  PROVE  Spares(l, Swapped(l, refund))
<1> DEFINE b == l.b
           in == b.boostPending
           spent == in - refund
           h == [b EXCEPT !.boostPending = refund, !.boostSpent = @ + spent, !.cooling = TRUE]
           k == Collect(h, in)
           c == EscrowGets(l.c, -spent, 0)
<1>1. b \in Books /\ l.c \in Balances /\ in \in Nat /\ -spent \in Int
  BY DEF Ledgers, Books
<1>2. Swapped(l, refund) = [b |-> k, c |-> c]
  BY DEF Swapped
<1>3. /\ c.escrow = l.c.escrow + (-spent) /\ c.escrowStray = l.c.escrowStray + 0
      /\ c.treasury = l.c.treasury /\ c.treasuryStray = l.c.treasuryStray
  BY <1>1, EscrowGetsMoves
<1>4. /\ k.boostPending = refund /\ k.creatorPending = b.creatorPending
      /\ k.platformPending = b.platformPending /\ k.agenPending = b.agenPending
  BY <1>1 DEF Collect, Books
<1>5. spent = b.boostPending - refund
  OBVIOUS
<1> HIDE DEF k, c, spent
<1> QED
  BY <1>1, <1>2, <1>3, <1>4, <1>5 DEF Spares, EscrowRest, TreasuryRest, Balances, Books

\* The owner is paid what was pending.
LEMMA PayingSpares ==
  ASSUME NEW l \in Ledgers
  PROVE  Spares(l, PaidOwner(l))
<1> DEFINE b == l.b
           w == b.creatorPending
           k == [b EXCEPT !.creatorPending = 0]
           c == EscrowGets(l.c, -w, 0)
<1>1. b \in Books /\ l.c \in Balances /\ w \in Nat /\ -w \in Int
  BY DEF Ledgers, Books
<1>2. PaidOwner(l) = [b |-> k, c |-> c]
  BY DEF PaidOwner
<1>3. /\ c.escrow = l.c.escrow + (-w) /\ c.escrowStray = l.c.escrowStray + 0
      /\ c.treasury = l.c.treasury /\ c.treasuryStray = l.c.treasuryStray
  BY <1>1, EscrowGetsMoves
<1>4. /\ k.boostPending = b.boostPending /\ k.creatorPending = 0
      /\ k.platformPending = b.platformPending /\ k.agenPending = b.agenPending
  BY <1>1 DEF Books
<1>5. w = b.creatorPending
  OBVIOUS
<1> HIDE DEF k, c, w
<1> QED
  BY <1>1, <1>2, <1>3, <1>4, <1>5 DEF Spares, EscrowRest, TreasuryRest, Balances, Books

\* The balances, over SumOf, whose arguments can be primed.
Covered ==
  /\ cash.escrow = cash.escrowStray + SumOf(EscrowOwes, Markets)
  /\ cash.treasury = cash.treasuryStray + SumOf(TreasuryOwes, Markets)

\* A transaction of one market that spares the others keeps all covered.
LEMMA TransactionCovered ==
  ASSUME IInv, Covered, NEW m \in Markets, NEW l \in Ledgers, Become(m, l),
         Spares(Ledger(m), l)
  PROVE  Covered'
<1> DEFINE b == books[m]
           E == EscrowOwes
           T == TreasuryOwes
<1>1. /\ books \in [Markets -> Books] /\ cash \in Balances /\ b \in Books
      /\ l.b \in Books /\ l.c \in Balances
      /\ books' = [books EXCEPT ![m] = l.b] /\ cash' = l.c
  BY DEF IInv, TypeOK, Ledgers, Become
<1>2. /\ Ledger(m).b = b /\ Ledger(m).c = cash
  BY DEF Ledger
<1>3. /\ \A k \in Markets : E[k] \in Int /\ T[k] \in Int
      /\ E[m] = b.boostPending + b.creatorPending
      /\ T[m] = b.platformPending + b.agenPending
  BY <1>1 DEF EscrowOwes, TreasuryOwes, Books
<1>4. \A k \in Markets : /\ E'[k] = books'[k].boostPending + books'[k].creatorPending
                        /\ T'[k] = books'[k].platformPending + books'[k].agenPending
  BY DEF EscrowOwes, TreasuryOwes
<1>5. /\ E'[m] = l.b.boostPending + l.b.creatorPending /\ E'[m] \in Int
      /\ T'[m] = l.b.platformPending + l.b.agenPending /\ T'[m] \in Int
  BY <1>1, <1>4 DEF Books
<1>6. \A k \in Markets \ {m} : E'[k] = E[k] /\ T'[k] = T[k]
  BY <1>1, <1>4 DEF EscrowOwes, TreasuryOwes
<1>7. SumOf(E', Markets) = SumOf(E, Markets) - E[m] + E'[m]
  <2>1. \A k \in Markets : E[k] \in Int /\ E'[k] \in Int
    BY <1>3, <1>5, <1>6
  <2> HIDE DEF E
  <2> QED
    BY <1>6, <2>1, MarketsAssumption, SumChange
<1>8. SumOf(T', Markets) = SumOf(T, Markets) - T[m] + T'[m]
  <2>1. \A k \in Markets : T[k] \in Int /\ T'[k] \in Int
    BY <1>3, <1>5, <1>6
  <2> HIDE DEF T
  <2> QED
    BY <1>6, <2>1, MarketsAssumption, SumChange
<1>9. SumOf(E, Markets) \in Int /\ SumOf(T, Markets) \in Int
  <2> HIDE DEF E, T
  <2> QED
    BY <1>3, MarketsAssumption, SumInt
<1>10. /\ l.c.escrow - l.c.escrowStray - E'[m] = cash.escrow - cash.escrowStray - E[m]
       /\ l.c.treasury - l.c.treasuryStray - T'[m] = cash.treasury - cash.treasuryStray - T[m]
  <2>1. Spares(Ledger(m), l)
    OBVIOUS
  <2> HIDE DEF E, T, b
  <2> QED
    BY <1>2, <1>3, <1>5, <2>1 DEF Spares, EscrowRest, TreasuryRest
<1>11. /\ cash.escrow = cash.escrowStray + SumOf(E, Markets)
       /\ cash.treasury = cash.treasuryStray + SumOf(T, Markets)
  BY DEF Covered
<1>12. /\ l.c.escrow \in Int /\ l.c.escrowStray \in Int
       /\ l.c.treasury \in Int /\ l.c.treasuryStray \in Int
       /\ E[m] \in Int /\ T[m] \in Int /\ E'[m] \in Int /\ T'[m] \in Int
       /\ cash.escrowStray \in Int /\ cash.treasuryStray \in Int
  BY <1>1, <1>3, <1>5 DEF Balances
<1> HIDE DEF E, T
<1>13. /\ l.c.escrow = l.c.escrowStray + SumOf(E', Markets)
       /\ l.c.treasury = l.c.treasuryStray + SumOf(T', Markets)
  BY <1>7, <1>8, <1>9, <1>10, <1>11, <1>12
<1> QED
  BY <1>1, <1>13 DEF Covered, E, T

\* Every transaction is one market's and spares the others, or moves a stray.
LEMMA EveryTransactionSpares ==
  ASSUME IInv, NEW m \in Markets,
         \/ \E leg \in Legs : Trade(m, leg)
         \/ DirectClaimCreator(m) \/ DirectClaimPlatform(m)
         \/ Register(m) \/ TreasurySettle(m) \/ Enroll(m) \/ Settle(m)
         \/ \E w \in Gifts : Contribute(m, w)
         \/ Withdraw(m) \/ Pull(m) \/ WithdrawAgen(m)
         \/ \E refund \in Refunds : Boost(m, refund)
         \/ Enable(m) \/ Disable(m) \/ Lock(m) \/ CoolDown(m)
  PROVE  \E l \in Ledgers : Become(m, l) /\ Spares(Ledger(m), l)
<1> DEFINE l == Ledger(m)
           b == books[m]
           Fine == \E k \in Ledgers : Become(m, k) /\ Spares(l, k)
<1> SUFFICES Fine
  OBVIOUS
<1>1. l \in Ledgers /\ l.b = b /\ l.c = cash /\ BooksOK(m, b) /\ b \in Books /\ cash \in Balances
  BY DEF Ledger, Ledgers, IInv, TypeOK
<1>2. ASSUME NEW leg \in Legs, Trade(m, leg) PROVE Fine
  <2> DEFINE k == Collect(b, leg)
             r == [b |-> k, c |-> cash]
  <2>1. Become(m, r)
    BY <1>2 DEF Trade
  <2>2. k \in Books
    BY <1>1, CollectOK
  <2>3. /\ k.boostPending = b.boostPending /\ k.creatorPending = b.creatorPending
        /\ k.platformPending = b.platformPending /\ k.agenPending = b.agenPending
    BY <1>1 DEF Collect, Books
  <2>4. r \in Ledgers /\ r.b = k /\ r.c = cash
    BY <1>1, <2>2 DEF Ledgers
  <2> HIDE DEF k, r, b, l
  <2>5. Spares(l, r)
    BY <1>1, <2>3, <2>4 DEF Spares, EscrowRest, TreasuryRest
  <2> QED
    BY <2>1, <2>4, <2>5
<1>3. CASE DirectClaimCreator(m)
  <2> DEFINE w == OwedCreator(b)
             s == IF b.enrolled THEN 0 ELSE w
             r == ClaimCreator(l)
  <2>1. Become(m, r)
    BY <1>3 DEF DirectClaimCreator
  <2>2. r = [b |-> CreatorPaid(b), c |-> EscrowGets(cash, w, s)]
    BY <1>1 DEF ClaimCreator, CreatorPaid
  <2>3. CreatorPaid(b) \in Books
    BY <1>1, CreatorPaidOK
  <2>4. w \in Nat /\ s \in Nat
    BY <1>1, PocketsNat DEF BooksOK
  <2>5. EscrowGets(cash, w, s) \in Balances
    BY <1>1, <2>4, GetsOK
  <2>6. Spares(l, r)
    BY <1>1, ClaimCreatorSpares
  <2> HIDE DEF r, l, w, s, b
  <2>7. r \in Ledgers
    BY <2>2, <2>3, <2>5 DEF Ledgers
  <2> QED
    BY <2>1, <2>6, <2>7
<1>4. CASE DirectClaimPlatform(m)
  <2>1. Become(m, ClaimPlatform(m, l)) /\ OwedPlatform(b) > 0
    BY <1>4 DEF DirectClaimPlatform
  <2> HIDE DEF l, b
  <2> QED
    BY <1>1, <2>1, ClaimPlatformOK, ClaimPlatformSpares
<1>5. CASE Register(m) \/ TreasurySettle(m)
  <2> DEFINE e == EnsureRegistered(l)
  <2>1. m \in Captured
    BY <1>5 DEF Register, TreasurySettle
  <2>2. e \in Ledgers /\ BooksOK(m, e.b) /\ Spares(l, e)
    <3> HIDE DEF l, b
    <3> QED
      BY <1>1, <2>1, RegisterOK, FlagsSpare
  <2>3. CASE Become(m, e)
    BY <2>2, <2>3
  <2>4. CASE Become(m, ClaimPlatform(m, e)) /\ OwedPlatform(e.b) # 0
    <3> HIDE DEF e, l
    <3>1. OwedPlatform(e.b) > 0
      BY <2>2, <2>4, PocketsNat DEF BooksOK, Ledgers
    <3>2. ClaimPlatform(m, e) \in Ledgers /\ Spares(e, ClaimPlatform(m, e))
      BY <2>2, <3>1, ClaimPlatformOK, ClaimPlatformSpares
    <3>3. Spares(l, ClaimPlatform(m, e))
      BY <2>2, <3>2 DEF Spares
    <3> QED
      BY <2>4, <3>2, <3>3
  <2> QED
    BY <1>5, <2>3, <2>4 DEF Register, TreasurySettle
<1> DEFINE e == EnsureEnrolled(m, l)
           settled == SettleCreator(e)
<1>6. /\ e \in Ledgers /\ BooksOK(m, e.b) /\ e.b.enrolled /\ Spares(l, e)
      /\ settled \in Ledgers /\ BooksOK(m, settled.b) /\ Spares(l, settled)
  <2>1. /\ e \in Ledgers /\ BooksOK(m, e.b) /\ e.b.enrolled
        /\ settled \in Ledgers /\ BooksOK(m, settled.b)
    BY EnrolledAndSettled
  <2> HIDE DEF l
  <2>2. Spares(l, e)
    BY <1>1, FlagsSpare
  <2> HIDE DEF e
  <2>3. Spares(e, settled)
    BY <2>1, SettlementsSpare
  <2> HIDE DEF settled
  <2> QED
    BY <2>1, <2>2, <2>3 DEF Spares
<1>7. CASE Enroll(m) \/ Settle(m) \/ Pull(m)
  <2>1. Become(m, e) \/ Become(m, settled) \/ Become(m, PaidOwner(settled))
    BY <1>7 DEF Enroll, Settle, Pull
  <2> HIDE DEF l, e, settled
  <2>2. PaidOwner(settled) \in Ledgers /\ Spares(settled, PaidOwner(settled))
    BY <1>6, PaidOwnerOK, PayingSpares
  <2>3. Spares(l, PaidOwner(settled))
    BY <1>6, <2>2 DEF Spares
  <2> QED
    BY <1>6, <2>1, <2>2, <2>3
<1>8. ASSUME NEW w \in Gifts, Contribute(m, w) PROVE Fine
  <2> DEFINE x == e.b.boostPending + w
             y == e.b.agenContributed + w
             k == [e.b EXCEPT !.boostPending = x, !.agenContributed = y]
             c == EscrowGets(e.c, w, 0)
             r == [b |-> k, c |-> c]
  <2>1. Become(m, r)
    BY <1>8 DEF Contribute
  <2>2. e.b \in Books /\ e.c \in Balances /\ w \in Nat
    BY <1>6 DEF Ledgers
  <2>3. x \in Nat /\ y \in Nat /\ x = e.b.boostPending + w
    BY <2>2 DEF Books
  <2>4. c \in Balances
    BY <2>2, GetsOK
  <2>5. /\ c.escrow = e.c.escrow + w /\ c.escrowStray = e.c.escrowStray + 0
        /\ c.treasury = e.c.treasury /\ c.treasuryStray = e.c.treasuryStray
    BY <2>2, EscrowGetsMoves
  <2> HIDE DEF x, y, c, e, l
  <2>6. /\ k \in Books
        /\ k.boostPending = x /\ k.creatorPending = e.b.creatorPending
        /\ k.platformPending = e.b.platformPending /\ k.agenPending = e.b.agenPending
    BY <2>2, <2>3 DEF Books
  <2>7. r \in Ledgers /\ r.b = k /\ r.c = c
    BY <2>4, <2>6 DEF Ledgers
  <2> HIDE DEF k, r
  <2>8. Spares(e, r)
    BY <2>2, <2>3, <2>5, <2>6, <2>7 DEF Spares, EscrowRest, TreasuryRest, Balances, Books
  <2>9. Spares(l, r)
    BY <1>6, <2>8 DEF Spares
  <2> QED
    BY <2>1, <2>7, <2>9
<1>9. CASE Withdraw(m)
  <2>1. Become(m, PaidOwner(l))
    BY <1>9 DEF Withdraw
  <2> HIDE DEF l, b
  <2> QED
    BY <1>1, <2>1, PaidOwnerOK, PayingSpares
<1>10. CASE WithdrawAgen(m)
  <2> DEFINE w == b.agenPending
             k == [b EXCEPT !.agenPending = 0]
             c == TreasuryGets(cash, -w, 0)
             r == [b |-> k, c |-> c]
  <2>1. Become(m, r)
    BY <1>10 DEF WithdrawAgen
  <2>2. w \in Nat /\ -w \in Int /\ w = b.agenPending
    BY <1>1 DEF Books
  <2>3. c \in Balances
    BY <1>1, <2>2, GetsOK
  <2>4. /\ c.treasury = cash.treasury + (-w) /\ c.treasuryStray = cash.treasuryStray + 0
        /\ c.escrow = cash.escrow /\ c.escrowStray = cash.escrowStray
    BY <1>1, <2>2, TreasuryGetsMoves
  <2> HIDE DEF w, c, b, l
  <2>5. /\ k \in Books
        /\ k.boostPending = b.boostPending /\ k.creatorPending = b.creatorPending
        /\ k.platformPending = b.platformPending /\ k.agenPending = 0
    BY <1>1 DEF Books
  <2>6. r \in Ledgers /\ r.b = k /\ r.c = c
    BY <2>3, <2>5 DEF Ledgers
  <2> HIDE DEF k, r
  <2>7. Spares(l, r)
    BY <1>1, <2>2, <2>4, <2>5, <2>6 DEF Spares, EscrowRest, TreasuryRest, Balances, Books
  <2> QED
    BY <2>1, <2>6, <2>7
<1>11. ASSUME NEW refund \in Refunds, Boost(m, refund) PROVE Fine
  <2> DEFINE s == SettleCreator(e)
             t == SettlePlatform(m, s)
             g == PullPlatform(t)
             r == Swapped(g, refund)
  <2>1. /\ Gathered(m) = g
        /\ Become(m, r) /\ refund + TotalOf(g.b.boostPending) < g.b.boostPending
        /\ refund \in Nat
    BY <1>11 DEF Boost, Gathered, SettleBoth
  <2>2. g \in Ledgers /\ BooksOK(m, g.b)
    BY <2>1, GatheredOK
  <2> HIDE DEF e, l
  <2>3. s \in Ledgers /\ BooksOK(m, s.b) /\ s.b.enrolled /\ Spares(e, s)
    BY <1>6, SettleCreatorOK, SettlementsSpare DEF SameSeats
  <2> HIDE DEF s
  <2>4. t \in Ledgers /\ Spares(s, t)
    BY <2>3, SettlePlatformOK, SettlementsSpare
  <2> HIDE DEF t
  <2>5. Spares(t, g)
    BY <2>4, PullSpares
  <2> HIDE DEF g
  <2>6. r \in Ledgers /\ Spares(g, r)
    BY <2>1, <2>2, SwappedOK, SwapSpares
  <2> HIDE DEF r
  <2>7. Spares(l, r)
    BY <1>6, <2>3, <2>4, <2>5, <2>6 DEF Spares
  <2> QED
    BY <2>1, <2>6, <2>7
<1>12. ASSUME NEW k \in Ledgers, BooksOK(m, k.b), k.b.enrolled, ~k.b.boostLocked,
              NEW boost \in BOOLEAN, Spares(l, k), Become(m, Switch(m, k, boost))
       PROVE  Fine
  <2> DEFINE s == SettleCreator(k)
             t == SettlePlatform(m, s)
             r == Switch(m, k, boost)
  <2>1. r = [b |-> SetPlatformBoost([t.b EXCEPT !.boostEnabled = boost], boost), c |-> t.c]
    BY DEF Switch, SettleBoth
  <2>2. r \in Ledgers
    BY <1>12, SwitchOK
  <2> HIDE DEF l
  <2>3. s \in Ledgers /\ BooksOK(m, s.b) /\ s.b.enrolled /\ Spares(k, s)
    BY <1>12, SettleCreatorOK, SettlementsSpare DEF SameSeats
  <2> HIDE DEF s
  <2>4. t \in Ledgers /\ Spares(s, t)
    BY <2>3, SettlePlatformOK, SettlementsSpare
  <2> HIDE DEF t, r
  <2>5. Spares(t, r)
    BY <2>1, <2>4, FlagsSpare
  <2>6. Spares(l, r)
    BY <1>12, <2>3, <2>4, <2>5 DEF Spares
  <2> QED
    BY <1>12, <2>2, <2>6 DEF r
<1>13. CASE Enable(m) \/ Disable(m)
  <2>1. CASE Enable(m)
    <3>1. ~e.b.boostEnabled /\ Become(m, Switch(m, e, TRUE))
      BY <2>1 DEF Enable
    <3> HIDE DEF e, l
    <3>2. ~e.b.boostLocked
      BY <1>6, <3>1 DEF BooksOK, SeatsOK, Books, Ledgers
    <3> QED
      BY <1>6, <1>12, <3>1, <3>2
  <2>2. CASE Disable(m)
    <3>1. b.boostEnabled /\ ~b.boostLocked /\ Become(m, Switch(m, l, FALSE))
      BY <2>2 DEF Disable
    <3>2. b.enrolled
      BY <1>1, <3>1 DEF BooksOK, SeatsOK, Books
    <3> HIDE DEF l, b
    <3>3. Spares(l, l)
      BY DEF Spares
    <3> QED
      BY <1>1, <1>12, <3>1, <3>2, <3>3
  <2> QED
    BY <1>13, <2>1, <2>2
<1>14. CASE Lock(m) \/ CoolDown(m)
  <2>1. PICK k \in {[b EXCEPT !.boostLocked = TRUE], [b EXCEPT !.cooling = FALSE]} :
          books' = [books EXCEPT ![m] = k] /\ cash' = cash
    BY <1>14 DEF Lock, CoolDown
  <2> DEFINE r == [b |-> k, c |-> cash]
  <2>2. Become(m, r)
    BY <2>1 DEF Become
  <2> HIDE DEF b, l
  <2>3. /\ k \in Books
        /\ k.boostPending = b.boostPending /\ k.creatorPending = b.creatorPending
        /\ k.platformPending = b.platformPending /\ k.agenPending = b.agenPending
    BY <1>1, <2>1 DEF Books
  <2>4. r \in Ledgers /\ r.b = k /\ r.c = cash
    BY <1>1, <2>3 DEF Ledgers
  <2> HIDE DEF r
  <2>5. Spares(l, r)
    BY <1>1, <2>3, <2>4 DEF Spares, EscrowRest, TreasuryRest
  <2> QED
    BY <2>2, <2>4, <2>5
<1> QED
  BY <1>2, <1>3, <1>4, <1>5, <1>7, <1>8, <1>9, <1>10, <1>11, <1>13, <1>14

\* A stray transfer and a sweep move a balance and its strays by as much.
LEMMA StrayCovered ==
  ASSUME IInv, Covered, (\E w \in Gifts : Stray(w)) \/ Sweep
  PROVE  Covered'
<1>1. cash \in Balances
  BY DEF IInv, TypeOK
<1>2. PICK w \in Int : /\ \/ cash' = EscrowGets(cash, w, w)
                          \/ cash' = TreasuryGets(cash, w, w)
                       /\ books' = books
  <2>1. ASSUME NEW g \in Gifts, Stray(g)
        PROVE  \E w \in Int : /\ \/ cash' = EscrowGets(cash, w, w)
                                 \/ cash' = TreasuryGets(cash, w, w)
                              /\ books' = books
    BY <2>1 DEF Stray
  <2>2. ASSUME Sweep
        PROVE  \E w \in Int : /\ \/ cash' = EscrowGets(cash, w, w)
                                 \/ cash' = TreasuryGets(cash, w, w)
                              /\ books' = books
    <3>1. -cash.escrowStray \in Int /\ -cash.treasuryStray \in Int
      BY <1>1 DEF Balances
    <3> QED
      BY <2>2, <3>1 DEF Sweep
  <2> QED
    BY <2>1, <2>2
<1>3. EscrowOwes' = EscrowOwes /\ TreasuryOwes' = TreasuryOwes
  BY <1>2 DEF EscrowOwes, TreasuryOwes
<1>4. /\ cash'.escrow - cash'.escrowStray = cash.escrow - cash.escrowStray
      /\ cash'.treasury - cash'.treasuryStray = cash.treasury - cash.treasuryStray
      /\ cash'.escrow \in Int /\ cash'.escrowStray \in Int
      /\ cash'.treasury \in Int /\ cash'.treasuryStray \in Int
  <2>1. CASE cash' = EscrowGets(cash, w, w)
    <3>1. /\ cash'.escrow = cash.escrow + w /\ cash'.escrowStray = cash.escrowStray + w
          /\ cash'.treasury = cash.treasury /\ cash'.treasuryStray = cash.treasuryStray
      BY <1>1, <2>1, EscrowGetsMoves
    <3> QED
      BY <1>1, <3>1 DEF Balances
  <2>2. CASE cash' = TreasuryGets(cash, w, w)
    <3>1. /\ cash'.treasury = cash.treasury + w /\ cash'.treasuryStray = cash.treasuryStray + w
          /\ cash'.escrow = cash.escrow /\ cash'.escrowStray = cash.escrowStray
      BY <1>1, <2>2, TreasuryGetsMoves
    <3> QED
      BY <1>1, <3>1 DEF Balances
  <2> QED
    BY <1>2, <2>1, <2>2
<1>5. SumOf(EscrowOwes, Markets) \in Int /\ SumOf(TreasuryOwes, Markets) \in Int
  <2>1. \A k \in Markets : EscrowOwes[k] \in Int /\ TreasuryOwes[k] \in Int
    BY DEF IInv, TypeOK, EscrowOwes, TreasuryOwes, Books
  <2> QED
    BY <2>1, MarketsAssumption, SumInt
<1> QED
  BY <1>1, <1>3, <1>4, <1>5 DEF Covered, Balances

\* Nothing is held and nothing owed at first.
LEMMA CoveredInit == Init => Covered
<1> SUFFICES ASSUME Init PROVE Covered
  OBVIOUS
<1>1. \A k \in Markets : EscrowOwes[k] = 0 /\ TreasuryOwes[k] = 0
  BY DEF Init, NewBooks, EscrowOwes, TreasuryOwes
<1>2. SumOf(EscrowOwes, Markets) = 0 /\ SumOf(TreasuryOwes, Markets) = 0
  BY <1>1, MarketsAssumption, SumZero
<1> QED
  BY <1>2 DEF Init, Covered

\* No transaction leaves a balance short, or long.
LEMMA CoveredStep == IInv /\ Covered /\ [Next]_vars => Covered'
<1> SUFFICES ASSUME IInv, Covered, [Next]_vars PROVE Covered'
  OBVIOUS
<1>1. CASE UNCHANGED vars
  BY <1>1 DEF vars, Covered, EscrowOwes, TreasuryOwes
<1>2. CASE (\E w \in Gifts : Stray(w)) \/ Sweep
  BY <1>2, StrayCovered
<1>3. ASSUME NEW m \in Markets,
             \/ \E leg \in Legs : Trade(m, leg)
             \/ DirectClaimCreator(m) \/ DirectClaimPlatform(m)
             \/ Register(m) \/ TreasurySettle(m) \/ Enroll(m) \/ Settle(m)
             \/ \E w \in Gifts : Contribute(m, w)
             \/ Withdraw(m) \/ Pull(m) \/ WithdrawAgen(m)
             \/ \E refund \in Refunds : Boost(m, refund)
             \/ Enable(m) \/ Disable(m) \/ Lock(m) \/ CoolDown(m)
      PROVE  Covered'
  BY <1>3, EveryTransactionSpares, TransactionCovered
<1> QED
  BY <1>1, <1>2, <1>3 DEF Next

\* Whatever is traded, claimed, switched, withdrawn and swept, on however many
\* markets, each contract holds exactly what its books say it owes.
THEOREM AlwaysSolvent == Spec => []Solvent
<1>1. IInv /\ Covered => Solvent
  <2>1. ASSUME IInv PROVE \A m \in Markets :
          books[m].claims = OwedCreator(books[m]) + OwedPlatform(books[m])
    BY <2>1 DEF IInv, BooksOK, VaultOK
  <2> QED
    BY <2>1 DEF Solvent, Covered, SumOf
<1> QED
  BY <1>1, CoveredInit, CoveredStep, Inductive, PTL DEF Spec

===============================================================================
