---------------------------- MODULE SeatClaimMC ------------------------------
(* Two wallets beside Agen's two; w2 is a contract that refuses ether.      *)
EXTENDS SeatClaim

CONSTANTS op, sp, w1, w2

MCAddresses == {op, sp, w1, w2}

=============================================================================
