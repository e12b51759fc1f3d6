------------------------------ MODULE BoostMC -------------------------------
(* Markets of one creator: m1 pays the BoostTreasury, m2 another contract,   *)
(* m3 a wallet.                                                             *)
EXTENDS Boost

CONSTANTS m1, m2, m3

MCMarkets == {m1, m2, m3}

MCCaptured == {m1}

MCCodeless == {m3}

=============================================================================
