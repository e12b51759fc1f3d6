---------------------------- MODULE AgentSpendMC ----------------------------
(* Small instances of AgentSpend.                                           *)
EXTENDS AgentSpend, TLC

\* Calls of one kind are alike.
Interchangeable == Permutations(Launches) \cup Permutations(Buys)

=============================================================================
