---------------------------- MODULE AgentRunsMC ----------------------------
(* Small instances of AgentRuns.                                            *)
EXTENDS AgentRuns, TLC

\* Schedulers are alike, and requests of the owner have no names of their own.
Interchangeable == Permutations(Owners) \cup Permutations(Schedulers)

=============================================================================
