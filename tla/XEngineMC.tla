----------------------------- MODULE XEngineMC -----------------------------
(* Small instances of XEngine: two accounts, and who wrote which post.       *)
EXTENDS XEngine, TLC

CONSTANTS ann, bob, p1, p2, h1, h2

\* One account wrote every post.
SameAuthor == [p \in Posts |-> ann]

\* Each account wrote one post, and bob any others.
OwnAuthor == [p \in Posts |-> IF p = p1 THEN ann ELSE bob]

\* Handlers and transactions have no names of their own.
Interchangeable == Permutations(Handlers) \cup Permutations(Tx)

=============================================================================
