----------------------------- MODULE MCMagicLink -----------------------------
\* Model checking of MagicLink.
EXTENDS MagicLink, TLC

CONSTANTS u1, u2, a1, a2, r1, r2

TwoUsers == {u1, u2}
TwoAddresses == {a1, a2}
TwoRequests == {r1, r2}

\* Users, addresses and requests are interchangeable when no user is provisioned.
Symmetry == Permutations(TwoUsers) \union Permutations(TwoAddresses) \union Permutations(TwoRequests)

=============================================================================
