--------------------------- MODULE MCReservations ---------------------------
\* Model checking of Reservations.
EXTENDS Reservations, TLC

CONSTANTS u1, u2, r1, r2

Symmetry == Permutations(Requests)

=============================================================================
