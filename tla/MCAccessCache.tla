--------------------------- MODULE MCAccessCache ---------------------------
\* Two users, two goroutines that change rules and the poller.
EXTENDS AccessCache
=============================================================================
