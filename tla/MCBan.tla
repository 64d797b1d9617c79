------------------------------- MODULE MCBan -------------------------------
\* One prefix, in and out of two windows and more, and a weight above the threshold.
EXTENDS Ban
=============================================================================
