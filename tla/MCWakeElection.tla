--------------------------- MODULE MCWakeElection ---------------------------
EXTENDS WakeElection
MCRanks == 1 .. 3
=============================================================================
