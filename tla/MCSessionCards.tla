--------------------------- MODULE MCSessionCards ---------------------------
\* SessionCards for TLC.
EXTENDS SessionCards, TLC
=============================================================================
