--------------------------- MODULE MCSessionStart ---------------------------
\* SessionStart for TLC.
EXTENDS SessionStart, TLC
=============================================================================
