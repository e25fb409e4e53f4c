--------------------------- MODULE MCSaveState ---------------------------
\* SaveState with small bounds.
EXTENDS SaveState
==========================================================================
