--------------------------- MODULE MCGcdCoherence ---------------------------
EXTENDS GcdCoherence
=============================================================================
