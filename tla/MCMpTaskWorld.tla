--------------------------- MODULE MCMpTaskWorld ----------------------------
EXTENDS MpTaskWorld
=============================================================================
