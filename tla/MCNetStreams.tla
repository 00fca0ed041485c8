---------------------------- MODULE MCNetStreams ----------------------------
EXTENDS NetStreams
=============================================================================
