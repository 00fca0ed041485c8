--------------------------- MODULE MCFieldServer ----------------------------
EXTENDS FieldServer
=============================================================================
