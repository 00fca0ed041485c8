--------------------------- MODULE MCFieldClient ----------------------------
EXTENDS FieldClient
=============================================================================
