----------------------------- MODULE MCMpQueue -----------------------------
(* MpQueue on a small instance.                                            *)
EXTENDS MpQueue
=============================================================================
