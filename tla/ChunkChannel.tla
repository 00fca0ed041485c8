---------------------------- MODULE ChunkChannel ----------------------------
(***************************************************************************)
(* What a netOutStream and the netInStream at the other end promise their  *)
(* users (net.h): the chunks that are sent are read whole, once each and   *)
(* in the order they were sent.  Chunks are numbered as they are sent.     *)
(***************************************************************************)
EXTENDS Naturals, Sequences

VARIABLES
  sent,      (* how many chunks were sent *)
  received   (* the chunks that were read, in order *)

Init == sent = 0 /\ received = <<>>

Send == sent' = sent + 1 /\ UNCHANGED received

Receive ==
  /\ Len(received) < sent
  /\ received' = Append(received, Len(received) + 1)
  /\ UNCHANGED sent

Spec == Init /\ [][Send \/ Receive]_<<sent, received>>
=============================================================================
