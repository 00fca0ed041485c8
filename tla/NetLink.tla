------------------------------- MODULE NetLink ------------------------------
(***************************************************************************)
(* netClient.c: a TCP connection.  netClientSendBinary and                 *)
(* netClientGetBinary loop until the whole buffer is sent or received, in  *)
(* pieces of any size; here a piece is one cell, and a longer one several  *)
(* steps in a row.  A cell tells the chunk it belongs to, the length of    *)
(* that chunk and its place in it.                                         *)
(***************************************************************************)
EXTENDS Integers, Sequences

CONSTANTS
  Header,    (* cells of the int that precedes a chunk *)
  LinkSize   (* bound: cells between the two sockets *)

ASSUME LinkAssumption == Header \in Nat \ {0} /\ LinkSize \in Nat \ {0}

VARIABLES
  net,       (* the cells in flight *)
  up         (* whether the connection stands *)

Cell(i, n, q) == [id |-> i, size |-> n, at |-> q]
Extent(n) == Header + n
Junk == Cell(0, 0, 0)

(* netClientSendBinary: send blocks while the sockets are full.            *)
SendCell(cell) ==
  /\ up /\ Len(net) < LinkSize
  /\ net' = Append(net, cell)

SendRaises == ~up /\ UNCHANGED net

(* netClientReadBinary: what was in flight can still be read.              *)
ReadCell == net # <<>> /\ net' = Tail(net)

(* netClientGetBinary raises when nothing more comes of what it has begun  *)
(* to receive; before its first byte it returns 0 and is called again.     *)
GetRaises == ~up /\ net = <<>> /\ UNCHANGED net

(* The peer or the network goes away, with some of what is in flight.      *)
Breaks ==
  /\ up /\ up' = FALSE
  /\ \E n \in 0 .. Len(net) : net' = SubSeq(net, 1, n)
=============================================================================
