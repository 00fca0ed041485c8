------------------------------ MODULE TaskGrid ------------------------------
(***************************************************************************)
(* What the coherence scheduler of mpx.h promises its callers, whatever    *)
(* the scheduler does inside.  A frame is a list of rows; every row runs   *)
(* one function over the same Data pieces.  A piece of a row may begin     *)
(* once the pieces of the row above it needs are done, and, in a row that  *)
(* depends on its left neighbours, once those are done.  Every piece of    *)
(* every row begins exactly once, and the frame ends when all are done.    *)
(***************************************************************************)
EXTENDS Integers, Sequences

CONSTANTS
  NData,         (* pieces of data a row is run over *)
  MaxTasks,      (* most rows of a frame *)
  Descriptions   (* the kinds of rows: [depend, bottom] *)

VARIABLES
  rows,          (* the rows of the frame, in the order they were added *)
  begun, done    (* pieces <<row, k>> begun and done *)

vars == <<rows, begun, done>>

Row == 0 .. Len(rows) - 1
Piece == 0 .. NData - 1
AllPieces == Row \X Piece

Init == rows = <<>> /\ begun = {} /\ done = {}

Add(d) ==
  /\ Len(rows) < MaxTasks
  /\ rows' = Append(rows, d)
  /\ UNCHANGED <<begun, done>>

(* The pieces <<x, k>> has to wait for: those of the row above up to       *)
(* bottom places to its right, and its left neighbours when the row is in  *)
(* order.                                                                  *)
Needs(x, k) ==
  {<<x - 1, j>> : j \in {i \in Piece : x > 0 /\ i <= k + rows[x + 1].bottom}}
    \cup {<<x, j>> : j \in {i \in Piece : rows[x + 1].depend = "inorder" /\ i < k}}

Begin(x, k) ==
  /\ <<x, k>> \in AllPieces \ begun
  /\ Needs(x, k) \subseteq done
  /\ begun' = begun \cup {<<x, k>>}
  /\ UNCHANGED <<rows, done>>

End(x, k) ==
  /\ <<x, k>> \in begun \ done
  /\ done' = done \cup {<<x, k>>}
  /\ UNCHANGED <<rows, begun>>

NewFrame ==
  /\ rows # <<>> /\ done = AllPieces
  /\ rows' = <<>> /\ begun' = {} /\ done' = {}

Next ==
  \/ \E d \in Descriptions : Add(d)
  \/ \E x \in Row, k \in Piece : Begin(x, k) \/ End(x, k)
  \/ NewFrame

Spec == Init /\ [][Next]_vars
=============================================================================
