---------------------------- MODULE BoundedFifo ----------------------------
(***************************************************************************)
(* What a blocking queue of mpx.h promises its callers: a first-in         *)
(* first-out buffer of at most Capacity values.  A thread has at most one  *)
(* call outstanding; a Push takes effect when there is room, a Pop when    *)
(* there is a value, and each takes effect in one step.  MpQueue is shown  *)
(* to implement this module.                                               *)
(***************************************************************************)
EXTENDS Naturals, Sequences

CONSTANTS
  Threads,   (* the threads that share the queue *)
  Values,    (* what is pushed *)
  NoValue,   (* the result of a thread that has popped nothing yet *)
  Capacity   (* the most values the queue holds *)

VARIABLES
  items,     (* the values pushed and not yet popped, oldest first *)
  call,      (* the call each thread is in *)
  dat        (* the value each thread pushes, or took with its latest Pop *)

vars == <<items, call, dat>>

Init ==
  /\ items = <<>>
  /\ call = [t \in Threads |-> "none"]
  /\ dat = [t \in Threads |-> NoValue]

Invoke(t, c, v) ==
  /\ call[t] = "none"
  /\ call' = [call EXCEPT ![t] = c]
  /\ dat' = [dat EXCEPT ![t] = v]
  /\ UNCHANGED items

Return(t, v) ==
  /\ call' = [call EXCEPT ![t] = "none"]
  /\ dat' = [dat EXCEPT ![t] = v]

Put(t) ==
  /\ call[t] = "push" /\ Len(items) < Capacity
  /\ items' = Append(items, dat[t])
  /\ Return(t, NoValue)

Take(t) ==
  /\ call[t] = "pop" /\ items # <<>>
  /\ items' = Tail(items)
  /\ Return(t, Head(items))

Discard == items' = <<>> /\ UNCHANGED <<call, dat>>

Next ==
  \/ \E t \in Threads : \/ \E v \in Values : Invoke(t, "push", v)
                        \/ Invoke(t, "pop", NoValue)
                        \/ Put(t) \/ Take(t)
  \/ Discard

Spec == Init /\ [][Next]_vars
=============================================================================
