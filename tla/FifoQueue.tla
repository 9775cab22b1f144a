----------------------------- MODULE FifoQueue ------------------------------
(***************************************************************************)
(* What ucxx::Queue promises its callers (the comments of Queue.h): a      *)
(* thread-safe first-in first-out queue whose dequeue() waits for an item. *)
(* Every operation is one atomic step.  A dequeue() finds the queue empty  *)
(* only if some wait has ended without a token, and a head() only if its   *)
(* caller did not make sure of an item; what happens then is undefined,    *)
(* and nothing is promised any more.  Queue.tla is shown to implement this *)
(* specification.                                                          *)
(***************************************************************************)
EXTENDS Sequences

CONSTANTS
  Threads,    \* the callers
  Items,      \* what they put in the queue
  NoItem      \* got[t] before t has received anything

VARIABLES
  items,      \* the contents, oldest first
  got,        \* got[t]: what the last dequeue() or head() of t returned
  undefined,  \* the operations that have found the queue empty
  disturbed   \* has a wait of the queue ended without a token?

vars == <<items, got, undefined, disturbed>>

Init ==
  /\ items = <<>>
  /\ got = [t \in Threads |-> NoItem]
  /\ undefined = {}
  /\ disturbed = FALSE

Enqueue(v) ==
  /\ items' = Append(items, v)
  /\ UNCHANGED <<got, undefined, disturbed>>

Dequeue(t) ==
  /\ items # <<>>
  /\ got' = [got EXCEPT ![t] = Head(items)]
  /\ items' = Tail(items)
  /\ UNCHANGED <<undefined, disturbed>>

Peek(t) ==
  /\ items # <<>>
  /\ got' = [got EXCEPT ![t] = Head(items)]
  /\ UNCHANGED <<items, undefined, disturbed>>

Clear ==
  /\ items' = <<>>
  /\ UNCHANGED <<got, undefined, disturbed>>

Disturb ==
  /\ disturbed' = TRUE
  /\ UNCHANGED <<items, got, undefined>>

FindNothing(operation) ==
  /\ items = <<>>
  /\ operation = "dequeue" => disturbed
  /\ undefined' = undefined \cup {operation}
  /\ UNCHANGED <<items, got, disturbed>>

Next ==
  /\ undefined = {}
  /\ \/ \E v \in Items : Enqueue(v)
     \/ \E t \in Threads : Dequeue(t) \/ Peek(t)
     \/ Clear
     \/ Disturb
     \/ \E operation \in {"dequeue", "head"} : FindNothing(operation)

Spec == Init /\ [][Next]_vars

=============================================================================
