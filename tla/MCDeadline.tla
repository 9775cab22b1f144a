----------------------------- MODULE MCDeadline -----------------------------
(***************************************************************************)
(* Model checking Deadline: instants around the ends of seconds, where the *)
(* nanoseconds are carried over.                                           *)
(***************************************************************************)
EXTENDS Deadline

MCClock ==
  [sec : 0 .. 2, nsec : {0, 1000000, 1000500, 500000000, 999999999}]

=============================================================================
