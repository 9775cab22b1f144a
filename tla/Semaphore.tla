----------------------------- MODULE Semaphore ------------------------------
(***************************************************************************)
(* What ucxx::Semaphore promises its callers (the comments of Sema.h), as  *)
(* far as its builds keep it: a counting semaphore, with waits that last   *)
(* until a token arrives and waits that may also time out.  A wait without *)
(* a timeout returns false only if a signal handler interrupted it, or if  *)
(* it was woken and found no token.  Sema.tla is compared with it.         *)
(***************************************************************************)
EXTENDS Integers

CONSTANTS
  Threads,    \* the callers
  Initial     \* the initial value of the counter

VARIABLES
  count,      \* the counter
  waiting,    \* waiting[t]: "no", "forever", or "timed" if it has a timeout
  disturbed,  \* disturbed[t]: "no", "signal" or "wakeup"
  ret         \* ret[t]: what the last wait() returned, "none" while in it

vars == <<count, waiting, disturbed, ret>>

Init ==
  /\ count = Initial
  /\ waiting = [t \in Threads |-> "no"]
  /\ disturbed = [t \in Threads |-> "no"]
  /\ ret = [t \in Threads |-> "none"]

Begin(t, kind) ==
  /\ waiting[t] = "no"
  /\ waiting' = [waiting EXCEPT ![t] = kind]
  /\ ret' = [ret EXCEPT ![t] = "none"]
  /\ UNCHANGED <<count, disturbed>>

Finish(t, result) ==
  /\ waiting' = [waiting EXCEPT ![t] = "no"]
  /\ disturbed' = [disturbed EXCEPT ![t] = "no"]
  /\ ret' = [ret EXCEPT ![t] = result]

Acquire(t) ==
  /\ waiting[t] # "no"
  /\ disturbed[t] # "signal"
  /\ count > 0
  /\ count' = count - 1
  /\ Finish(t, "true")

(* A signal handler, or a wakeup.  Whatever it was, the wait then ends.    *)
Disturb(t, why) ==
  /\ waiting[t] # "no"
  /\ disturbed[t] = "no"
  /\ disturbed' = [disturbed EXCEPT ![t] = why]
  /\ UNCHANGED <<count, waiting, ret>>

Expire(t) ==
  /\ \/ waiting[t] = "timed" /\ disturbed[t] = "no"
     \/ disturbed[t] = "signal"
     \/ disturbed[t] = "wakeup" /\ count = 0
  /\ Finish(t, "false")
  /\ UNCHANGED count

Release ==
  /\ count' > count
  /\ UNCHANGED <<waiting, disturbed, ret>>

Next ==
  \/ \E t \in Threads :
       \/ \E kind \in {"forever", "timed"} : Begin(t, kind)
       \/ \E why \in {"signal", "wakeup"} : Disturb(t, why)
       \/ Acquire(t) \/ Expire(t)
  \/ Release

Spec == Init /\ [][Next]_vars

=============================================================================
