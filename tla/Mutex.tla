------------------------------- MODULE Mutex --------------------------------
(***************************************************************************)
(* ucxx::Mutex (Mutex.h, Mutex.cpp): a recursive mutex.                    *)
(*                                                                         *)
(* The module holds the state of one mutex and its operations; the modules *)
(* that use a mutex instantiate it over their own variables and assume     *)
(* that NoThread is not a thread.  A call that has to block is an action   *)
(* that is not enabled: pthread_mutex_lock and WaitForSingleObject return  *)
(* only when the caller owns the mutex.                                    *)
(***************************************************************************)
EXTENDS Naturals

CONSTANTS
  Threads,    \* the threads that may call the mutex
  NoThread    \* stands for "nobody"

VARIABLES
  owner,      \* the thread that owns m_mutex, or NoThread
  depth       \* how many times the owner has locked it

(* The constructor leaves the mutex unlocked.                              *)
Init == owner = NoThread /\ depth = 0

(* lock() and tryLock() succeed for the owner (the mutex is created with   *)
(* PTHREAD_MUTEX_RECURSIVE) and for anyone when nobody owns it.            *)
Available(t) == owner \in {t, NoThread}

LockUncounted(t) ==  \* mutant: the recursion is not counted
  /\ Available(t)
  /\ owner' = t
  /\ UNCHANGED depth

Lock(t) ==
  /\ Available(t)
  /\ owner' = t
  /\ depth' = depth + 1

UnlockByAnyone(t) ==  \* mutant: a non-recursive mutex that does not check
  /\ owner' = IF depth <= 1 THEN NoThread ELSE owner
  /\ depth' = IF depth = 0 THEN 0 ELSE depth - 1

(* A thread that is not the owner gets EPERM (ERROR_NOT_OWNER), which the  *)
(* code ignores, and nothing changes.                                      *)
Unlock(t) ==
  IF owner = t
  THEN /\ owner' = IF depth = 1 THEN NoThread ELSE t
       /\ depth' = depth - 1
  ELSE UNCHANGED <<owner, depth>>

(* One mutex, free exactly when nobody has it locked.                      *)
Consistent ==
  /\ owner \in Threads \cup {NoThread}
  /\ depth \in Nat
  /\ owner = NoThread <=> depth = 0

=============================================================================
