----------------------------- MODULE MutexClient ----------------------------
(***************************************************************************)
(* Threads that share one ucxx::Mutex: nested MutexLocker scopes, lock()   *)
(* and tryLock() paired by hand with unlock(), an unlock() by a thread     *)
(* that does not own the mutex, and Thread::terminate() in the middle.     *)
(*                                                                         *)
(* The builds differ in what a terminated thread leaves behind.            *)
(* pthread_cancel on Linux unwinds the stack, so the MutexLockers of the   *)
(* thread unlock and what it locked by hand stays locked.  On Apple it     *)
(* runs the cleanup handlers only, and no destructor: all of it stays      *)
(* locked.  TerminateThread runs no destructor either: the mutex becomes   *)
(* "abandoned", and the next WaitForSingleObject owns it but returns       *)
(* WAIT_ABANDONED.                                                         *)
(***************************************************************************)
EXTENDS Naturals

CONSTANTS
  Threads, NoThread,
  Manual,       \* threads that call lock(), tryLock() and unlock() themselves
  Cancellable,  \* threads another thread may terminate
  Builds,       \* the builds to look at: "posix", "apple", "windows"
  MaxDepth      \* bound: locks one thread nests

ASSUME ThreadsAssumption ==
  /\ NoThread \notin Threads
  /\ Manual \subseteq Threads
  /\ Cancellable \subseteq Threads
ASSUME BuildAssumption == 
  Builds \subseteq {"posix", "apple", "windows"} /\ MaxDepth \in Nat

VARIABLES
  build,        \* which of the builds this is
  owner, depth, \* the mutex
  abandoned,    \* its last owner was terminated (Windows)
  scopes,       \* scopes[t]: MutexLockers of t that are alive
  byHand,       \* byHand[t]: lock() and successful tryLock() not yet unlocked
  unaware,      \* who was given the mutex by a tryLock() that returned false
  alive,        \* alive[t]: t has not been terminated
  aborted       \* the assert in Mutex::lock() has failed

vars == <<build, owner, depth, abandoned, scopes, byHand, unaware, alive,
          aborted>>

M == INSTANCE Mutex

Init ==
  /\ build \in Builds
  /\ M!Init
  /\ abandoned = FALSE
  /\ scopes = [t \in Threads |-> 0]
  /\ byHand = [t \in Threads |-> 0]
  /\ unaware = NoThread
  /\ alive = [t \in Threads |-> TRUE]
  /\ aborted = FALSE

(* How many times t thinks it has the mutex.                               *)
Believed(t) == scopes[t] + byHand[t]

MayLock(t) == alive[t] /\ Believed(t) < MaxDepth

(* lock(), which asserts WAIT_OBJECT_0.                                    *)
Acquire(t) ==
  /\ M!Lock(t)
  /\ abandoned' = FALSE
  /\ aborted' = abandoned

(* MutexLocker(&mutex) and its destructor; a locker of a null pointer does *)
(* nothing and is not modelled.                                            *)
EnterScope(t) ==
  /\ MayLock(t)
  /\ Acquire(t)
  /\ scopes' = [scopes EXCEPT ![t] = @ + 1]
  /\ UNCHANGED <<build, byHand, unaware, alive>>

LeaveScope(t) ==
  /\ alive[t]
  /\ scopes[t] > 0
  /\ M!Unlock(t)
  /\ scopes' = [scopes EXCEPT ![t] = @ - 1]
  /\ UNCHANGED <<build, abandoned, byHand, unaware, alive, aborted>>

LockByHand(t) ==
  /\ t \in Manual
  /\ MayLock(t)
  /\ Acquire(t)
  /\ byHand' = [byHand EXCEPT ![t] = @ + 1]
  /\ UNCHANGED <<build, scopes, unaware, alive>>

(* tryLock() returns true on WAIT_OBJECT_0 only: when the mutex had been   *)
(* abandoned it returns false to a thread that now owns it.                *)
TryLock(t) ==
  /\ t \in Manual
  /\ MayLock(t)
  /\ \/ /\ ~abandoned
        /\ M!Lock(t)
        /\ byHand' = [byHand EXCEPT ![t] = @ + 1]
        /\ UNCHANGED <<abandoned, unaware>>
     \/ /\ abandoned
        /\ M!Lock(t)
        /\ abandoned' = FALSE
        /\ unaware' = t
        /\ UNCHANGED byHand
     \/ /\ ~M!Available(t)
        /\ UNCHANGED <<owner, depth, abandoned, byHand, unaware>>
  /\ UNCHANGED <<build, scopes, alive, aborted>>

(* unlock() by a thread that has something of its own to unlock, or that   *)
(* calls it without owning the mutex.                                      *)
UnlockByHand(t) ==
  /\ t \in Manual
  /\ alive[t]
  /\ byHand[t] > 0 \/ Believed(t) = 0
  /\ M!Unlock(t)
  /\ byHand' = [byHand EXCEPT ![t] = IF @ > 0 THEN @ - 1 ELSE 0]
  /\ unaware' = IF unaware = t /\ byHand[t] = 0 THEN NoThread ELSE unaware
  /\ UNCHANGED <<build, abandoned, scopes, alive, aborted>>

TerminateNoUnwind(t) ==  \* mutant: the MutexLockers do not unlock
  /\ t \in Cancellable
  /\ alive[t]
  /\ alive' = [alive EXCEPT ![t] = FALSE]
  /\ UNCHANGED <<build, owner, depth, abandoned, scopes, byHand, unaware,
                 aborted>>

Terminate(t) ==
  /\ t \in Cancellable
  /\ alive[t]
  /\ alive' = [alive EXCEPT ![t] = FALSE]
  /\ scopes' = [scopes EXCEPT ![t] = IF build = "apple" THEN @ ELSE 0]
  /\ byHand' = [byHand EXCEPT ![t] = IF build = "windows" THEN 0 ELSE @]
  /\ unaware' = IF unaware = t THEN NoThread ELSE unaware
  /\ \/ /\ build = "windows" /\ owner = t
        /\ owner' = NoThread /\ depth' = 0 /\ abandoned' = TRUE
     \/ /\ build = "posix" /\ owner = t
        /\ depth' = depth - scopes[t]
        /\ owner' = IF depth' = 0 THEN NoThread ELSE t
        /\ UNCHANGED abandoned
     \/ /\ build = "apple" \/ owner # t
        /\ UNCHANGED <<owner, depth, abandoned>>
  /\ UNCHANGED <<build, aborted>>

Next ==
  /\ ~aborted
  /\ \E t \in Threads :
       \/ EnterScope(t) \/ LeaveScope(t)
       \/ LockByHand(t) \/ TryLock(t) \/ UnlockByHand(t)
       \/ Terminate(t)

Spec == Init /\ [][Next]_vars

-----------------------------------------------------------------------------
TypeOK ==
  /\ build \in Builds
  /\ M!Consistent
  /\ abandoned \in BOOLEAN
  /\ scopes \in [Threads -> Nat]
  /\ byHand \in [Threads -> Nat]
  /\ unaware \in Threads \cup {NoThread}
  /\ alive \in [Threads -> BOOLEAN]
  /\ aborted \in BOOLEAN

(* The mutex is locked exactly as many times as its owner has MutexLockers *)
(* alive and locks by hand to undo, and nobody else thinks it has it: the  *)
(* last unlock of nested scopes, and no earlier one, frees the mutex, and  *)
(* an unlock() by a stranger does nothing.  There is one exception, and it *)
(* accounts for exactly one level: on Windows, after its owner was         *)
(* terminated, tryLock() returns false to the thread that it has just made *)
(* the owner, although Mutex.h:51 says "true if mutex lock has been        *)
(* acquired, false if locked by another thread".                           *)
Held(t) == IF owner = t THEN depth ELSE 0

LocksAccounted ==
  \A t \in Threads :
    Held(t) = Believed(t) + (IF unaware = t THEN 1 ELSE 0)

(* What a terminated thread leaves of its locks. A MutexLocker is "used to *)
(* automatically release a mutex when the locker's instance goes out of    *)
(* scope" (Mutex.h:71). That is kept on Linux, where a dead thread has the *)
(* mutex only as often as it locked it by hand; on Apple it also keeps     *)
(* what its MutexLockers locked; on Windows it has nothing, and there      *)
(* alone, and only once some thread was terminated, does lock() fail its   *)
(* assertion or tryLock() hide that it has got the mutex.                  *)
TerminatedLeave ==
  /\ \A t \in Threads :
       ~alive[t] /\ owner = t =>
         \/ build = "apple" /\ depth = scopes[t] + byHand[t]
         \/ build = "posix" /\ t \in Manual /\ depth = byHand[t]
  /\ abandoned \/ aborted \/ unaware # NoThread =>
       build = "windows" /\ \E t \in Cancellable : ~alive[t]

=============================================================================
