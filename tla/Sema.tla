-------------------------------- MODULE Sema --------------------------------
(***************************************************************************)
(* ucxx::Semaphore (Sema.h, Sema.cpp) in its three builds:                 *)
(*   posix    a sem_t;                                                     *)
(*   apple    a counter with a mutex, and a condition variable with        *)
(*            another mutex;                                               *)
(*   windows  a system semaphore, and m_count, a copy of its counter for   *)
(*            value(), guarded by a Mutex.                                 *)
(*                                                                         *)
(* In the Apple build m_countMutex guards single critical sections, each   *)
(* of which is a step.  m_waitMutex is held only on the way into and out   *)
(* of the wait for m_waitCond, and notify() does not take it, so it orders *)
(* nothing: falling asleep is one step.                                    *)
(***************************************************************************)
EXTENDS Integers, FiniteSets

CONSTANTS
  Threads, NoThread,
  Builds,       \* the builds to look at
  Waiters,      \* threads that call wait()
  Posters,      \* threads that call notify()
  Readers,      \* threads that call value()
  Timeouts,     \* is wait() given a timeout: "timed", "forever" or either
  Increments,   \* the arguments of notify()
  Initial,      \* the argument of the constructor
  Interrupts,   \* may a signal handler interrupt sem_wait, and may
                \* pthread_cond_wait return without a signal?
  Garbage,      \* what an uninitialised LONG may hold
  MaxCount      \* bound: notify() is not called beyond this counter value

ASSUME SemaAssumption ==
  /\ IsFiniteSet(Threads)
  /\ NoThread \notin Threads
  /\ Builds \subseteq {"posix", "apple", "windows"}
  /\ Waiters \cup Posters \cup Readers \subseteq Threads
  /\ Timeouts \subseteq {"timed", "forever"}
  /\ Increments \subseteq Nat
  /\ Initial \in Nat /\ MaxCount \in Nat
  /\ Interrupts \in BOOLEAN
  /\ Garbage \subseteq Int

VARIABLES
  build,        \* which of the builds this is
  count,        \* the counter of the sem_t or system semaphore; on Apple m_count
  m_count,      \* m_count of the Windows build
  owner, depth, \* m_pMutex of the Windows build
  pc,           \* where each thread is
  kind,         \* kind[t]: "timed" if t's last wait() has a timeout
  left,         \* left[t]: what is left of the increment of t's notify()
  cnt,          \* the local cnt of the notify() that holds m_pMutex
  refused,      \* history: did the last ReleaseSemaphore fail?
  doubled,      \* history: tokens taken and not counted yet at the last one
                \* that did not
  ret           \* ret[t]: what t's last wait() returned, "none" while in it

vars == <<build, count, m_count, owner, depth, pc, kind, left, cnt, refused,
          doubled, ret>>
windows == <<m_count, owner, depth, cnt, refused, doubled>>

M == INSTANCE Mutex

PCs == {"idle", "wait", "eintr", "check", "toSleep", "asleep", "recheck", "decrement",
        "post", "signal", "release", "store", "value", "unlock"}

Goto(t, from, to) ==
  /\ pc[t] = from
  /\ pc' = [pc EXCEPT ![t] = to]

Init ==
  /\ build \in Builds
  /\ count = Initial
  /\ m_count = Initial
  /\ M!Init
  /\ pc = [t \in Threads |-> "idle"]
  /\ kind = [t \in Threads |-> "forever"]
  /\ left = [t \in Threads |-> 0]
  /\ cnt = 0
  /\ refused = FALSE
  /\ doubled = 0
  /\ ret = [t \in Threads |-> "none"]

-----------------------------------------------------------------------------
(* wait(): blocks in sem_wait, sem_timedwait or WaitForSingleObject, or    *)
(* looks at the counter first.                                             *)

WaitCall(t) ==
  /\ t \in Waiters
  /\ Goto(t, "idle", IF build = "apple" THEN "check" ELSE "wait")
  /\ \E k \in Timeouts : kind' = [kind EXCEPT ![t] = k]
  /\ ret' = [ret EXCEPT ![t] = "none"]
  /\ UNCHANGED <<build, count, windows, left>>

Acquired(t) ==
  /\ Goto(t, "wait", IF build = "windows" THEN "decrement" ELSE "idle")
  /\ count > 0
  /\ count' = count - 1
  /\ ret' = [ret EXCEPT ![t] = "true"]
  /\ UNCHANGED <<build, windows, kind, left>>

TimedOutAtOnce(t) ==  \* mutant: no timeout is passed on as a timeout of 0
  /\ Goto(t, IF build = "apple" THEN "asleep" ELSE "wait", "idle")
  /\ ret' = [ret EXCEPT ![t] = "false"]
  /\ UNCHANGED <<build, count, windows, kind, left>>

(* ETIMEDOUT or WAIT_TIMEOUT; a token may have come in just then.          *)
TimedOut(t) ==
  /\ kind[t] = "timed"
  /\ Goto(t, IF build = "apple" THEN "asleep" ELSE "wait", "idle")
  /\ ret' = [ret EXCEPT ![t] = "false"]
  /\ UNCHANGED <<build, count, windows, kind, left>>

(* EINTR: sem_timedwait is called again, sem_wait is not.                  *)
Interrupted(t) ==
  /\ Interrupts
  /\ build = "posix"
  /\ pc[t] = "wait"
  /\ \/ /\ kind[t] = "forever"
        /\ Goto(t, "wait", "eintr")
        /\ UNCHANGED <<build, count, windows, kind, left, ret>>
     \/ /\ kind[t] = "timed"
        /\ UNCHANGED vars

GiveUp(t) ==
  /\ Goto(t, "eintr", "idle")
  /\ ret' = [ret EXCEPT ![t] = "false"]
  /\ UNCHANGED <<build, count, windows, kind, left>>

CheckNothing(t) ==  \* mutant: the counter is not looked at
  /\ Goto(t, "check", "idle")
  /\ count' = count - 1
  /\ ret' = [ret EXCEPT ![t] = "true"]
  /\ UNCHANGED <<build, windows, kind, left>>

(* Apple, under m_countMutex: take a token if there is one, otherwise go   *)
(* on to the condition variable.                                           *)
Check(t) ==
  /\ \/ /\ count > 0
        /\ Goto(t, "check", "idle")
        /\ count' = count - 1
        /\ ret' = [ret EXCEPT ![t] = "true"]
     \/ /\ count = 0
        /\ Goto(t, "check", "toSleep")
        /\ UNCHANGED <<count, ret>>
  /\ UNCHANGED <<build, windows, kind, left>>

Sleep(t) ==
  /\ Goto(t, "toSleep", "asleep")
  /\ UNCHANGED <<build, count, windows, kind, left, ret>>

SpuriousWakeup(t) ==
  /\ Interrupts
  /\ Goto(t, "asleep", "recheck")
  /\ UNCHANGED <<build, count, windows, kind, left, ret>>

RecheckRetries(t) ==  \* mutant: sleeps again, with the timeout afresh
  /\ \/ /\ count > 0
        /\ Goto(t, "recheck", "idle")
        /\ count' = count - 1
        /\ ret' = [ret EXCEPT ![t] = "true"]
     \/ /\ count = 0
        /\ Goto(t, "recheck", "toSleep")
        /\ UNCHANGED <<count, ret>>
  /\ UNCHANGED <<build, windows, kind, left>>

Recheck(t) ==
  /\ Goto(t, "recheck", "idle")
  /\ \/ count > 0 /\ count' = count - 1 /\ ret' = [ret EXCEPT ![t] = "true"]
     \/ count = 0 /\ UNCHANGED count /\ ret' = [ret EXCEPT ![t] = "false"]
  /\ UNCHANGED <<build, windows, kind, left>>

(* Windows, under m_pMutex: m_count--.                                     *)
Decrement(t) ==
  /\ Goto(t, "decrement", "unlock")
  /\ M!Lock(t)
  /\ m_count' = m_count - 1
  /\ UNCHANGED <<build, count, kind, left, cnt, refused, doubled, ret>>

-----------------------------------------------------------------------------
(* notify()                                                                *)

NotifyCall(t) ==
  /\ t \in Posters
  /\ Goto(t, "idle", IF build = "windows" THEN "release" ELSE "post")
  /\ \E n \in Increments :
       /\ count + n <= MaxCount
       /\ left' = [left EXCEPT ![t] = n]
  /\ UNCHANGED <<build, count, windows, kind, ret>>

PostLost(t) ==  \* mutant: a round that posts nothing
  /\ left[t] > 0
  /\ Goto(t, "post", IF build = "apple" THEN "signal" ELSE "post")
  /\ left' = [left EXCEPT ![t] = @ - 1]
  /\ UNCHANGED <<build, count, windows, kind, ret>>

(* A round of the loop: sem_post, or m_count++ and then the signal.        *)
Post(t) ==
  /\ left[t] > 0
  /\ Goto(t, "post", IF build = "apple" THEN "signal" ELSE "post")
  /\ count' = count + 1
  /\ left' = [left EXCEPT ![t] = @ - 1]
  /\ UNCHANGED <<build, windows, kind, ret>>

(* pthread_cond_signal wakes a sleeper, and does nothing if nobody sleeps. *)
Asleep == {t \in Threads : pc[t] = "asleep"}

Signal(t) ==
  /\ pc[t] = "signal"
  /\ \/ Asleep = {} /\ pc' = [pc EXCEPT ![t] = "post"]
     \/ \E u \in Asleep : pc' = [pc EXCEPT ![t] = "post", ![u] = "recheck"]
  /\ UNCHANGED <<build, count, windows, kind, left, ret>>

NotifyReturn(t) ==
  /\ left[t] = 0
  /\ Goto(t, "post", "idle")
  /\ UNCHANGED <<build, count, windows, kind, left, ret>>

(* Threads that have a token of the Windows build and have not counted it. *)
Uncounted == {t \in Threads : pc[t] = "decrement"}

ReleaseReportsNew(t) ==  \* mutant: cnt is the counter after the release
  /\ Goto(t, "release", "store")
  /\ M!Lock(t)
  /\ count' = count + left[t]
  /\ cnt' = count + left[t]
  /\ doubled' = Cardinality(Uncounted)
  /\ UNCHANGED <<build, m_count, kind, left, refused, ret>>

(* Windows: the system semaphore reports its previous counter in cnt.  It  *)
(* refuses an increment that is not positive, and then leaves cnt alone.   *)
(* A token that a thread has taken from the counter, and not yet from      *)
(* m_count, is missing from cnt already.                                   *)
Release(t) ==
  /\ Goto(t, "release", "store")
  /\ M!Lock(t)
  /\ \/ /\ left[t] > 0
        /\ count' = count + left[t] /\ cnt' = count /\ refused' = FALSE
        /\ doubled' = Cardinality(Uncounted)
     \/ /\ left[t] = 0
        /\ UNCHANGED <<count, doubled>> /\ cnt' \in Garbage /\ refused' = TRUE
  /\ UNCHANGED <<build, m_count, kind, left, ret>>

Store(t) ==
  /\ Goto(t, "store", "unlock")
  /\ m_count' = cnt + left[t]
  /\ UNCHANGED <<build, count, owner, depth, kind, left, cnt, refused, doubled,
                 ret>>

-----------------------------------------------------------------------------
(* value(): one read of the counter in the POSIX and Apple builds, of      *)
(* m_count under m_pMutex in the Windows build.  It changes nothing else.  *)

ValueCall(t) ==
  /\ t \in Readers
  /\ build = "windows"
  /\ Goto(t, "idle", "value")
  /\ UNCHANGED <<build, count, windows, kind, left, ret>>

ValueLocked(t) ==
  /\ Goto(t, "value", "unlock")
  /\ M!Lock(t)
  /\ UNCHANGED <<build, count, m_count, kind, left, cnt, refused, doubled, ret>>

Return(t) ==
  /\ Goto(t, "unlock", "idle")
  /\ M!Unlock(t)
  /\ UNCHANGED <<build, count, m_count, kind, left, cnt, refused, doubled, ret>>

-----------------------------------------------------------------------------
WaitStep(t) ==
  \/ Acquired(t) \/ TimedOut(t) \/ GiveUp(t) \/ Check(t)
  \/ Sleep(t) \/ Recheck(t) \/ Decrement(t)
Disturbed(t) == Interrupted(t) \/ SpuriousWakeup(t)
NotifyStep(t) ==
  \/ Post(t) \/ Signal(t) \/ NotifyReturn(t) \/ Release(t) \/ Store(t)

Step(t) == WaitStep(t) \/ NotifyStep(t) \/ ValueLocked(t) \/ Return(t)

Next == \E t \in Threads :
  \/ WaitCall(t) \/ NotifyCall(t) \/ ValueCall(t)
  \/ Step(t) \/ Disturbed(t)

(* A thread inside an operation that can go on does, and time passes.      *)
Fairness == \A t \in Threads : WF_vars(Step(t))

Spec == Init /\ [][Next]_vars /\ Fairness

-----------------------------------------------------------------------------
TypeOK ==
  /\ build \in Builds
  /\ count \in Nat
  /\ m_count \in Int
  /\ M!Consistent
  /\ pc \in [Threads -> PCs]
  /\ kind \in [Threads -> {"timed", "forever"}]
  /\ left \in [Threads -> Nat]
  /\ cnt \in Int
  /\ refused \in BOOLEAN
  /\ doubled \in Nat
  /\ ret \in [Threads -> {"none", "true", "false"}]

InWait(t) ==
  pc[t] \in {"wait", "eintr", "check", "toSleep", "asleep", "recheck"}

(* What a wait() was called with, and what has interrupted it: on POSIX a  *)
(* signal handler, and on Apple a wakeup, by notify() or spurious.  On     *)
(* Windows nothing does.                                                   *)
Waiting == [t \in Threads |-> IF InWait(t) THEN kind[t] ELSE "no"]
Disturbance == [t \in Threads |->
  IF build = "posix" /\ pc[t] = "eintr" THEN "signal"
  ELSE IF build = "apple" /\ pc[t] = "recheck" THEN "wakeup"
  ELSE "no"]

Promise == INSTANCE Semaphore WITH waiting <- Waiting, disturbed <- Disturbance

(* In every build wait() returns true when, and only when, it took one     *)
(* token of its own, and returns false without a token; whatever becomes   *)
(* of m_count on Windows, signals and notify(0) included.  Sema.h:49-51    *)
(* says that wait() blocks while the counter is zero and that false is a   *)
(* timeout.  Without a timeout wait() returns false all the same on POSIX  *)
(* after a signal handler, and on Apple after a wakeup whose token another *)
(* thread has taken, or which had none: there alone, and on Windows never. *)
ImplementsSemaphore == Promise!Spec

(* A wait() with a timeout returns, whatever the other threads do.         *)
TimedWaitReturns ==
  \A t \in Threads : InWait(t) /\ kind[t] = "timed" ~> ~InWait(t)

(* Windows: outside notify(), m_count is the tokens there are, plus those  *)
(* taken and not counted yet, less those that were in between at the last  *)
(* notify() and are then counted twice.  So value() never promises a token *)
(* to a thread that nobody competes with, falls short by exactly what that *)
(* notify() overtook, and by nothing from the next one on; after a         *)
(* notify(0), which stores garbage, this is so again from the next         *)
(* notify() that the system does not refuse.                               *)
ValueAccounted ==
  build = "windows" /\ ~refused /\ owner = NoThread
    => m_count = count + Cardinality(Uncounted) - doubled

(* Nobody sleeps for ever beside a token ("This method will block if       *)
(* semaphore's counter is zero", Sema.h:49).                               *)
BlocksOnlyOnZero ==
  \A t \in Threads : []<>~(pc[t] = "asleep" /\ count > 0)

=============================================================================
