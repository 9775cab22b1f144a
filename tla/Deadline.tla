------------------------------ MODULE Deadline ------------------------------
(***************************************************************************)
(* The timed calls of ucxx: Semaphore::wait(milliseconds) (Sema.cpp) and   *)
(* Thread::sleep(milliseconds) (Thread.cpp) in the POSIX and Apple builds. *)
(* Each reads the clock, adds the timeout, carries the nanoseconds over    *)
(* and blocks until the clock reaches that deadline.  The Windows build    *)
(* hands the milliseconds to the system and computes nothing.              *)
(*                                                                         *)
(* One thread makes one call after the other while time passes; nothing of *)
(* a call is shared, so more threads would only repeat it.  The clock is   *)
(* never set back or forward.                                              *)
(***************************************************************************)
EXTENDS Integers

CONSTANTS
  Builds,       \* the builds to look at: "posix", "apple"
  Operations,   \* the calls made: "wait", "sleep"
  Timeouts,     \* their arguments in milliseconds, not 0 for wait()
  Clock,        \* bound: the instants at which something happens
  Interrupts    \* may signals and spurious wakeups end the blocking call?

MsPerSec == 1000
NsPerUs == 1000
NsPerMs == 1000000
NsPerSec == 1000000000

(* A struct timespec that the system accepts.                              *)
Instants == [sec : Nat, nsec : {n \in Nat : n < NsPerSec}]

ASSUME DeadlineAssumption ==
  /\ Builds \subseteq {"posix", "apple"}
  /\ Operations \subseteq {"wait", "sleep"}
  /\ Timeouts \subseteq Nat \ {0}
  /\ Clock \subseteq Instants
  /\ Interrupts \in BOOLEAN

VARIABLES
  build,        \* which of the builds this is
  now,          \* the clock
  pc,           \* "idle", "waiting" or "returned"
  op,           \* the call
  ms,           \* its argument
  start,        \* the time it read
  ts,           \* its deadline
  why           \* why it returned: "timeout", "notified" or "disturbed"

vars == <<build, now, pc, op, ms, start, ts, why>>

Before(a, b) == a.sec < b.sec \/ (a.sec = b.sec /\ a.nsec < b.nsec)

(* Whole milliseconds from one instant to another.                         *)
Elapsed(from, to) ==
  (to.sec - from.sec) * MsPerSec + (to.nsec - from.nsec) \div NsPerMs

-----------------------------------------------------------------------------
NoCarry(sec, nsec) == [sec |-> sec, nsec |-> nsec]  \* mutant: not normalised

(* ts.tv_sec += ts.tv_nsec / 1000000000; ts.tv_nsec %= 1000000000;         *)
Carry(sec, nsec) ==
  [sec |-> sec + nsec \div NsPerSec, nsec |-> nsec % NsPerSec]

(* clock_gettime, or gettimeofday, which counts microseconds.              *)
Reading(b, t) ==
  IF b = "apple" THEN [t EXCEPT !.nsec = (@ \div NsPerUs) * NsPerUs] ELSE t

Thousandth(r, m) ==  \* mutant: milliseconds taken for microseconds
  Carry(r.sec + m \div MsPerSec, r.nsec + (m % MsPerSec) * NsPerUs)

(* wait() of the POSIX build, and sleep().                                 *)
Added(r, m) ==
  Carry(r.sec + m \div MsPerSec, r.nsec + (m % MsPerSec) * NsPerMs)

(* wait() of the Apple build.                                              *)
AppleWait(r, m) ==
  Carry(r.sec + m \div MsPerSec, r.nsec + (m % MsPerSec) * 1000)

DeadlineOf(b, o, r, m) ==
  IF b = "apple" /\ o = "wait" THEN AppleWait(r, m) ELSE Added(r, m)

-----------------------------------------------------------------------------
Init ==
  /\ build \in Builds
  /\ now \in Clock
  /\ pc = "idle"
  /\ op = "wait"
  /\ ms = 0
  /\ start = now
  /\ ts = now
  /\ why = "timeout"

(* Semaphore::wait(m) with m # 0 that finds no token, or Thread::sleep(m). *)
Call(o, m) ==
  /\ pc # "waiting"
  /\ pc' = "waiting"
  /\ op' = o
  /\ ms' = m
  /\ start' = Reading(build, now)
  /\ ts' = DeadlineOf(build, o, Reading(build, now), m)
  /\ UNCHANGED <<build, now, why>>

Tick ==
  /\ now' \in {t \in Clock : Before(now, t)}
  /\ UNCHANGED <<build, pc, op, ms, start, ts, why>>

Return(reason) ==
  /\ pc = "waiting"
  /\ pc' = "returned"
  /\ why' = reason
  /\ UNCHANGED <<build, now, op, ms, start, ts>>

(* ETIMEDOUT; EINVAL does not happen, see TypeOK.                          *)
Expire ==
  /\ ~Before(now, ts)
  /\ Return("timeout")

(* A token arrives.                                                        *)
Notified ==
  /\ op = "wait"
  /\ Return("notified")

RestartAfresh ==  \* mutant: the restarted wait has the whole timeout again
  /\ Interrupts
  /\ pc = "waiting" /\ build = "posix" /\ op = "wait"
  /\ ts' = DeadlineOf(build, op, Reading(build, now), ms)
  /\ UNCHANGED <<build, now, pc, op, ms, start, why>>

(* sem_timedwait is called again with the same deadline after EINTR.       *)
Restart ==
  /\ Interrupts
  /\ pc = "waiting" /\ build = "posix" /\ op = "wait"
  /\ UNCHANGED vars

(* pthread_cond_timedwait may return 0 for no reason: sleep() is over, and *)
(* so is the wait() of the Apple build, which finds no token.              *)
SpuriousWakeup ==
  /\ Interrupts
  /\ build = "apple" \/ op = "sleep"
  /\ Return("disturbed")

Next ==
  \/ \E o \in Operations, m \in Timeouts : Call(o, m)
  \/ Tick \/ Expire \/ Notified \/ Restart \/ SpuriousWakeup

Spec == Init /\ [][Next]_vars /\ WF_vars(Expire)

-----------------------------------------------------------------------------
(* Every deadline is one the system accepts: the carry leaves less than a  *)
(* second of nanoseconds, whatever the clock and the timeout.              *)
TypeOK ==
  /\ build \in Builds
  /\ {now, start, ts} \subseteq Instants
  /\ pc \in {"idle", "waiting", "returned"}
  /\ op \in {"wait", "sleep"}
  /\ ms \in Nat
  /\ why \in {"timeout", "notified", "disturbed"}

TimedOutEarly ==
  pc = "returned" /\ why = "timeout" /\ Elapsed(start, now) < ms

(* A call that nothing disturbs does not give up before its milliseconds   *)
(* have passed, across the ends of seconds and however often a signal      *)
(* restarts it ("Put thread in sleep for specified time", Thread.h:91).    *)
(* The wait() of the Apple build is left out.                              *)
NotEarly == TimedOutEarly => build = "apple" /\ op = "wait"

(* The same of every build ("Waiting timeout", Sema.h:50).                 *)
NeverEarly == ~TimedOutEarly

(* Nor does it go on when its time has passed, however often a signal      *)
(* restarts it.                                                            *)
Punctual == pc = "waiting" /\ Elapsed(start, now) >= ms ~> pc # "waiting"

=============================================================================
