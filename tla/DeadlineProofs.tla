--------------------------- MODULE DeadlineProofs ---------------------------
(***************************************************************************)
(* Theorems about Deadline, for every clock reading and every timeout.     *)
(***************************************************************************)
EXTENDS Deadline, TLAPS

(* Carrying over keeps the instant and leaves less than a second.          *)
LEMMA CarryValid ==
  ASSUME NEW s \in Nat, NEW n \in Nat
  PROVE  /\ Carry(s, n) \in Instants
         /\ Carry(s, n).sec \in Nat /\ Carry(s, n).nsec \in Nat
         /\ NsPerSec * (Carry(s, n).sec - s) + Carry(s, n).nsec = n
<1>1. /\ n \div NsPerSec \in Nat
      /\ n % NsPerSec \in Nat /\ n % NsPerSec < NsPerSec
      /\ n = NsPerSec * (n \div NsPerSec) + (n % NsPerSec)
  BY SMT DEF NsPerSec
<1> QED
  BY SMT, <1>1 DEF Carry, Instants, NsPerSec

LEMMA MultipleDiv ==
  ASSUME NEW x \in Int, NEW y \in Int, x = y * 1000000
  PROVE  x \div 1000000 = y
BY SMT

(* The deadline is the timeout after the reading, to the millisecond.      *)
LEMMA AddedExact ==
  ASSUME NEW r \in Instants, NEW m \in Nat
  PROVE  /\ Added(r, m) \in Instants
         /\ Elapsed(r, Added(r, m)) = m
<1> DEFINE q == m \div MsPerSec
           k == m % MsPerSec
           n == r.nsec + k * NsPerMs
           a == Added(r, m)
<1>1. q \in Nat /\ k \in Nat /\ k < 1000 /\ m = 1000 * q + k
  BY SMT DEF MsPerSec
<1>2. r.sec \in Nat /\ r.nsec \in Nat /\ r.nsec < 1000000000
  BY SMT DEF Instants, NsPerSec
<1>3. n \in Nat /\ r.sec + q \in Nat
  BY SMT, <1>1, <1>2 DEF NsPerMs
<1>4. /\ a \in Instants
      /\ a.sec \in Nat /\ a.nsec \in Nat /\ a.nsec < 1000000000
      /\ 1000000000 * (a.sec - (r.sec + q)) + a.nsec = n
  BY SMT, <1>3, CarryValid DEF Added, Instants, NsPerSec
<1>5. a.nsec - r.nsec = (k - (a.sec - (r.sec + q)) * 1000) * 1000000
  BY SMT, <1>1, <1>2, <1>4 DEF NsPerMs
<1>6. (a.nsec - r.nsec) \div 1000000 = k - (a.sec - (r.sec + q)) * 1000
  <2>1. /\ a.nsec - r.nsec \in Int
        /\ k - (a.sec - (r.sec + q)) * 1000 \in Int
    BY SMT, <1>1, <1>2, <1>4
  <2> QED
    BY ONLY SMT, <1>5, <2>1, MultipleDiv
<1>7. Elapsed(r, a) = (a.sec - r.sec) * 1000 + (k - (a.sec - (r.sec + q)) * 1000)
  BY SMT, <1>6 DEF Elapsed, MsPerSec, NsPerMs
<1> QED
  BY SMT, <1>1, <1>2, <1>4, <1>7

(* As time goes by no millisecond is lost.                                 *)
LEMMA ElapsedMonotone ==
  ASSUME NEW s \in Instants, NEW a \in Instants, NEW b \in Instants,
         ~Before(b, a)
  PROVE  Elapsed(s, a) <= Elapsed(s, b)
<1> DEFINE da == a.nsec - s.nsec
           db == b.nsec - s.nsec
<1>1. /\ s.sec \in Nat /\ a.sec \in Nat /\ b.sec \in Nat
      /\ s.nsec \in Nat /\ s.nsec < 1000000000
      /\ a.nsec \in Nat /\ a.nsec < 1000000000
      /\ b.nsec \in Nat /\ b.nsec < 1000000000
  BY SMT DEF Instants, NsPerSec
<1>2. \/ a.sec = b.sec /\ da <= db
      \/ a.sec < b.sec /\ da <= db + 1000000000
  BY SMT, <1>1 DEF Before
<1>3. /\ da \in Int /\ db \in Int
      /\ da \div 1000000 \in Int /\ db \div 1000000 \in Int
      /\ da <= db => da \div 1000000 <= db \div 1000000
      /\ da <= db + 1000000000 => da \div 1000000 <= db \div 1000000 + 1000
  BY SMT, <1>1
<1> QED
  BY SMT, <1>1, <1>2, <1>3 DEF Elapsed, MsPerSec, NsPerMs

LEMMA ReadingValid ==
  ASSUME NEW t \in Instants, NEW b PROVE Reading(b, t) \in Instants
<1>1. /\ t.sec \in Nat /\ t.nsec \in Nat /\ t.nsec < 1000000000
      /\ t = [sec |-> t.sec, nsec |-> t.nsec]
  BY SMT DEF Instants, NsPerSec
<1>2. /\ (t.nsec \div 1000) * 1000 \in Nat
      /\ (t.nsec \div 1000) * 1000 <= t.nsec
  BY SMT, <1>1
<1>3. [t EXCEPT !.nsec = (@ \div NsPerUs) * NsPerUs] \in Instants
  BY SMT, <1>1, <1>2 DEF Instants, NsPerSec, NsPerUs
<1> QED
  BY SMT, <1>3 DEF Reading

LEMMA DeadlineValid ==
  ASSUME NEW b, NEW o, NEW r \in Instants, NEW m \in Nat
  PROVE  DeadlineOf(b, o, r, m) \in Instants
<1>1. Added(r, m) \in Instants
  BY AddedExact
<1>2. /\ r.sec + m \div MsPerSec \in Nat
      /\ r.nsec + (m % MsPerSec) * 1000 \in Nat
  BY SMT DEF Instants, NsPerSec, MsPerSec
<1>3. AppleWait(r, m) \in Instants
  BY <1>2, CarryValid DEF AppleWait
<1> QED
  BY <1>1, <1>3 DEF DeadlineOf

-----------------------------------------------------------------------------
(* Outside the wait() of the Apple build the deadline is the timeout after *)
(* the reading as long as the call lasts, and a call that timed out is     *)
(* late enough for good.                                                   *)
Counted == ~(build = "apple" /\ op = "wait")

DeadlineInv ==
  /\ TypeOK
  /\ pc = "waiting" /\ Counted => Elapsed(start, ts) = ms
  /\ pc = "returned" /\ why = "timeout" /\ Counted => ms <= Elapsed(start, now)

LEMMA DeadlineInit == Init => DeadlineInv
BY DeadlineAssumption DEF Init, DeadlineInv, TypeOK

LEMMA CallStep ==
  ASSUME DeadlineInv, NEW o \in Operations, NEW m \in Timeouts, Call(o, m)
  PROVE  DeadlineInv'
<1>1. /\ o \in {"wait", "sleep"} /\ m \in Nat
      /\ now \in Instants /\ build \in Builds
  BY DeadlineAssumption DEF DeadlineInv, TypeOK
<1>2. /\ Reading(build, now) \in Instants
      /\ DeadlineOf(build, o, Reading(build, now), m) \in Instants
  BY <1>1, ReadingValid, DeadlineValid
<1>3. TypeOK'
  BY <1>1, <1>2 DEF Call, DeadlineInv, TypeOK
<1>4. ~(build = "apple" /\ o = "wait") =>
        Elapsed(Reading(build, now), DeadlineOf(build, o, Reading(build, now), m)) = m
  BY <1>1, <1>2, AddedExact DEF DeadlineOf
<1> QED
  BY <1>3, <1>4 DEF Call, DeadlineInv, Counted

LEMMA TickStep == ASSUME DeadlineInv, Tick PROVE DeadlineInv'
<1>1. /\ now' \in Instants /\ Before(now, now')
      /\ UNCHANGED <<build, pc, op, ms, start, ts, why>>
  BY DeadlineAssumption DEF Tick
<1>2. start \in Instants /\ now \in Instants /\ TypeOK'
  BY <1>1 DEF DeadlineInv, TypeOK
<1>3. ~Before(now', now)
  BY SMT, <1>1, <1>2 DEF Before, Instants
<1>4. Elapsed(start, now) <= Elapsed(start, now')
  BY <1>1, <1>2, <1>3, ElapsedMonotone
<1>5. ms \in Int /\ Elapsed(start, now) \in Int /\ Elapsed(start, now') \in Int
  BY SMT, <1>1, <1>2 DEF DeadlineInv, TypeOK, Elapsed, Instants, MsPerSec, NsPerMs
<1>6. ms <= Elapsed(start, now) => ms <= Elapsed(start, now')
  BY SMT, <1>4, <1>5
<1> QED
  BY <1>1, <1>2, <1>6 DEF DeadlineInv, Counted

LEMMA ReturnStep ==
  ASSUME DeadlineInv, Expire \/ Notified \/ SpuriousWakeup
  PROVE  DeadlineInv'
<1>1. CASE Expire
  <2>1. /\ start \in Instants /\ ts \in Instants /\ now \in Instants
        /\ ~Before(now, ts)
    BY <1>1 DEF DeadlineInv, TypeOK, Expire
  <2>2. Elapsed(start, ts) <= Elapsed(start, now)
    BY <2>1, ElapsedMonotone
  <2> QED
    BY <1>1, <2>2 DEF Expire, Return, DeadlineInv, TypeOK, Counted
<1>2. CASE Notified \/ SpuriousWakeup
  BY <1>2 DEF Notified, SpuriousWakeup, Return, DeadlineInv, TypeOK, Counted
<1> QED
  BY <1>1, <1>2

LEMMA DeadlineStep == DeadlineInv /\ [Next]_vars => DeadlineInv'
<1> SUFFICES ASSUME DeadlineInv, [Next]_vars PROVE DeadlineInv'
  OBVIOUS
<1>1. CASE UNCHANGED vars \/ Restart
  BY <1>1 DEF vars, Restart, DeadlineInv, TypeOK, Counted
<1> QED
  BY <1>1, CallStep, TickStep, ReturnStep DEF Next

LEMMA DeadlineInvAlways == Spec => []DeadlineInv
<1> QED
  BY DeadlineInit, DeadlineStep, PTL DEF Spec

(* Whatever the clock and the timeout, the deadline is a valid timespec:   *)
(* the nanoseconds of the sum are carried into the seconds.                *)
THEOREM DeadlinesValid == Spec => []TypeOK
<1>1. DeadlineInv => TypeOK
  BY DEF DeadlineInv
<1> QED
  BY <1>1, DeadlineInvAlways, PTL

(* No call gives up before its timeout, the wait() of the Apple build      *)
(* excepted.                                                               *)
THEOREM DeadlinesKept == Spec => []NotEarly
<1>1. DeadlineInv => NotEarly
  <2> SUFFICES ASSUME DeadlineInv, TimedOutEarly, Counted PROVE FALSE
    BY DEF NotEarly, Counted, DeadlineInv
  <2>1. start \in Instants /\ now \in Instants /\ ms \in Nat
    BY DEF DeadlineInv, TypeOK
  <2>2. Elapsed(start, now) \in Int
    BY SMT, <2>1 DEF Elapsed, Instants, MsPerSec, NsPerMs
  <2>3. ms <= Elapsed(start, now) /\ Elapsed(start, now) < ms
    BY DEF DeadlineInv, TimedOutEarly
  <2> QED
    BY SMT, <2>1, <2>2, <2>3
<1> QED
  BY <1>1, DeadlineInvAlways, PTL

=============================================================================
