---------------------------- MODULE MutexProofs -----------------------------
(***************************************************************************)
(* Theorems about MutexClient, for any set of threads, any depth of        *)
(* nesting and any threads that may be terminated.                         *)
(***************************************************************************)
EXTENDS MutexClient, TLAPS

(* A thread that does not lock by hand has nothing locked by hand, only on *)
(* Apple does a terminated thread keep MutexLockers, and on Windows it     *)
(* keeps nothing.                                                          *)
Remains ==
  /\ \A t \in Threads : t \notin Manual => byHand[t] = 0
  /\ \A t \in Threads : ~alive[t] =>
        /\ t \in Cancellable
        /\ build # "apple" => scopes[t] = 0
        /\ build = "windows" => byHand[t] = 0 /\ unaware # t

(* Only Windows abandons a mutex, and only when its owner is terminated.   *)
Abandons ==
  abandoned \/ aborted \/ unaware # NoThread =>
    build = "windows" /\ \E t \in Cancellable : ~alive[t]

(* A mutex that is abandoned belongs to nobody.                            *)
AbandonedFree == abandoned => owner = NoThread

MutexInv == TypeOK /\ LocksAccounted /\ Remains /\ Abandons /\ AbandonedFree

-----------------------------------------------------------------------------
LEMMA InitInv == Init => MutexInv
<1> SUFFICES ASSUME Init PROVE MutexInv
  OBVIOUS
<1> USE DEF Init, M!Init
<1>1. TypeOK
  <2>1. abandoned \in BOOLEAN /\ aborted \in BOOLEAN
    OBVIOUS
  <2>2. scopes \in [Threads -> Nat] /\ byHand \in [Threads -> Nat]
    OBVIOUS
  <2>3. alive \in [Threads -> BOOLEAN]
    OBVIOUS
  <2>4. M!Consistent
    BY ThreadsAssumption DEF M!Consistent
  <2> QED
    BY <2>1, <2>2, <2>3, <2>4 DEF TypeOK
<1>2. LocksAccounted
  <2>1. /\ scopes = [t \in Threads |-> 0] /\ byHand = [t \in Threads |-> 0]
        /\ owner = NoThread /\ unaware = NoThread
    OBVIOUS
  <2> SUFFICES ASSUME NEW t \in Threads
               PROVE  Held(t) = Believed(t) + (IF unaware = t THEN 1 ELSE 0)
    BY DEF LocksAccounted
  <2>2. scopes[t] = 0 /\ byHand[t] = 0
    BY <2>1
  <2>3. owner # t /\ unaware # t
    BY <2>1, ThreadsAssumption
  <2> QED
    BY ONLY <2>2, <2>3 DEF Believed, Held
<1>3. Remains
  BY DEF Remains
<1>4. Abandons /\ AbandonedFree
  BY DEF Abandons, AbandonedFree
<1> QED
  BY <1>1, <1>2, <1>3, <1>4 DEF MutexInv

(* Locking: the new owner gains one level, which it counts unless the      *)
(* mutex had been abandoned and it was a tryLock() that took it.           *)
LEMMA LockStep ==
  ASSUME MutexInv, NEW t \in Threads,
         EnterScope(t) \/ LockByHand(t) \/ TryLock(t)
  PROVE  MutexInv'
<1> USE DEF MutexInv, TypeOK, M!Consistent
<1>1. /\ alive[t] /\ UNCHANGED <<build, alive>>
      /\ (t \notin Manual => UNCHANGED byHand)
      /\ abandoned' \in BOOLEAN /\ aborted' \in BOOLEAN
  BY DEF EnterScope, LockByHand, TryLock, MayLock, Acquire
<1>2. \/ /\ M!Lock(t)
         /\ scopes' = [scopes EXCEPT ![t] = @ + 1]
         /\ UNCHANGED <<byHand, unaware>>
      \/ /\ M!Lock(t)
         /\ byHand' = [byHand EXCEPT ![t] = @ + 1]
         /\ UNCHANGED <<scopes, unaware>>
      \/ /\ M!Lock(t)
         /\ abandoned
         /\ unaware' = t
         /\ UNCHANGED <<scopes, byHand>>
      \/ UNCHANGED <<owner, depth, scopes, byHand, unaware>>
  BY DEF EnterScope, LockByHand, TryLock, Acquire
<1>3. /\ M!Consistent
      /\ scopes \in [Threads -> Nat] /\ byHand \in [Threads -> Nat]
      /\ unaware \in Threads \cup {NoThread}
      /\ abandoned => owner = NoThread
  BY DEF AbandonedFree
<1>4. TypeOK'
  <2>1. M!Consistent'
    BY <1>2, <1>3, ThreadsAssumption DEF M!Lock, M!Available
  <2>2. scopes' \in [Threads -> Nat] /\ byHand' \in [Threads -> Nat]
    BY ONLY <1>2, <1>3, t \in Threads
  <2>3. unaware' \in Threads \cup {NoThread}
    BY ONLY <1>2, <1>3, t \in Threads
  <2> QED
    BY <1>1, <2>1, <2>2, <2>3
<1>5. LocksAccounted'
  <2>1. \A u \in Threads \ {t} : Believed(u)' = Believed(u)
    BY ONLY <1>2, <1>3, t \in Threads DEF Believed
  <2>2. \A u \in Threads : Believed(u) \in Nat /\ Held(u) \in Nat
    BY <1>3 DEF Believed, Held
  <2>3. \A u \in Threads :
          Held(u) = Believed(u) + (IF unaware = u THEN 1 ELSE 0)
    BY DEF LocksAccounted
  <2>4. unaware # NoThread => owner = unaware
    BY ONLY <1>3, <2>2, <2>3, ThreadsAssumption DEF Held
  <2>5. \/ M!Lock(t) /\ Believed(t)' = Believed(t) + 1 /\ unaware' = unaware
        \/ /\ M!Lock(t) /\ Believed(t)' = Believed(t)
           /\ unaware = NoThread /\ unaware' = t
        \/ /\ UNCHANGED <<owner, depth, unaware>>
           /\ Believed(t)' = Believed(t)
    BY ONLY <1>2, <1>3, <2>4, t \in Threads, ThreadsAssumption DEF Believed
  <2>6. /\ M!Lock(t) => Held(t)' = Held(t) + 1
        /\ UNCHANGED <<owner, depth>> => Held(t)' = Held(t)
    BY ONLY <1>3, t \in Threads, ThreadsAssumption
       DEF Held, M!Lock, M!Available, M!Consistent
  <2>7. \A u \in Threads \ {t} : Held(u)' = Held(u)
    BY ONLY <1>2, t \in Threads, ThreadsAssumption
       DEF Held, M!Lock, M!Available
  <2>8. Held(t)' = Believed(t)' + (IF unaware' = t THEN 1 ELSE 0)
    BY ONLY <2>2, <2>3, <2>5, <2>6, t \in Threads, ThreadsAssumption
  <2>9. \A u \in Threads \ {t} : unaware' = u <=> unaware = u
    BY ONLY <2>5, t \in Threads, ThreadsAssumption
  <2> QED
    BY ONLY <2>1, <2>3, <2>7, <2>8, <2>9, t \in Threads DEF LocksAccounted
<1>6. Remains'
  <2>1. \A u \in Threads : ~alive[u] => u # t
    BY <1>1
  <2>2. \A u \in Threads \ {t} : scopes'[u] = scopes[u] /\ byHand'[u] = byHand[u]
    BY ONLY <1>2, <1>3, t \in Threads
  <2>3. \A u \in Threads \ {t} : unaware' = u => unaware = u
    BY ONLY <1>2, t \in Threads
  <2> QED
    BY ONLY <1>1, <2>1, <2>2, <2>3, t \in Threads, Remains DEF Remains
<1>7. Abandons'
  <2>1. \/ UNCHANGED unaware
        \/ abandoned
    BY <1>2
  <2>2. (abandoned' => abandoned) /\ (aborted' => abandoned \/ aborted)
    BY DEF EnterScope, LockByHand, TryLock, Acquire
  <2> QED
    BY ONLY <1>1, <2>1, <2>2, Abandons DEF Abandons
<1>8. AbandonedFree'
  <2>1. abandoned' => abandoned /\ UNCHANGED owner
    BY <1>3 DEF EnterScope, LockByHand, TryLock, Acquire, M!Lock
  <2> QED
    BY <2>1 DEF AbandonedFree
<1> QED
  BY <1>4, <1>5, <1>6, <1>7, <1>8

(* Unlocking: the owner loses one level, which is the one it does not know *)
(* of when it knows of none, and anybody else changes nothing.             *)
LEMMA UnlockStep ==
  ASSUME MutexInv, NEW t \in Threads, LeaveScope(t) \/ UnlockByHand(t)
  PROVE  MutexInv'
<1> USE DEF MutexInv, TypeOK, M!Consistent
<1>1. /\ UNCHANGED <<build, abandoned, alive, aborted>>
      /\ alive[t]
      /\ M!Unlock(t)
      /\ (t \notin Manual => UNCHANGED byHand)
  BY DEF LeaveScope, UnlockByHand
<1>2. M!Consistent'
  BY <1>1, ThreadsAssumption DEF M!Unlock
<1>3. /\ scopes' \in [Threads -> Nat]
      /\ byHand' \in [Threads -> Nat]
      /\ unaware' \in Threads \cup {NoThread}
  BY DEF LeaveScope, UnlockByHand
<1>4. TypeOK'
  BY <1>1, <1>2, <1>3
<1>5. \A u \in Threads \ {t} :
        /\ Believed(u)' = Believed(u)
        /\ scopes'[u] = scopes[u] /\ byHand'[u] = byHand[u]
  BY DEF LeaveScope, UnlockByHand, Believed
<1>6. \/ /\ Believed(t) > 0 /\ Believed(t)' = Believed(t) - 1
         /\ UNCHANGED unaware
      \/ /\ Believed(t) = 0 /\ Believed(t)' = 0
         /\ unaware' = IF unaware = t THEN NoThread ELSE unaware
  <2>1. scopes[t] \in Nat /\ byHand[t] \in Nat
    OBVIOUS
  <2>2. CASE LeaveScope(t)
    <3>1. /\ scopes[t] > 0 /\ scopes'[t] = scopes[t] - 1
          /\ byHand'[t] = byHand[t] /\ unaware' = unaware
      BY <2>2 DEF LeaveScope
    <3> QED
      BY ONLY <2>1, <3>1 DEF Believed
  <2>3. CASE UnlockByHand(t)
    <3>1. /\ byHand[t] > 0 \/ scopes[t] + byHand[t] = 0
          /\ byHand'[t] = (IF byHand[t] > 0 THEN byHand[t] - 1 ELSE 0)
          /\ scopes'[t] = scopes[t]
          /\ unaware' = IF unaware = t /\ byHand[t] = 0 THEN NoThread
                        ELSE unaware
      BY <2>3 DEF UnlockByHand, Believed
    <3> QED
      BY ONLY <2>1, <3>1 DEF Believed
  <2> QED
    BY <2>2, <2>3
<1>7. LocksAccounted'
  <2>1. /\ Held(t)' = IF owner = t THEN Held(t) - 1 ELSE Held(t)
        /\ \A u \in Threads \ {t} : Held(u)' = Held(u)
    BY <1>1, ThreadsAssumption DEF Held, M!Unlock
  <2>2. \A u \in Threads : Believed(u) \in Nat /\ Held(u) \in Nat
    BY DEF Believed, Held
  <2>3. owner = t => Held(t) > 0
    BY ThreadsAssumption DEF Held
  <2>4. owner # t => Held(t) = 0
    BY DEF Held
  <2>5. \A u \in Threads :
          Held(u) = Believed(u) + (IF unaware = u THEN 1 ELSE 0)
    BY DEF LocksAccounted
  <2>6. Held(t)' = Believed(t)' + (IF unaware' = t THEN 1 ELSE 0)
    BY ONLY <1>6, <2>1, <2>2, <2>3, <2>4, <2>5, t \in Threads,
            ThreadsAssumption
  <2>7. \A u \in Threads \ {t} : unaware' = u <=> unaware = u
    BY ONLY <1>6, t \in Threads, ThreadsAssumption
  <2> QED
    BY ONLY <1>5, <2>1, <2>5, <2>6, <2>7, t \in Threads DEF LocksAccounted
<1>8. unaware' = unaware \/ unaware' = NoThread
  BY <1>6
<1>9. Remains'
  <2>1. \A u \in Threads : ~alive[u] => u # t
    BY <1>1
  <2>2. \A u \in Threads : unaware' = u => unaware = u
    BY ONLY <1>8, ThreadsAssumption
  <2>3. Remains
    OBVIOUS
  <2>4. \A u \in Threads : u \notin Manual => byHand'[u] = 0
    BY ONLY <1>1, <1>5, <2>3, t \in Threads DEF Remains
  <2> QED
    BY ONLY <1>1, <1>5, <2>1, <2>2, <2>3, <2>4, t \in Threads DEF Remains
<1>10. Abandons'
  BY ONLY <1>1, <1>8, Abandons DEF Abandons
<1>11. AbandonedFree'
  BY <1>1, ThreadsAssumption DEF AbandonedFree, M!Unlock
<1> QED
  BY <1>4, <1>7, <1>9, <1>10, <1>11

(* Terminating: on Linux the MutexLockers of the thread unlock, on Apple   *)
(* nothing is unlocked, on Windows the whole mutex is abandoned.           *)
LEMMA TerminateStep ==
  ASSUME MutexInv, NEW t \in Threads, Terminate(t)
  PROVE  MutexInv'
<1> USE DEF MutexInv, TypeOK, M!Consistent
<1>1. /\ UNCHANGED <<build, aborted>>
      /\ t \in Cancellable
      /\ scopes' = [scopes EXCEPT ![t] =
                      IF build = "apple" THEN scopes[t] ELSE 0]
      /\ byHand' = [byHand EXCEPT ![t] =
                      IF build = "windows" THEN 0 ELSE byHand[t]]
      /\ unaware' = IF unaware = t THEN NoThread ELSE unaware
      /\ alive' = [alive EXCEPT ![t] = FALSE]
  BY DEF Terminate
<1>2. /\ build \in {"posix", "apple", "windows"}
      /\ scopes[t] \in Nat /\ byHand[t] \in Nat
      /\ \A u \in Threads :
           Held(u) = Believed(u) + (IF unaware = u THEN 1 ELSE 0)
  BY BuildAssumption DEF LocksAccounted
<1>3. build # "windows" => unaware = NoThread
  BY DEF Abandons
<1>4. build = "posix" /\ owner = t => depth = scopes[t] + byHand[t]
  BY <1>2, <1>3, ThreadsAssumption DEF Held, Believed
<1>5. \/ build = "windows" /\ owner = t /\ owner' = NoThread /\ depth' = 0
      \/ build = "posix" /\ owner = t /\ depth' = byHand[t]
           /\ owner' = (IF depth' = 0 THEN NoThread ELSE t)
      \/ (build = "apple" \/ owner # t) /\ UNCHANGED <<owner, depth>>
  BY <1>2, <1>4 DEF Terminate
<1>6. M!Consistent'
  BY <1>2, <1>5, ThreadsAssumption
<1>7. /\ abandoned' \in BOOLEAN
      /\ build # "windows" => UNCHANGED abandoned
  BY DEF Terminate
<1>8. /\ scopes' \in [Threads -> Nat] /\ byHand' \in [Threads -> Nat]
      /\ alive' \in [Threads -> BOOLEAN]
      /\ unaware' \in Threads \cup {NoThread}
  BY <1>1, <1>2
<1>9. TypeOK'
  BY <1>1, <1>6, <1>7, <1>8
<1>10. LocksAccounted'
  <2>1. \A u \in Threads \ {t} : /\ Believed(u)' = Believed(u)
                                 /\ Held(u)' = Held(u)
                                 /\ unaware' = u <=> unaware = u
    BY <1>1, <1>5, ThreadsAssumption DEF Believed, Held
  <2>2. scopes'[t] = (IF build = "apple" THEN scopes[t] ELSE 0)
        /\ byHand'[t] = (IF build = "windows" THEN 0 ELSE byHand[t])
    BY <1>1
  <2>3. unaware' # t
    BY <1>1, ThreadsAssumption
  <2>4. owner # t => scopes[t] = 0 /\ byHand[t] = 0
    BY <1>2 DEF Held, Believed
  <2>5. owner = t => Held(t) = depth
    BY DEF Held
  <2>6. Held(t)' = Believed(t)'
    <3>1. CASE build = "windows"
      <4>1. owner' # t
        BY <3>1, <1>5, ThreadsAssumption
      <4> QED
        BY ONLY <3>1, <4>1, <2>2 DEF Held, Believed
    <3>2. CASE build = "posix"
      <4>1. owner # t => owner' # t
        BY <3>2, <1>5
      <4>2. owner = t => depth' = byHand[t] /\ (owner' = t \/ depth' = 0)
        BY <3>2, <1>5
      <4>3. owner = t /\ depth' = 0 => owner' # t
        BY <3>2, <1>5, ThreadsAssumption
      <4> QED
        BY ONLY <3>2, <4>1, <4>2, <4>3, <2>2, <2>4, <1>2 DEF Held, Believed
    <3>3. CASE build = "apple"
      <4>1. UNCHANGED <<owner, depth>>
        BY <3>3, <1>5
      <4>2. unaware # t
        BY <3>3, <1>3, ThreadsAssumption
      <4>3. Held(t) = Believed(t)
        BY <1>2, <4>2 DEF Believed
      <4> QED
        BY ONLY <3>3, <4>1, <4>3, <2>2 DEF Held, Believed
    <3> QED
      BY <1>2, <3>1, <3>2, <3>3
  <2>7. Believed(t)' \in Nat
    BY ONLY <2>2, <1>2 DEF Believed
  <2> QED
    BY ONLY <1>2, <2>1, <2>3, <2>6, <2>7, t \in Threads DEF LocksAccounted
<1>11. Remains'
  <2>1. \A u \in Threads : u \notin Manual => byHand'[u] = 0
    BY <1>1 DEF Remains
  <2>2. \A u \in Threads \ {t} : ~alive'[u] =>
          /\ u \in Cancellable
          /\ build' # "apple" => scopes'[u] = 0
          /\ build' = "windows" => byHand'[u] = 0 /\ unaware' # u
    BY <1>1, ThreadsAssumption DEF Remains
  <2>3. /\ t \in Cancellable
        /\ build' # "apple" => scopes'[t] = 0
        /\ build' = "windows" => byHand'[t] = 0 /\ unaware' # t
    BY <1>1, ThreadsAssumption
  <2> QED
    BY ONLY <2>1, <2>2, <2>3, t \in Threads DEF Remains
<1>12. Abandons'
  <2>1. ~alive'[t] /\ t \in Cancellable
    BY <1>1
  <2>2. build # "windows" => ~abandoned' /\ ~aborted' /\ unaware' = NoThread
    BY <1>1, <1>3, <1>7 DEF Abandons
  <2> QED
    BY <1>1, <2>1, <2>2 DEF Abandons
<1>13. AbandonedFree'
  <2>1. \/ abandoned' = TRUE /\ owner' = NoThread
        \/ UNCHANGED abandoned
    BY DEF Terminate
  <2>2. abandoned => owner' = NoThread
    BY <1>5, ThreadsAssumption DEF AbandonedFree
  <2> QED
    BY <2>1, <2>2 DEF AbandonedFree
<1> QED
  BY <1>9, <1>10, <1>11, <1>12, <1>13

LEMMA StepInv == MutexInv /\ [Next]_vars => MutexInv'
<1> SUFFICES ASSUME MutexInv, [Next]_vars PROVE MutexInv'
  OBVIOUS
<1>1. CASE UNCHANGED vars
  BY <1>1 DEF vars, MutexInv, TypeOK, LocksAccounted, Held, Believed, Remains,
              Abandons, AbandonedFree, M!Consistent
<1> QED
  BY <1>1, LockStep, UnlockStep, TerminateStep DEF Next

LEMMA MutexInvAlways == Spec => []MutexInv
<1> QED
  BY InitInv, StepInv, PTL DEF Spec

(* The mutex has one owner or none, and is free exactly at depth 0, in     *)
(* every build and after any termination.                                  *)
THEOREM MutexTyped == Spec => []TypeOK
<1>1. MutexInv => TypeOK
  BY DEF MutexInv
<1> QED
  BY <1>1, MutexInvAlways, PTL

(* Whatever the nesting, whoever unlocks what it does not own and whoever  *)
(* is terminated: the depth of the mutex is exactly what its owner has to  *)
(* undo, plus one for a thread that tryLock() made the owner of an         *)
(* abandoned mutex without telling it, and nobody else thinks it owns it.  *)
THEOREM MutexAccounted == Spec => []LocksAccounted
<1>1. MutexInv => LocksAccounted
  BY DEF MutexInv
<1> QED
  BY <1>1, MutexInvAlways, PTL

(* A terminated thread has the mutex exactly as often as it locked it by   *)
(* hand on Linux and as often as it locked it at all on Apple, never on    *)
(* Windows; an assertion fails, or tryLock() hides that it has got the     *)
(* mutex, only on Windows and only after a termination.                    *)
THEOREM TerminatedLeft == Spec => []TerminatedLeave
<1>1. MutexInv => TerminatedLeave
  <2> SUFFICES ASSUME MutexInv PROVE TerminatedLeave
    OBVIOUS
  <2> USE DEF MutexInv, TypeOK, M!Consistent
  <2>1. ASSUME NEW t \in Threads, ~alive[t], owner = t
        PROVE  \/ build = "apple" /\ depth = scopes[t] + byHand[t]
               \/ build = "posix" /\ t \in Manual /\ depth = byHand[t]
    <3>1. build \in {"posix", "apple", "windows"}
      BY BuildAssumption
    <3>2. unaware # t
      BY <2>1, <3>1, ThreadsAssumption DEF Remains, Abandons
    <3>3. scopes[t] \in Nat /\ byHand[t] \in Nat
      OBVIOUS
    <3>4. depth = scopes[t] + byHand[t]
      <4>1. Held(t) = Believed(t) + 0
        BY <3>2 DEF LocksAccounted
      <4>2. Held(t) = depth
        BY <2>1 DEF Held
      <4> QED
        BY ONLY <3>3, <4>1, <4>2 DEF Believed
    <3>5. depth # 0
      BY <2>1, ThreadsAssumption
    <3>6. build # "apple" => scopes[t] = 0
      BY <2>1 DEF Remains
    <3>7. build = "windows" => byHand[t] = 0
      BY <2>1 DEF Remains
    <3>8. byHand[t] # 0 => t \in Manual
      BY DEF Remains
    <3> QED
      BY ONLY <3>1, <3>3, <3>4, <3>5, <3>6, <3>7, <3>8
  <2> QED
    BY <2>1 DEF TerminatedLeave, Abandons
<1> QED
  BY <1>1, MutexInvAlways, PTL

=============================================================================
