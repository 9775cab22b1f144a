----------------------------- MODULE SemaProofs -----------------------------
(***************************************************************************)
(* Theorems about Sema, for any finite set of threads in any roles, any    *)
(* increments and any initial value, in the three builds, with and without *)
(* signal handlers and spurious wakeups.                                   *)
(***************************************************************************)
EXTENDS Sema, FiniteSetTheorems, TLAPS

(* Only the Apple build looks at the counter and sleeps on the condition,  *)
(* only on POSIX does a signal handler end a wait, and the Windows build   *)
(* does not post token by token.                                           *)
Places ==
  \A t \in Threads :
    /\ pc[t] \in {"check", "toSleep", "asleep", "recheck"} => build = "apple"
    /\ pc[t] = "eintr" => build = "posix" /\ kind[t] = "forever"
    /\ pc[t] \in {"post", "signal"} => build # "windows"

(* A thread owns m_pMutex exactly inside the MutexLocker scopes of the     *)
(* Windows build.                                                          *)
OwnerHolds ==
  /\ depth <= 1
  /\ \A t \in Threads : pc[t] \in {"store", "unlock"} <=> owner = t

(* What m_count is, or will be once the notify() on its way from           *)
(* ReleaseSemaphore to m_count has stored it.                              *)
Bookkeeping ==
  build = "windows" /\ refused = FALSE =>
    /\ \A t \in Threads : pc[t] = "store" =>
         cnt + left[t] = count + Cardinality(Uncounted) - doubled
    /\ (\A t \in Threads : pc[t] # "store") =>
         m_count = count + Cardinality(Uncounted) - doubled

SemaInv == TypeOK /\ Places /\ OwnerHolds /\ Bookkeeping

-----------------------------------------------------------------------------
LEMMA LockConsistent ==
  ASSUME M!Consistent, NEW t \in Threads, M!Lock(t)
  PROVE  M!Consistent'
BY SemaAssumption DEF M!Consistent, M!Lock

LEMMA UnlockConsistent ==
  ASSUME M!Consistent, NEW t \in Threads, M!Unlock(t)
  PROVE  M!Consistent'
BY SemaAssumption DEF M!Consistent, M!Unlock

LEMMA UnchangedConsistent ==
  ASSUME M!Consistent, UNCHANGED <<owner, depth>>
  PROVE  M!Consistent'
BY DEF M!Consistent

LEMMA TypeInit == Init => TypeOK
<1> SUFFICES ASSUME Init PROVE TypeOK
  OBVIOUS
<1>1. M!Consistent
  BY SemaAssumption DEF Init, M!Init, M!Consistent
<1>2. count \in Nat /\ m_count \in Int /\ cnt \in Int
  BY SemaAssumption DEF Init
<1>3. refused \in BOOLEAN /\ doubled \in Nat
  BY DEF Init
<1> QED
  BY <1>1, <1>2, <1>3 DEF Init, TypeOK, PCs

(* Every step of a wait() keeps the types.                                 *)
LEMMA WaitTypes ==
  ASSUME TypeOK, NEW t \in Threads,
         WaitCall(t) \/ WaitStep(t) \/ Disturbed(t)
  PROVE  TypeOK'
<1> USE DEF TypeOK, PCs, Goto, windows
<1>1. CASE WaitCall(t)
  BY <1>1, SemaAssumption, UnchangedConsistent DEF WaitCall
<1>2. CASE Acquired(t)
  BY <1>2, UnchangedConsistent DEF Acquired
<1>3. CASE TimedOut(t)
  BY <1>3, UnchangedConsistent DEF TimedOut
<1>4. CASE Check(t)
  BY <1>4, UnchangedConsistent DEF Check
<1>5. CASE Sleep(t)
  BY <1>5, UnchangedConsistent DEF Sleep
<1>6. CASE Recheck(t)
  BY <1>6, UnchangedConsistent DEF Recheck
<1>7. CASE Decrement(t)
  BY <1>7, LockConsistent DEF Decrement
<1>8. CASE Interrupted(t)
  BY <1>8, UnchangedConsistent DEF Interrupted, vars
<1>9. CASE SpuriousWakeup(t)
  BY <1>9, UnchangedConsistent DEF SpuriousWakeup
<1>10. CASE GiveUp(t)
  BY <1>10, UnchangedConsistent DEF GiveUp
<1> QED
  BY <1>1, <1>2, <1>3, <1>4, <1>5, <1>6, <1>7, <1>8, <1>9, <1>10
     DEF WaitStep, Disturbed

LEMMA UncountedNat == Cardinality(Uncounted) \in Nat
<1>1. IsFiniteSet(Uncounted)
  BY SemaAssumption, FS_Subset, Uncounted \in SUBSET Threads DEF Uncounted
<1> QED
  BY <1>1, FS_CardinalityType

(* So does every step of a notify() and of a value().                      *)
LEMMA NotifyTypes ==
  ASSUME TypeOK, NEW t \in Threads,
         \/ NotifyCall(t) \/ NotifyStep(t)
         \/ ValueCall(t) \/ ValueLocked(t) \/ Return(t)
  PROVE  TypeOK'
<1> USE DEF TypeOK, PCs, Goto, windows
<1>1. CASE NotifyCall(t)
  BY <1>1, SemaAssumption, UnchangedConsistent DEF NotifyCall
<1>2. CASE Post(t)
  BY <1>2, UnchangedConsistent DEF Post
<1>3. CASE Signal(t)
  BY <1>3, UnchangedConsistent DEF Signal, Asleep
<1>4. CASE NotifyReturn(t)
  BY <1>4, UnchangedConsistent DEF NotifyReturn
<1>5. CASE Release(t)
  <2>1. M!Consistent'
    BY <1>5, LockConsistent DEF Release
  <2>2. count' \in Nat
    BY <1>5 DEF Release
  <2>3. cnt' \in Int
    <3>1. cnt' = count \/ cnt' \in Garbage
      BY <1>5 DEF Release
    <3>2. count \in Int /\ \A g \in Garbage : g \in Int
      BY SemaAssumption
    <3> QED
      BY ONLY <3>1, <3>2
  <2>4. refused' \in BOOLEAN
    BY <1>5 DEF Release
  <2>5. pc' \in [Threads -> PCs]
    BY <1>5 DEF Release
  <2>6. doubled' \in Nat
    BY <1>5, UncountedNat DEF Release
  <2> QED
    BY <1>5, <2>1, <2>2, <2>3, <2>4, <2>5, <2>6 DEF Release
<1>6. CASE Store(t)
  BY <1>6, UnchangedConsistent DEF Store
<1>7. CASE ValueCall(t)
  BY <1>7, UnchangedConsistent DEF ValueCall
<1>8. CASE ValueLocked(t)
  BY <1>8, LockConsistent DEF ValueLocked
<1>9. CASE Return(t)
  BY <1>9, UnlockConsistent DEF Return
<1> QED
  BY <1>1, <1>2, <1>3, <1>4, <1>5, <1>6, <1>7, <1>8, <1>9 DEF NotifyStep

LEMMA TypeStep == TypeOK /\ [Next]_vars => TypeOK'
<1> SUFFICES ASSUME TypeOK, [Next]_vars PROVE TypeOK'
  OBVIOUS
<1>1. CASE UNCHANGED vars
  BY <1>1, UnchangedConsistent DEF vars, windows, TypeOK
<1> QED
  BY <1>1, WaitTypes, NotifyTypes DEF Next, Step

(* The counter is a natural number in every build: no wait() takes a token *)
(* that is not there.                                                      *)
THEOREM TypeCorrect == Spec => []TypeOK
BY TypeInit, TypeStep, PTL DEF Spec

-----------------------------------------------------------------------------
LEMMA PlacesStep == TypeOK /\ Places /\ [Next]_vars => Places'
<1> SUFFICES ASSUME TypeOK, Places, [Next]_vars PROVE Places'
  OBVIOUS
<1> USE DEF Places, TypeOK, Goto
<1>1. CASE UNCHANGED vars
  BY <1>1 DEF vars
<1>2. ASSUME NEW t \in Threads, WaitCall(t) \/ WaitStep(t) \/ Disturbed(t)
      PROVE  Places'
  <2>1. CASE WaitCall(t)
    BY <2>1 DEF WaitCall
  <2>2. CASE WaitStep(t)
    BY <2>2 DEF WaitStep, Acquired, TimedOut, GiveUp, Check, Sleep, Recheck,
                Decrement
  <2>3. CASE Disturbed(t)
    BY <2>3 DEF Disturbed, Interrupted, SpuriousWakeup, vars
  <2> QED
    BY <1>2, <2>1, <2>2, <2>3
<1>3. ASSUME NEW t \in Threads, NotifyCall(t) \/ NotifyStep(t) PROVE Places'
  <2>1. CASE NotifyCall(t)
    BY <2>1 DEF NotifyCall
  <2>2. CASE Signal(t)
    BY <2>2 DEF Signal, Asleep
  <2>3. CASE Post(t) \/ NotifyReturn(t) \/ Release(t) \/ Store(t)
    BY <2>3 DEF Post, NotifyReturn, Release, Store
  <2> QED
    BY <1>3, <2>1, <2>2, <2>3 DEF NotifyStep
<1>4. ASSUME NEW t \in Threads, ValueCall(t) \/ ValueLocked(t) \/ Return(t)
      PROVE  Places'
  BY <1>4 DEF ValueCall, ValueLocked, Return
<1> QED
  BY <1>1, <1>2, <1>3, <1>4 DEF Next, Step

LEMMA OwnerStep == TypeOK /\ OwnerHolds /\ [Next]_vars => OwnerHolds'
<1> SUFFICES ASSUME TypeOK, OwnerHolds, [Next]_vars PROVE OwnerHolds'
  OBVIOUS
<1> USE DEF OwnerHolds, TypeOK, Goto, M!Consistent, windows
<1>1. CASE UNCHANGED vars
  BY <1>1 DEF vars
<1>2. ASSUME NEW t \in Threads,
             \/ WaitCall(t) \/ Acquired(t) \/ TimedOut(t) \/ GiveUp(t)
             \/ Check(t) \/ Sleep(t) \/ Recheck(t) \/ Disturbed(t)
      PROVE  OwnerHolds'
  BY <1>2 DEF WaitCall, Acquired, TimedOut, GiveUp, Check, Sleep, Recheck, Disturbed,
              Interrupted, SpuriousWakeup, vars
<1>3. ASSUME NEW t \in Threads,
             \/ NotifyCall(t) \/ Post(t) \/ Signal(t) \/ NotifyReturn(t)
             \/ Store(t) \/ ValueCall(t)
      PROVE  OwnerHolds'
  BY <1>3 DEF NotifyCall, Post, Signal, Asleep, NotifyReturn, Store, ValueCall
<1>4. ASSUME NEW t \in Threads, Decrement(t) \/ Release(t) \/ ValueLocked(t)
      PROVE  OwnerHolds'
  <2>1. /\ M!Lock(t)
        /\ \E to \in {"store", "unlock"} : pc' = [pc EXCEPT ![t] = to]
        /\ pc[t] \notin {"store", "unlock"}
    BY <1>4 DEF Decrement, Release, ValueLocked
  <2>2. owner = NoThread /\ depth = 0
    BY <2>1 DEF M!Lock, M!Available
  <2> QED
    BY <2>1, <2>2, SemaAssumption DEF M!Lock
<1>5. ASSUME NEW t \in Threads, Return(t) PROVE OwnerHolds'
  BY <1>5, SemaAssumption DEF Return, M!Unlock
<1> QED
  BY <1>1, <1>2, <1>3, <1>4, <1>5 DEF Next, Step, WaitStep, NotifyStep

-----------------------------------------------------------------------------
(* How a step of one thread changes the number of tokens that have been    *)
(* taken and not counted.                                                  *)
LEMMA UncountedMove ==
  ASSUME TypeOK, NEW t \in Threads, NEW to \in PCs,
         pc' = [pc EXCEPT ![t] = to]
  PROVE  /\ to # "decrement" /\ pc[t] # "decrement" =>
              Cardinality(Uncounted)' = Cardinality(Uncounted)
         /\ to = "decrement" /\ pc[t] # "decrement" =>
              Cardinality(Uncounted)' = Cardinality(Uncounted) + 1
         /\ to # "decrement" /\ pc[t] = "decrement" =>
              Cardinality(Uncounted)' = Cardinality(Uncounted) - 1
<1>1. IsFiniteSet(Uncounted)
  BY SemaAssumption, FS_Subset, Uncounted \in SUBSET Threads DEF Uncounted
<1>2. t \in Uncounted <=> pc[t] = "decrement"
  BY DEF Uncounted
<1>3. CASE to = "decrement"
  <2>1. Uncounted' = Uncounted \cup {t}
    BY <1>3 DEF Uncounted, TypeOK
  <2>2. Cardinality(Uncounted') =
          IF t \in Uncounted THEN Cardinality(Uncounted)
                             ELSE Cardinality(Uncounted) + 1
    BY <1>1, <2>1, FS_AddElement
  <2> QED
    BY <1>2, <1>3, <2>2
<1>4. CASE to # "decrement"
  <2>1. Uncounted' = Uncounted \ {t}
    BY <1>4 DEF Uncounted, TypeOK
  <2>2. Cardinality(Uncounted') =
          IF t \in Uncounted THEN Cardinality(Uncounted) - 1
                             ELSE Cardinality(Uncounted)
    BY <1>1, <2>1, FS_RemoveElement
  <2> QED
    BY <1>2, <1>4, <2>2
<1> QED
  BY <1>3, <1>4

LEMMA BookStep == SemaInv /\ [Next]_vars => Bookkeeping'
<1> SUFFICES ASSUME SemaInv, [Next]_vars,
                    build' = "windows", refused' = FALSE
             PROVE  Bookkeeping'
  BY DEF Bookkeeping
<1> DEFINE uncounted == Cardinality(Uncounted)
           Storing == {t \in Threads : pc[t] = "store"}
<1>1. /\ TypeOK /\ OwnerHolds
      /\ count \in Nat /\ m_count \in Int /\ cnt \in Int /\ doubled \in Nat
      /\ left \in [Threads -> Nat] /\ pc \in [Threads -> PCs]
  BY DEF SemaInv, TypeOK
<1>2. uncounted \in Nat
  BY UncountedNat
<1>3. build = "windows" /\ \A t \in Threads :
        pc[t] \notin {"eintr", "check", "toSleep", "asleep", "recheck", "post",
                     "signal"}
  <2>1. build = "windows"
    BY DEF Next, vars, WaitCall, NotifyCall, ValueCall, Step, WaitStep,
       Disturbed, NotifyStep, ValueLocked, Return, Acquired, TimedOut, GiveUp, Check,
       Sleep, Recheck, Decrement, Interrupted, SpuriousWakeup, Post, Signal,
       NotifyReturn, Release, Store
  <2> QED
    BY <2>1 DEF SemaInv, Places
<1>4. refused = FALSE =>
        /\ \A t \in Storing : cnt + left[t] = count + uncounted - doubled
        /\ Storing = {} => m_count = count + uncounted - doubled
  BY <1>3 DEF SemaInv, Bookkeeping
<1>5. SUFFICES
        /\ \A t \in Storing' : cnt' + left'[t] = count' + uncounted' - doubled'
        /\ Storing' = {} => m_count' = count' + uncounted' - doubled'
  BY DEF Bookkeeping
<1>6. CASE UNCHANGED vars
  BY <1>4, <1>6 DEF vars, windows, Uncounted
<1>7. ASSUME NEW t \in Threads, NEW to \in PCs,
             pc' = [pc EXCEPT ![t] = to],
             pc[t] \notin {"decrement", "store"}, to \notin {"decrement", "store"},
             UNCHANGED <<m_count, cnt, refused, doubled, count>>,
             \A u \in Threads \ {t} : left'[u] = left[u]
      PROVE  /\ \A u \in Storing' : cnt' + left'[u] = count' + uncounted' - doubled'
             /\ Storing' = {} => m_count' = count' + uncounted' - doubled'
  <2>1. uncounted' = uncounted
    BY <1>1, <1>7, UncountedMove
  <2>2. Storing' = Storing /\ t \notin Storing
    BY <1>1, <1>7
  <2> HIDE DEF Storing
  <2>3. \A u \in Storing : u \in Threads /\ left'[u] = left[u]
    BY <1>7, <2>2 DEF Storing
  <2> QED
    BY <1>1, <1>2, <1>4, <1>7, <2>1, <2>2, <2>3
<1>8. ASSUME NEW t \in Threads,
             \/ WaitCall(t) \/ TimedOut(t) \/ NotifyCall(t)
             \/ NotifyReturn(t) \/ ValueCall(t) \/ ValueLocked(t) \/ Return(t)
      PROVE  /\ \A u \in Storing' : cnt' + left'[u] = count' + uncounted' - doubled'
             /\ Storing' = {} => m_count' = count' + uncounted' - doubled'
  <2>1. /\ \E to \in {"idle", "wait", "check", "release", "post",
                     "value", "unlock"} : pc' = [pc EXCEPT ![t] = to]
        /\ pc[t] \in {"idle", "wait", "asleep", "post", "value", "unlock"}
        /\ UNCHANGED <<m_count, cnt, refused, doubled>>
    BY <1>8 DEF WaitCall, TimedOut, NotifyCall, NotifyReturn, ValueCall,
                ValueLocked, Return, Goto, windows
  <2>2. count' = count
    BY <1>8 DEF WaitCall, TimedOut, NotifyCall, NotifyReturn, ValueCall,
                ValueLocked, Return
  <2>3. \A u \in Threads \ {t} : left'[u] = left[u]
    BY <1>1, <1>8 DEF WaitCall, TimedOut, NotifyCall, NotifyReturn,
                ValueCall, ValueLocked, Return
  <2>4. PICK to \in PCs : /\ pc' = [pc EXCEPT ![t] = to]
                          /\ to \notin {"decrement", "store"}
    BY <2>1 DEF PCs
  <2>5. pc[t] \notin {"decrement", "store"}
    BY <2>1
  <2> QED
    BY <1>7, <2>1, <2>2, <2>3, <2>4, <2>5
<1>9. ASSUME NEW t \in Threads, Signal(t)
      PROVE  /\ \A u \in Storing' : cnt' + left'[u] = count' + uncounted' - doubled'
             /\ Storing' = {} => m_count' = count' + uncounted' - doubled'
  <2>1. /\ Uncounted' = Uncounted /\ Storing' = Storing
        /\ UNCHANGED <<m_count, cnt, refused, doubled, count, left>>
    BY <1>1, <1>9 DEF Signal, Asleep, Uncounted, windows
  <2> QED
    BY <1>4, <2>1
<1>10. ASSUME NEW t \in Threads, Acquired(t)
       PROVE  /\ \A u \in Storing' : cnt' + left'[u] = count' + uncounted' - doubled'
              /\ Storing' = {} => m_count' = count' + uncounted' - doubled'
  <2>1. /\ pc[t] = "wait" /\ pc' = [pc EXCEPT ![t] = "decrement"]
        /\ "decrement" \in PCs
        /\ count' = count - 1
        /\ UNCHANGED <<m_count, cnt, refused, doubled, left>>
    BY <1>3, <1>10 DEF Acquired, Goto, windows, PCs
  <2>2. uncounted' = uncounted + 1
    BY <1>1, <2>1, UncountedMove
  <2>3. Storing' = Storing
    BY <1>1, <2>1
  <2> HIDE DEF Storing
  <2>4. \A u \in Storing : u \in Threads
    BY DEF Storing
  <2> QED
    BY <1>1, <1>2, <1>4, <2>1, <2>2, <2>3, <2>4
<1>11. ASSUME NEW t \in Threads, Decrement(t)
       PROVE  /\ \A u \in Storing' : cnt' + left'[u] = count' + uncounted' - doubled'
              /\ Storing' = {} => m_count' = count' + uncounted' - doubled'
  <2>1. /\ pc[t] = "decrement" /\ pc' = [pc EXCEPT ![t] = "unlock"]
        /\ "unlock" \in PCs
        /\ m_count' = m_count - 1
        /\ UNCHANGED <<count, cnt, refused, doubled, left>>
        /\ owner = NoThread \/ owner = t
    BY <1>11 DEF Decrement, Goto, PCs, M!Lock, M!Available
  <2>2. uncounted' = uncounted - 1
    BY <1>1, <2>1, UncountedMove
  <2>3. Storing = {} /\ Storing' = {}
    BY <1>1, <2>1, SemaAssumption DEF OwnerHolds
  <2> QED
    BY <1>1, <1>2, <1>4, <2>1, <2>2, <2>3
<1>12. ASSUME NEW t \in Threads, Release(t)
       PROVE  /\ \A u \in Storing' : cnt' + left'[u] = count' + uncounted' - doubled'
              /\ Storing' = {} => m_count' = count' + uncounted' - doubled'
  <2>1. /\ pc[t] = "release" /\ pc' = [pc EXCEPT ![t] = "store"]
        /\ "store" \in PCs /\ left' = left
        /\ owner = NoThread \/ owner = t
    BY <1>12 DEF Release, Goto, PCs, M!Lock, M!Available
  <2>2. count' = count + left[t] /\ cnt' = count /\ doubled' = uncounted
    BY <1>12 DEF Release
  <2>3. uncounted' = uncounted
    BY <1>1, <2>1, UncountedMove
  <2>4. Storing' = {t}
    BY <1>1, <2>1, SemaAssumption DEF OwnerHolds
  <2> QED
    BY <1>1, <1>2, <2>1, <2>2, <2>3, <2>4
<1>13. ASSUME NEW t \in Threads, Store(t)
       PROVE  /\ \A u \in Storing' : cnt' + left'[u] = count' + uncounted' - doubled'
              /\ Storing' = {} => m_count' = count' + uncounted' - doubled'
  <2>1. /\ pc[t] = "store" /\ pc' = [pc EXCEPT ![t] = "unlock"]
        /\ "unlock" \in PCs
        /\ m_count' = cnt + left[t]
        /\ UNCHANGED <<count, cnt, refused, doubled, left>>
    BY <1>13 DEF Store, Goto, PCs
  <2>2. uncounted' = uncounted
    BY <1>1, <2>1, UncountedMove
  <2>3. t \in Storing /\ Storing' = {}
    BY <1>1, <2>1, SemaAssumption DEF OwnerHolds
  <2> QED
    BY <1>4, <2>1, <2>2, <2>3
<1>14. ASSUME NEW t \in Threads
       PROVE  ~(\/ GiveUp(t) \/ Check(t) \/ Sleep(t) \/ Recheck(t)
               \/ Disturbed(t) \/ Post(t))
  BY <1>3 DEF Post, GiveUp, Check, Sleep, Recheck, Disturbed, Interrupted, SpuriousWakeup,
              Goto
<1> QED
  BY <1>6, <1>8, <1>9, <1>10, <1>11, <1>12, <1>13, <1>14
     DEF Next, Step, WaitStep, NotifyStep

LEMMA SemaInit == Init => SemaInv
<1> SUFFICES ASSUME Init PROVE SemaInv
  OBVIOUS
<1>1. Places
  BY DEF Init, Places
<1>2. OwnerHolds
  BY SemaAssumption DEF Init, OwnerHolds, M!Init
<1>3. Bookkeeping
  <2>1. Cardinality(Uncounted) = 0
    BY FS_EmptySet, Uncounted = {} DEF Init, Uncounted
  <2>2. /\ \A t \in Threads : pc[t] # "store"
        /\ m_count = Initial /\ count = Initial /\ Initial \in Nat
        /\ doubled = 0
    BY SemaAssumption DEF Init
  <2> QED
    BY <2>1, <2>2 DEF Bookkeeping
<1> QED
  BY <1>1, <1>2, <1>3, TypeInit DEF SemaInv

LEMMA SemaStep == SemaInv /\ [Next]_vars => SemaInv'
BY TypeStep, PlacesStep, OwnerStep, BookStep DEF SemaInv

(* Windows: however many threads wait and notify, and whatever overtakes   *)
(* the bookkeeping of a wait(), value() reports the tokens that there are  *)
(* or have just been taken, less those that the last notify() overtook;    *)
(* and again so after a notify(0), from the next notify() on.              *)
THEOREM ValueReports == Spec => []ValueAccounted
<1>1. SemaInv => ValueAccounted
  BY SemaAssumption DEF SemaInv, ValueAccounted, Bookkeeping, OwnerHolds
<1> QED
  BY SemaInit, SemaStep, <1>1, PTL DEF Spec
-----------------------------------------------------------------------------
(* Sema implements Semaphore.  A thread that stays where it was in wait(), *)
(* or outside it, is a stutter of its state there.                         *)
LEMMA WaitingMove ==
  ASSUME TypeOK, NEW t \in Threads,
         \A u \in Threads \ {t} : pc'[u] = pc[u] /\ kind'[u] = kind[u],
         build' = build
  PROVE  /\ Waiting' = [Waiting EXCEPT ![t] = Waiting'[t]]
         /\ Disturbance' = [Disturbance EXCEPT ![t] = Disturbance'[t]]
BY DEF Waiting, Disturbance, InWait

LEMMA WaitingSame ==
  ASSUME TypeOK, UNCHANGED <<build, kind>>,
         \A u \in Threads : /\ InWait(u)' <=> InWait(u)
                            /\ pc'[u] = "eintr" <=> pc[u] = "eintr"
                            /\ pc'[u] = "recheck" <=> pc[u] = "recheck"
  PROVE  Waiting' = Waiting /\ Disturbance' = Disturbance
BY DEF Waiting, Disturbance

(* A thread that has taken a token, or gives up, leaves wait().            *)
LEMMA FinishStep ==
  ASSUME TypeOK, NEW t \in Threads, NEW to \in {"idle", "decrement"},
         NEW result \in {"true", "false"},
         pc' = [pc EXCEPT ![t] = to],
         ret' = [ret EXCEPT ![t] = result],
         UNCHANGED <<build, kind>>
  PROVE  Promise!Finish(t, result)
<1>1. /\ Waiting' = [Waiting EXCEPT ![t] = Waiting'[t]]
      /\ Disturbance' = [Disturbance EXCEPT ![t] = Disturbance'[t]]
  BY WaitingMove DEF TypeOK
<1>2. Waiting'[t] = "no" /\ Disturbance'[t] = "no"
  BY DEF Waiting, Disturbance, InWait, TypeOK
<1> QED
  BY <1>1, <1>2 DEF Promise!Finish

LEMMA AcquireStep ==
  ASSUME TypeOK, NEW t \in Threads, InWait(t), pc[t] # "eintr",
         count > 0, count' = count - 1,
         NEW to \in {"idle", "decrement"},
         pc' = [pc EXCEPT ![t] = to],
         ret' = [ret EXCEPT ![t] = "true"],
         UNCHANGED <<build, kind>>
  PROVE  Promise!Next
<1>1. Promise!Finish(t, "true")
  BY FinishStep
<1>2. Waiting[t] # "no" /\ Disturbance[t] # "signal"
  BY DEF Waiting, Disturbance, TypeOK
<1> QED
  BY <1>1, <1>2 DEF Promise!Next, Promise!Acquire

LEMMA ExpireStep ==
  ASSUME TypeOK, NEW t \in Threads, InWait(t),
         \/ kind[t] = "timed" /\ Disturbance[t] = "no"
         \/ Disturbance[t] = "signal"
         \/ Disturbance[t] = "wakeup" /\ count = 0,
         pc' = [pc EXCEPT ![t] = "idle"],
         ret' = [ret EXCEPT ![t] = "false"],
         UNCHANGED <<build, kind, count>>
  PROVE  Promise!Next
<1>1. Promise!Finish(t, "false")
  BY FinishStep
<1>2. kind[t] = "timed" => Waiting[t] = "timed"
  BY DEF Waiting
<1> QED
  BY <1>1, <1>2 DEF Promise!Next, Promise!Expire

(* A signal handler runs, or a sleeper is woken.                           *)
LEMMA DisturbStep ==
  ASSUME TypeOK, NEW t \in Threads,
         \/ pc[t] = "wait" /\ pc'[t] = "eintr" /\ build = "posix"
         \/ pc[t] = "asleep" /\ pc'[t] = "recheck" /\ build = "apple",
         \A u \in Threads \ {t} :
           /\ InWait(u)' <=> InWait(u)
           /\ pc'[u] = "eintr" <=> pc[u] = "eintr"
           /\ pc'[u] = "recheck" <=> pc[u] = "recheck",
         UNCHANGED <<build, kind, count, ret>>
  PROVE  Promise!Next
<1>1. InWait(t) /\ InWait(t)'
  BY DEF InWait
<1>2. Waiting' = Waiting
  BY <1>1 DEF Waiting
<1>3. Waiting[t] # "no"
  BY <1>1 DEF Waiting, TypeOK
<1>4. Disturbance[t] = "no" /\ Disturbance'[t] \in {"signal", "wakeup"}
  BY DEF Disturbance
<1>5. Disturbance' = [Disturbance EXCEPT ![t] = Disturbance'[t]]
  BY DEF Disturbance
<1>6. UNCHANGED <<count, ret>>
  OBVIOUS
<1> QED
  BY ONLY <1>2, <1>3, <1>4, <1>5, <1>6, t \in Threads
     DEF Promise!Next, Promise!Disturb

LEMMA PromiseStep ==
  TypeOK /\ Places /\ [Next]_vars => [Promise!Next]_(Promise!vars)
<1> SUFFICES ASSUME TypeOK, Places, [Next]_vars
             PROVE  [Promise!Next]_(Promise!vars)
  OBVIOUS
<1> USE DEF Goto, windows
<1>1. CASE UNCHANGED vars
  BY <1>1, WaitingSame DEF vars, Promise!vars, InWait
<1>2. ASSUME NEW t \in Threads, WaitCall(t) PROVE Promise!Next
  <2>1. PICK k \in Timeouts : kind' = [kind EXCEPT ![t] = k]
    BY <1>2 DEF WaitCall
  <2>2. /\ pc[t] = "idle" /\ pc' = [pc EXCEPT ![t] = pc'[t]]
        /\ pc'[t] \in {"check", "wait"}
        /\ UNCHANGED <<build, count>> /\ ret' = [ret EXCEPT ![t] = "none"]
    BY <1>2 DEF WaitCall, TypeOK
  <2>3. /\ Waiting' = [Waiting EXCEPT ![t] = Waiting'[t]]
        /\ Disturbance' = [Disturbance EXCEPT ![t] = Disturbance'[t]]
    BY <2>1, <2>2, WaitingMove DEF TypeOK
  <2>4. /\ Waiting[t] = "no" /\ Waiting'[t] = k
        /\ k \in {"forever", "timed"}
    BY <2>1, <2>2, SemaAssumption DEF Waiting, InWait, TypeOK
  <2>5. Disturbance' = Disturbance
    BY <2>2, <2>3 DEF Disturbance
  <2> QED
    BY <2>2, <2>3, <2>4, <2>5 DEF Promise!Next, Promise!Begin
<1>3. ASSUME NEW t \in Threads, Acquired(t) PROVE Promise!Next
  BY <1>3, AcquireStep DEF Acquired, InWait
<1>4. ASSUME NEW t \in Threads, TimedOut(t) PROVE Promise!Next
  <2>1. /\ InWait(t) /\ kind[t] = "timed" /\ Disturbance[t] = "no"
        /\ pc' = [pc EXCEPT ![t] = "idle"]
        /\ ret' = [ret EXCEPT ![t] = "false"]
        /\ UNCHANGED <<build, kind, count>>
    BY <1>4 DEF TimedOut, InWait, Disturbance
  <2> QED
    BY <2>1, ExpireStep
<1>5. ASSUME NEW t \in Threads, Interrupted(t)
      PROVE  [Promise!Next]_(Promise!vars)
  <2>1. CASE kind[t] = "forever" /\ pc' = [pc EXCEPT ![t] = "eintr"]
    <3>1. /\ pc[t] = "wait" /\ pc'[t] = "eintr" /\ build = "posix"
          /\ \A u \in Threads \ {t} : pc'[u] = pc[u]
          /\ UNCHANGED <<build, kind, count, ret>>
      BY <1>5, <2>1 DEF Interrupted, TypeOK, vars
    <3>2. \A u \in Threads \ {t} :
            /\ InWait(u)' <=> InWait(u)
            /\ pc'[u] = "eintr" <=> pc[u] = "eintr"
            /\ pc'[u] = "recheck" <=> pc[u] = "recheck"
      BY <3>1 DEF InWait
    <3> QED
      BY <3>1, <3>2, DisturbStep
  <2>2. CASE UNCHANGED vars
    BY <1>1, <2>2
  <2> QED
    BY <1>5, <2>1, <2>2 DEF Interrupted
<1>6. ASSUME NEW t \in Threads, GiveUp(t) PROVE Promise!Next
  <2>1. /\ InWait(t) /\ Disturbance[t] = "signal"
        /\ pc' = [pc EXCEPT ![t] = "idle"]
        /\ ret' = [ret EXCEPT ![t] = "false"]
        /\ UNCHANGED <<build, kind, count>>
    BY <1>6 DEF GiveUp, InWait, Disturbance, Places
  <2> QED
    BY <2>1, ExpireStep
<1>7. ASSUME NEW t \in Threads, Check(t) PROVE [Promise!Next]_(Promise!vars)
  <2>1. CASE count > 0
    <3>1. /\ pc[t] = "check" /\ pc' = [pc EXCEPT ![t] = "idle"]
          /\ count' = count - 1 /\ ret' = [ret EXCEPT ![t] = "true"]
          /\ UNCHANGED <<build, kind>>
      BY <1>7, <2>1 DEF Check, TypeOK
    <3> QED
      BY <2>1, <3>1, AcquireStep DEF InWait
  <2>2. CASE count = 0
    <3>1. /\ pc[t] = "check" /\ pc' = [pc EXCEPT ![t] = "toSleep"]
          /\ UNCHANGED <<build, kind, count, ret>>
      BY <1>7, <2>2 DEF Check
    <3>2. \A u \in Threads : /\ InWait(u)' <=> InWait(u)
                             /\ pc'[u] = "eintr" <=> pc[u] = "eintr"
                             /\ pc'[u] = "recheck" <=> pc[u] = "recheck"
      BY <3>1 DEF InWait, TypeOK
    <3> QED
      BY <3>1, <3>2, WaitingSame DEF Promise!vars
  <2> QED
    BY <2>1, <2>2 DEF TypeOK
<1>8. ASSUME NEW t \in Threads, Recheck(t) PROVE Promise!Next
  <2>1. CASE count > 0
    <3>1. /\ pc[t] = "recheck" /\ pc' = [pc EXCEPT ![t] = "idle"]
          /\ count' = count - 1 /\ ret' = [ret EXCEPT ![t] = "true"]
          /\ UNCHANGED <<build, kind>>
      BY <1>8, <2>1 DEF Recheck, TypeOK
    <3> QED
      BY <2>1, <3>1, AcquireStep DEF InWait
  <2>2. CASE count = 0
    <3>1. /\ pc[t] = "recheck" /\ pc' = [pc EXCEPT ![t] = "idle"]
          /\ ret' = [ret EXCEPT ![t] = "false"]
          /\ UNCHANGED <<build, kind, count>>
      BY <1>8, <2>2 DEF Recheck
    <3>2. InWait(t) /\ Disturbance[t] = "wakeup"
      BY <3>1 DEF Places, Disturbance, InWait
    <3> QED
      BY <2>2, <3>1, <3>2, ExpireStep
  <2> QED
    BY <2>1, <2>2 DEF TypeOK
<1>9. ASSUME NEW t \in Threads, SpuriousWakeup(t) PROVE Promise!Next
  <2>1. /\ pc[t] = "asleep" /\ pc'[t] = "recheck" /\ build = "apple"
        /\ \A u \in Threads \ {t} : pc'[u] = pc[u]
        /\ UNCHANGED <<build, kind, count, ret>>
    BY <1>9 DEF SpuriousWakeup, TypeOK, Places
  <2>2. \A u \in Threads \ {t} :
          /\ InWait(u)' <=> InWait(u)
          /\ pc'[u] = "eintr" <=> pc[u] = "eintr"
          /\ pc'[u] = "recheck" <=> pc[u] = "recheck"
    BY <2>1 DEF InWait
  <2> QED
    BY <2>1, <2>2, DisturbStep
<1>10. ASSUME NEW t \in Threads, Signal(t)
       PROVE  [Promise!Next]_(Promise!vars)
  <2>1. pc[t] = "signal" /\ UNCHANGED <<build, kind, count, ret>>
    BY <1>10 DEF Signal
  <2>2. CASE pc' = [pc EXCEPT ![t] = "post"]
    <3>1. \A u \in Threads : /\ InWait(u)' <=> InWait(u)
                             /\ pc'[u] = "eintr" <=> pc[u] = "eintr"
                             /\ pc'[u] = "recheck" <=> pc[u] = "recheck"
      BY <2>1, <2>2 DEF InWait, TypeOK
    <3> QED
      BY <2>1, <3>1, WaitingSame DEF Promise!vars
  <2>3. ASSUME NEW u \in Asleep,
               pc' = [pc EXCEPT ![t] = "post", ![u] = "recheck"]
        PROVE  Promise!Next
    <3>1. /\ u \in Threads /\ pc[u] = "asleep" /\ u # t
          /\ pc'[u] = "recheck" /\ build = "apple"
      BY <2>1, <2>3 DEF Asleep, TypeOK, Places
    <3>2. \A v \in Threads \ {u} :
            /\ InWait(v)' <=> InWait(v)
            /\ pc'[v] = "eintr" <=> pc[v] = "eintr"
            /\ pc'[v] = "recheck" <=> pc[v] = "recheck"
      BY <2>1, <2>3, <3>1 DEF InWait, TypeOK
    <3> QED
      BY <2>1, <3>1, <3>2, DisturbStep
  <2> QED
    BY <1>10, <2>2, <2>3 DEF Signal
<1>11. ASSUME NEW t \in Threads,
              \/ Sleep(t) \/ Decrement(t) \/ NotifyCall(t)
              \/ NotifyReturn(t) \/ Store(t) \/ ValueCall(t)
              \/ ValueLocked(t) \/ Return(t)
       PROVE  UNCHANGED Promise!vars
  <2>1. \A u \in Threads : /\ InWait(u)' <=> InWait(u)
                           /\ pc'[u] = "eintr" <=> pc[u] = "eintr"
                           /\ pc'[u] = "recheck" <=> pc[u] = "recheck"
    BY <1>11 DEF Sleep, Decrement, NotifyCall, NotifyReturn, Store, ValueCall,
                 ValueLocked, Return, InWait, TypeOK
  <2>2. UNCHANGED <<build, kind, count, ret>>
    BY <1>11 DEF Sleep, Decrement, NotifyCall, NotifyReturn, Store, ValueCall,
                 ValueLocked, Return
  <2> QED
    BY <2>1, <2>2, WaitingSame DEF Promise!vars
<1>12. ASSUME NEW t \in Threads, Post(t) \/ Release(t)
       PROVE  [Promise!Next]_(Promise!vars)
  <2>1. \A u \in Threads : /\ InWait(u)' <=> InWait(u)
                           /\ pc'[u] = "eintr" <=> pc[u] = "eintr"
                           /\ pc'[u] = "recheck" <=> pc[u] = "recheck"
    BY <1>12 DEF Post, Release, InWait, TypeOK
  <2>2. UNCHANGED <<build, kind, ret>>
    BY <1>12 DEF Post, Release
  <2>3. count' > count \/ count' = count
    BY <1>12 DEF Post, Release, TypeOK
  <2> QED
    BY <2>1, <2>2, <2>3, WaitingSame
       DEF Promise!Next, Promise!Release, Promise!vars
<1> QED
  BY <1>1, <1>2, <1>3, <1>4, <1>5, <1>6, <1>7, <1>8, <1>9, <1>10, <1>11, <1>12
     DEF Next, Step, WaitStep, NotifyStep, Disturbed

(* In every build wait() returns true exactly when it took a token of its  *)
(* own; without one it returns false at its timeout, on POSIX after a      *)
(* signal handler, and on Apple after a wakeup that found no token.        *)
THEOREM SemaImplementsSemaphore == Spec => ImplementsSemaphore
<1>1. Init => Promise!Init
  BY DEF Init, Promise!Init, Waiting, Disturbance, InWait
<1>2. SemaInv => TypeOK /\ Places
  BY DEF SemaInv
<1> QED
  BY SemaInit, SemaStep, PromiseStep, <1>1, <1>2, PTL
     DEF Spec, ImplementsSemaphore, Promise!Spec

=============================================================================
