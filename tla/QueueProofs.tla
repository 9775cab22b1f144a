---------------------------- MODULE QueueProofs -----------------------------
(***************************************************************************)
(* Theorems about Queue, for any finite set of threads in any roles, any   *)
(* items, any length of the queue and any threads that may be terminated,  *)
(* with and without signal handlers that interrupt sem_wait.               *)
(***************************************************************************)
EXTENDS Queue, FiniteSetTheorems, SequenceTheorems, TLAPS

(* The element of the dequeue() that holds the mutex is still the front of *)
(* the queue, which is there.                                              *)
FrontKept ==
  undefined = {} =>
    \A t \in Threads : pc[t] = "deqPop" =>
      queue # <<>> /\ element[t] = Head(queue)

(* clear() goes round once per item.                                       *)
RoundsBounded == Clearing # {} => i <= Len(queue)

QueueInv ==
  /\ TypeOK
  /\ OwnerHolds
  /\ FrontKept
  /\ RoundsBounded
  /\ TokensAccounted
  /\ NoUnderflow

-----------------------------------------------------------------------------
(* How one thread's move changes the sets the invariant counts.            *)

Past == {"deqFront", "deqPop"}

LEMMA TokensMove ==
  ASSUME TypeOK, NEW t \in Threads, NEW to \in PCs,
         pc' = [pc EXCEPT ![t] = to]
  PROVE  /\ (to \in Past <=> pc[t] \in Past) => UNCHANGED Cardinality(Tokens)
         /\ to \in Past /\ pc[t] \notin Past =>
              Cardinality(Tokens)' = Cardinality(Tokens) + 1
         /\ to \notin Past /\ pc[t] \in Past =>
              Cardinality(Tokens)' = Cardinality(Tokens) - 1
         /\ pc[t] \in Past => Cardinality(Tokens) > 0
<1>1. IsFiniteSet(Tokens)
  BY ThreadsAssumption, FS_Subset, Tokens \in SUBSET Threads DEF Tokens
<1>2. Cardinality(Tokens) \in Nat /\ (t \in Tokens => Cardinality(Tokens) > 0)
  BY <1>1, FS_CardinalityType, FS_EmptySet
<1>3. t \in Tokens <=> pc[t] \in Past
  BY DEF Tokens, Past
<1>4. CASE to \in Past
  <2>1. Tokens' = Tokens \cup {t}
    BY <1>4 DEF Tokens, TypeOK, Past
  <2>2. Cardinality(Tokens') =
          IF t \in Tokens THEN Cardinality(Tokens) ELSE Cardinality(Tokens) + 1
    BY <1>1, <2>1, FS_AddElement
  <2> QED
    BY <1>2, <1>3, <1>4, <2>2
<1>5. CASE to \notin Past
  <2>1. Tokens' = Tokens \ {t}
    BY <1>5 DEF Tokens, TypeOK, Past
  <2>2. Cardinality(Tokens') =
          IF t \in Tokens THEN Cardinality(Tokens) - 1 ELSE Cardinality(Tokens)
    BY <1>1, <2>1, FS_RemoveElement
  <2> QED
    BY <1>2, <1>3, <1>5, <2>2
<1> QED
  BY <1>4, <1>5

LEMMA UnpostedMove ==
  ASSUME TypeOK, NEW t \in Threads, NEW to \in PCs,
         pc' = [pc EXCEPT ![t] = to]
  PROVE  /\ to # "enqNotify" /\ pc[t] # "enqNotify" => UNCHANGED Cardinality(Unposted)
         /\ to = "enqNotify" /\ pc[t] # "enqNotify" =>
              Cardinality(Unposted)' = Cardinality(Unposted) + 1
         /\ to # "enqNotify" /\ pc[t] = "enqNotify" =>
              /\ Cardinality(Unposted) > 0
              /\ Cardinality(Unposted)' = Cardinality(Unposted) - 1
<1>1. IsFiniteSet(Unposted)
  BY ThreadsAssumption, FS_Subset, Unposted \in SUBSET Threads DEF Unposted
<1>2. Cardinality(Unposted) \in Nat /\ (t \in Unposted => Cardinality(Unposted) > 0)
  BY <1>1, FS_CardinalityType, FS_EmptySet
<1>3. t \in Unposted <=> pc[t] = "enqNotify"
  BY DEF Unposted
<1>4. CASE to = "enqNotify"
  <2>1. Unposted' = Unposted \cup {t}
    BY <1>4 DEF Unposted, TypeOK
  <2>2. Cardinality(Unposted') =
          IF t \in Unposted THEN Cardinality(Unposted) ELSE Cardinality(Unposted) + 1
    BY <1>1, <2>1, FS_AddElement
  <2> QED
    BY <1>2, <1>3, <1>4, <2>2
<1>5. CASE to # "enqNotify"
  <2>1. Unposted' = Unposted \ {t}
    BY <1>5 DEF Unposted, TypeOK
  <2>2. Cardinality(Unposted') =
          IF t \in Unposted THEN Cardinality(Unposted) - 1 ELSE Cardinality(Unposted)
    BY <1>1, <2>1, FS_RemoveElement
  <2> QED
    BY <1>2, <1>3, <1>5, <2>2
<1> QED
  BY <1>4, <1>5

-----------------------------------------------------------------------------
(* Locking and unlocking keep the mutex consistent.                        *)
LEMMA LockConsistent ==
  ASSUME M!Consistent, NEW t \in Threads, M!Lock(t)
  PROVE  M!Consistent'
BY ThreadsAssumption DEF M!Consistent, M!Lock

LEMMA UnlockConsistent ==
  ASSUME M!Consistent, NEW t \in Threads, M!Unlock(t)
  PROVE  M!Consistent'
BY ThreadsAssumption DEF M!Consistent, M!Unlock

LEMMA UnchangedConsistent ==
  ASSUME M!Consistent, UNCHANGED <<owner, depth>>
  PROVE  M!Consistent'
BY DEF M!Consistent

(* The types are preserved by every step.                                  *)
LEMMA TypeStep == TypeOK /\ [Next]_vars => TypeOK'
<1> SUFFICES ASSUME TypeOK, [Next]_vars PROVE TypeOK'
  OBVIOUS
<1> USE DEF TypeOK, PCs, Goto, history, data
<1>1. CASE UNCHANGED vars
  BY <1>1, UnchangedConsistent DEF vars
<1>2. ASSUME NEW t \in Threads, Call(t) PROVE TypeOK'
  <2>1. CASE EnqueueCall(t) \/ CountCall(t)
    BY <2>1, UnchangedConsistent DEF EnqueueCall, CountCall
  <2>2. CASE DequeueCall(t)
    BY <2>2, UnchangedConsistent DEF DequeueCall
  <2>3. CASE HeadCall(t)
    BY <2>3, UnchangedConsistent DEF HeadCall
  <2>4. CASE ClearCall(t)
    BY <2>4, UnchangedConsistent DEF ClearCall
  <2> QED
    BY <1>2, <2>1, <2>2, <2>3, <2>4 DEF Call
<1>3. ASSUME NEW t \in Threads, EnqueuePush(t) PROVE TypeOK'
  BY <1>3, LockConsistent DEF EnqueuePush
<1>4. ASSUME NEW t \in Threads, EnqueueNotify(t) PROVE TypeOK'
  BY <1>4, UnchangedConsistent DEF EnqueueNotify
<1>5. ASSUME NEW t \in Threads, DequeueWait(t) \/ Interrupted(t)
      PROVE TypeOK'
  <2>1. CASE DequeueWait(t)
    BY <2>1, UnchangedConsistent DEF DequeueWait
  <2>2. CASE DequeueInterrupted(t)
    BY <2>2, UnchangedConsistent DEF DequeueInterrupted
  <2>3. CASE ClearInterrupted(t)
    BY <2>3, UnchangedConsistent DEF ClearInterrupted
  <2> QED
    BY <1>5, <2>1, <2>2, <2>3 DEF Interrupted
<1>6. ASSUME NEW t \in Threads, DequeueFront(t) \/ DequeuePop(t)
      PROVE TypeOK'
  <2>1. queue # <<>> => Head(queue) \in Items /\ Tail(queue) \in Seq(Items)
    BY HeadTailProperties
  <2>2. CASE DequeueFront(t)
    <3>1. /\ queue' = queue /\ got' = got
          /\ element' \in [Threads -> Items \cup {NoItem}]
          /\ undefined' \subseteq {"dequeue", "head"}
      BY <2>1, <2>2 DEF DequeueFront, DequeueEmpty
    <3>2. M!Consistent'
      BY <2>2, LockConsistent DEF DequeueFront
    <3> QED
      BY <2>2, <3>1, <3>2 DEF DequeueFront
  <2>3. CASE DequeuePop(t)
    <3>1. /\ queue' \in Seq(Items)
          /\ element' \in [Threads -> Items \cup {NoItem}]
          /\ got' \in [Threads -> Items \cup {NoItem}]
          /\ undefined' \subseteq {"dequeue", "head"}
      BY <2>1, <2>3 DEF DequeuePop, DequeueEmpty
    <3>2. M!Consistent'
      BY <2>3, UnchangedConsistent DEF DequeuePop
    <3> QED
      BY <2>3, <3>1, <3>2 DEF DequeuePop
  <2> QED
    BY <1>6, <2>2, <2>3
<1>7. ASSUME NEW t \in Threads, HeadRead(t) PROVE TypeOK'
  <2>1. queue # <<>> => Head(queue) \in Items
    BY HeadTailProperties
  <2>2. got' \in [Threads -> Items \cup {NoItem}]
    BY <1>7, <2>1 DEF HeadRead
  <2>3. M!Consistent'
    BY <1>7, LockConsistent DEF HeadRead
  <2> QED
    BY <1>7, <2>2, <2>3 DEF HeadRead
<1>8. ASSUME NEW t \in Threads, CountRead(t) PROVE TypeOK'
  BY <1>8, LockConsistent, LenProperties DEF CountRead
<1>9. ASSUME NEW t \in Threads, ClearLock(t) PROVE TypeOK'
  BY <1>9, LockConsistent DEF ClearLock
<1>10. ASSUME NEW t \in Threads, ClearWait(t) PROVE TypeOK'
  BY <1>10, UnchangedConsistent DEF ClearWait
<1>11. ASSUME NEW t \in Threads, ClearReset(t) PROVE TypeOK'
  BY <1>11, UnchangedConsistent, EmptySeq DEF ClearReset
<1>12. ASSUME NEW t \in Threads, Return(t) PROVE TypeOK'
  BY <1>12, UnlockConsistent DEF Return
<1>13. ASSUME NEW t \in Threads, Terminate(t) PROVE TypeOK'
  <2>1. M!Consistent'
    BY <1>13, UnlockConsistent, UnchangedConsistent DEF Terminate
  <2>2. stranded' \in Nat
    BY <1>13 DEF Terminate
  <2> QED
    BY <1>13, <2>1, <2>2 DEF Terminate
<1> QED
  BY <1>1, <1>2, <1>3, <1>4, <1>5, <1>6, <1>7, <1>8, <1>9, <1>10, <1>11,
     <1>12, <1>13 DEF Next, Step

(* The variables of Queue keep their types, the mutex is free exactly when *)
(* its depth is 0.                                                         *)
THEOREM TypeCorrect == Spec => []TypeOK
<1>1. Init => TypeOK
  BY EmptySeq, ThreadsAssumption
     DEF Init, TypeOK, M!Init, M!Consistent, PCs
<1> QED
  BY <1>1, TypeStep, PTL DEF Spec

-----------------------------------------------------------------------------
(* A thread is inside a MutexLocker scope exactly when it owns the mutex.  *)
LEMMA OwnerStep == TypeOK /\ OwnerHolds /\ [Next]_vars => OwnerHolds'
<1> SUFFICES ASSUME TypeOK, OwnerHolds, [Next]_vars PROVE OwnerHolds'
  OBVIOUS
<1> USE DEF TypeOK, OwnerHolds, Holding, M!Consistent, PCs, Goto
<1>1. CASE UNCHANGED vars
  BY <1>1 DEF vars
<1>2. ASSUME NEW t \in Threads, Call(t) PROVE OwnerHolds'
  BY <1>2 DEF Call, EnqueueCall, DequeueCall, CountCall, HeadCall, ClearCall
<1>3. ASSUME NEW t \in Threads,
             \/ EnqueuePush(t) \/ DequeueFront(t) \/ HeadRead(t) \/ CountRead(t)
             \/ ClearLock(t)
      PROVE  OwnerHolds'
  <2>1. /\ M!Lock(t)
        /\ \E to \in {"enqNotify", "deqPop", "clearWait", "unlock"} :
             pc' = [pc EXCEPT ![t] = to]
        /\ t \notin Holding
    BY <1>3 DEF EnqueuePush, DequeueFront, HeadRead, CountRead, ClearLock
  <2>2. owner = NoThread /\ depth = 0
    BY <2>1 DEF M!Lock, M!Available
  <2> QED
    BY <2>1, <2>2, ThreadsAssumption DEF M!Lock
<1>4. ASSUME NEW t \in Threads,
             \/ EnqueueNotify(t) \/ DequeueWait(t) \/ Interrupted(t)
             \/ DequeuePop(t) \/ ClearWait(t) \/ ClearReset(t)
      PROVE  OwnerHolds'
  BY <1>4 DEF EnqueueNotify, DequeueWait, DequeuePop, Interrupted, DequeueInterrupted,
              ClearInterrupted, ClearWait, ClearReset
<1>5. ASSUME NEW t \in Threads, Return(t) PROVE OwnerHolds'
  BY <1>5, ThreadsAssumption DEF Return, M!Unlock
<1>6. ASSUME NEW t \in Threads, Terminate(t) PROVE OwnerHolds'
  BY <1>6, ThreadsAssumption DEF Terminate, M!Unlock
<1> QED
  BY <1>1, <1>2, <1>3, <1>4, <1>5, <1>6 DEF Next, Step

(* Only the owner of the mutex changes the queue, so that the front stays  *)
(* what dequeue() has read, and the length what clear() counts up to.      *)
LEMMA FrontStep ==
  ASSUME TypeOK, OwnerHolds, FrontKept, RoundsBounded, [Next]_vars
  PROVE  FrontKept' /\ RoundsBounded'
<1> USE DEF TypeOK, FrontKept, RoundsBounded, Clearing, Goto, history, data
<1>1. CASE UNCHANGED vars
  BY <1>1 DEF vars
<1>2. ASSUME NEW t \in Threads, Call(t)
      PROVE  FrontKept' /\ RoundsBounded'
  BY <1>2 DEF Call, EnqueueCall, DequeueCall, CountCall, HeadCall, ClearCall
<1>3. ASSUME NEW t \in Threads,
             \/ EnqueueNotify(t) \/ DequeueWait(t) \/ DequeueInterrupted(t)
             \/ Return(t) \/ Terminate(t)
      PROVE  FrontKept' /\ RoundsBounded'
  BY <1>3 DEF EnqueueNotify, DequeueWait, DequeueInterrupted, Return, Terminate
<1>4. ASSUME NEW t \in Threads, ClearWait(t) \/ ClearInterrupted(t)
      PROVE  FrontKept' /\ RoundsBounded'
  <2>1. /\ UNCHANGED <<pc, queue, element, undefined>>
        /\ i < Len(queue) /\ i' = i + 1
    BY <1>4 DEF ClearWait, ClearInterrupted
  <2>2. Len(queue) \in Nat /\ i \in Nat
    BY LenProperties
  <2> QED
    BY <2>1, <2>2
<1>5. ASSUME NEW t \in Threads,
             \/ EnqueuePush(t) \/ DequeueFront(t) \/ HeadRead(t)
             \/ CountRead(t) \/ ClearLock(t)
      PROVE  FrontKept' /\ RoundsBounded'
  <2>1. \A u \in Threads : pc[u] \notin {"deqPop", "clearWait"}
    <3>1. M!Lock(t) /\ pc[t] \notin {"enqNotify", "deqPop", "clearWait", "unlock"}
      BY <1>5 DEF EnqueuePush, DequeueFront, HeadRead, CountRead, ClearLock
    <3>2. owner # t
      BY <3>1 DEF OwnerHolds, Holding
    <3>3. owner = NoThread
      BY <3>1, <3>2 DEF M!Lock, M!Available
    <3> QED
      BY <3>3, ThreadsAssumption DEF OwnerHolds, Holding
  <2>2. CASE EnqueuePush(t)
    BY <2>1, <2>2 DEF EnqueuePush
  <2>3. CASE HeadRead(t) \/ CountRead(t)
    BY <2>1, <2>3 DEF HeadRead, CountRead
  <2>4. CASE ClearLock(t)
    <3>1. Len(queue) \in Nat
      BY LenProperties
    <3> QED
      BY <2>1, <2>4, <3>1 DEF ClearLock
  <2>5. CASE DequeueFront(t)
    <3>1. \A u \in Threads : pc'[u] # "clearWait"
      BY <2>1, <2>5 DEF DequeueFront
    <3>2. \A u \in Threads : pc'[u] = "deqPop" => u = t
      BY <2>1, <2>5 DEF DequeueFront
    <3>3. undefined' = {} =>
            queue' = queue /\ queue # <<>> /\ element'[t] = Head(queue)
      BY <2>5 DEF DequeueFront, DequeueEmpty
    <3> QED
      BY ONLY <3>1, <3>2, <3>3 DEF FrontKept, RoundsBounded, Clearing
  <2> QED
    BY <1>5, <2>2, <2>3, <2>4, <2>5
<1>6. ASSUME NEW t \in Threads, DequeuePop(t) \/ ClearReset(t)
      PROVE  FrontKept' /\ RoundsBounded'
  <2>1. /\ pc[t] \in {"deqPop", "clearWait"}
        /\ pc' = [pc EXCEPT ![t] = "unlock"]
    BY <1>6 DEF DequeuePop, ClearReset
  <2>2. \A u \in Threads : pc[u] \in {"deqPop", "clearWait"} => u = t
    BY <2>1 DEF OwnerHolds, Holding
  <2>3. \A u \in Threads : pc'[u] \notin {"deqPop", "clearWait"}
    BY <2>1, <2>2
  <2> QED
    BY ONLY <2>3 DEF FrontKept, RoundsBounded, Clearing
<1> QED
  BY <1>1, <1>2, <1>3, <1>4, <1>5, <1>6 DEF Next, Step, Interrupted

-----------------------------------------------------------------------------
(* Every token is accounted for.  A clear() that drops the items has gone  *)
(* round as many times as there were items, and a consumer at the front of *)
(* an empty queue has a token that can only stand for a wait that ended    *)
(* without one.                                                            *)
LEMMA Counts ==
  ASSUME TypeOK
  PROVE  /\ Cardinality(Tokens) \in Nat
         /\ Cardinality(Unposted) \in Nat
         /\ Len(queue) \in Nat
         /\ sema \in Nat
         /\ Rounds \in Nat
         /\ stranded \in Nat
         /\ unearned \in Nat
<1>1. IsFiniteSet(Tokens) /\ IsFiniteSet(Unposted)
  BY ThreadsAssumption, FS_Subset, Tokens \in SUBSET Threads,
     Unposted \in SUBSET Threads DEF Tokens, Unposted
<1>2. Cardinality(Tokens) \in Nat /\ Cardinality(Unposted) \in Nat
  BY <1>1, FS_CardinalityType
<1>3. Len(queue) \in Nat
  BY LenProperties DEF TypeOK
<1>4. sema \in Nat /\ Rounds \in Nat /\ stranded \in Nat /\ unearned \in Nat
  BY DEF TypeOK, Rounds
<1> QED
  BY <1>2, <1>3, <1>4

(* A thread that moves outside clear() leaves the rounds alone.            *)
LEMMA RoundsMove ==
  ASSUME TypeOK, NEW t \in Threads, NEW to \in PCs,
         pc' = [pc EXCEPT ![t] = to],
         pc[t] # "clearWait", to # "clearWait", UNCHANGED i
  PROVE  Rounds' = Rounds
BY DEF Rounds, Clearing, TypeOK

(* When the thread in the loop of clear() leaves it, nobody is in it.      *)
LEMMA ClearingEnds ==
  ASSUME TypeOK, OwnerHolds, NEW t \in Threads, pc[t] = "clearWait",
         NEW to \in PCs, pc' = [pc EXCEPT ![t] = to], to # "clearWait"
  PROVE  Rounds = i /\ Rounds' = 0
<1>1. owner = t
  BY DEF OwnerHolds, Holding
<1>2. \A u \in Threads : pc'[u] # "clearWait"
  BY <1>1 DEF OwnerHolds, Holding, TypeOK
<1> QED
  BY <1>2 DEF Clearing, Rounds

LEMMA TokensStep ==
  ASSUME QueueInv, [Next]_vars
  PROVE  TokensAccounted' /\ NoUnderflow'
<1> DEFINE tokens == Cardinality(Tokens)
           unposted == Cardinality(Unposted)
           Goal == /\ sema' + tokens' + unposted' + Rounds' + stranded'
                        = Len(queue') + unearned'
                   /\ "dequeue" \in undefined' => unearned' > stranded'
<1> SUFFICES Goal
  BY DEF TokensAccounted, NoUnderflow
<1>1. /\ TypeOK /\ OwnerHolds
      /\ tokens \in Nat /\ unposted \in Nat /\ Len(queue) \in Nat
      /\ sema \in Nat /\ Rounds \in Nat
      /\ stranded \in Nat /\ unearned \in Nat
      /\ sema + tokens + unposted + Rounds + stranded = Len(queue) + unearned
  BY Counts DEF QueueInv, TokensAccounted
<1>2. CASE UNCHANGED vars
  <2>1. /\ tokens' = tokens /\ unposted' = unposted /\ Rounds' = Rounds
        /\ UNCHANGED <<queue, sema, undefined, unearned, stranded>>
    BY <1>2 DEF history, vars, Tokens, Unposted, Rounds, Clearing
  <2>2. "dequeue" \in undefined => unearned > stranded
    BY DEF QueueInv, NoUnderflow
  <2> HIDE DEF tokens, unposted
  <2> QED
    BY ONLY <1>1, <2>1, <2>2
<1>3. CASE undefined # {}
  BY <1>2, <1>3 DEF Next
<1>4. ASSUME NEW t \in Threads, NEW to \in PCs,
             pc' = [pc EXCEPT ![t] = to],
             {pc[t], to} \cap {"clearWait", "deqFront", "deqPop", "enqNotify"} = {},
             UNCHANGED <<i, queue, sema, unearned, stranded>>,
             "dequeue" \notin undefined'
      PROVE  Goal
  <2>1. pc[t] \notin {"clearWait", "deqFront", "deqPop", "enqNotify"}
        /\ to \notin {"clearWait", "deqFront", "deqPop", "enqNotify"}
    BY <1>4
  <2>2. Rounds' = Rounds
    BY <1>1, <1>4, <2>1, RoundsMove
  <2>3. tokens' = tokens
    BY <1>1, <1>4, <2>1, TokensMove DEF Past
  <2>4. unposted' = unposted
    BY <1>1, <1>4, <2>1, UnpostedMove
  <2> HIDE DEF tokens, unposted
  <2> QED
    BY ONLY <1>1, <1>4, <2>2, <2>3, <2>4
<1>5. ASSUME NEW t \in Threads, Call(t), undefined = {} PROVE Goal
  <2>1. PICK to \in {"enqPush", "deqWait", "countRead", "headRead",
                     "clearLock"} : pc' = [pc EXCEPT ![t] = to]
    BY <1>5 DEF Call, EnqueueCall, DequeueCall, CountCall, HeadCall,
                ClearCall, Goto
  <2>2. /\ UNCHANGED <<i, queue, sema, unearned, stranded, undefined>>
        /\ pc[t] = "idle"
    BY <1>5 DEF history, Call, EnqueueCall, DequeueCall, CountCall, HeadCall,
                ClearCall, Goto
  <2> HIDE DEF Goal
  <2> QED
    BY <1>4, <1>5, <2>1, <2>2 DEF PCs
<1>6. ASSUME NEW t \in Threads, HeadRead(t) \/ CountRead(t) \/ Return(t),
             undefined = {}
      PROVE  Goal
  <2>1. PICK to \in {"unlock", "idle"} : pc' = [pc EXCEPT ![t] = to]
    BY <1>6 DEF HeadRead, CountRead, Return, Goto
  <2>2. /\ UNCHANGED <<i, queue, sema, unearned, stranded>>
        /\ "dequeue" \notin undefined'
        /\ pc[t] \in {"headRead", "countRead", "unlock"}
    BY <1>6 DEF history, HeadRead, CountRead, Return, Goto
  <2> HIDE DEF Goal
  <2> QED
    BY <1>4, <2>1, <2>2 DEF PCs
<1>7. ASSUME NEW t \in Threads, EnqueuePush(t), undefined = {}
      PROVE  Goal
  <2>1. /\ pc[t] = "enqPush" /\ pc' = [pc EXCEPT ![t] = "enqNotify"]
        /\ "enqNotify" \in PCs
        /\ UNCHANGED <<sema, i, unearned, stranded, undefined>>
    BY <1>7 DEF history, EnqueuePush, Goto, PCs
  <2>2. Len(queue') = Len(queue) + 1
    BY <1>1, <1>7, AppendProperties DEF EnqueuePush, TypeOK
  <2>3. tokens' = tokens
    BY <1>1, <2>1, TokensMove DEF Past
  <2>4. unposted' = unposted + 1
    BY <1>1, <2>1, UnpostedMove
  <2>5. Rounds' = Rounds
    BY <1>1, <2>1, RoundsMove
  <2> HIDE DEF tokens, unposted
  <2> QED
    BY ONLY <1>1, <1>7, <2>1, <2>2, <2>3, <2>4, <2>5
<1>8. ASSUME NEW t \in Threads, EnqueueNotify(t), undefined = {}
      PROVE  Goal
  <2>1. /\ pc[t] = "enqNotify" /\ pc' = [pc EXCEPT ![t] = "unlock"]
        /\ "unlock" \in PCs
        /\ UNCHANGED <<queue, i, unearned, stranded, undefined>>
        /\ sema' = sema + 1
    BY <1>8 DEF history, EnqueueNotify, Goto, PCs
  <2>2. tokens' = tokens
    BY <1>1, <2>1, TokensMove DEF Past
  <2>3. unposted' = unposted - 1
    BY <1>1, <2>1, UnpostedMove
  <2>4. Rounds' = Rounds
    BY <1>1, <2>1, RoundsMove
  <2> HIDE DEF tokens, unposted
  <2> QED
    BY ONLY <1>1, <1>8, <2>1, <2>2, <2>3, <2>4
<1>9. ASSUME NEW t \in Threads, DequeueWait(t) \/ DequeueInterrupted(t),
             undefined = {}
      PROVE  Goal
  <2>1. /\ pc[t] = "deqWait" /\ pc' = [pc EXCEPT ![t] = "deqFront"]
        /\ "deqFront" \in PCs
        /\ UNCHANGED <<queue, i, stranded, undefined>>
        /\ \/ sema' = sema - 1 /\ unearned' = unearned
           \/ sema' = sema /\ unearned' = unearned + 1
    BY <1>9 DEF history, DequeueWait, DequeueInterrupted, Goto, PCs
  <2>2. tokens' = tokens + 1
    BY <1>1, <2>1, TokensMove DEF Past
  <2>3. unposted' = unposted
    BY <1>1, <2>1, UnpostedMove
  <2>4. Rounds' = Rounds
    BY <1>1, <2>1, RoundsMove
  <2> HIDE DEF tokens, unposted
  <2> QED
    BY ONLY <1>1, <1>9, <2>1, <2>2, <2>3, <2>4
<1>10. ASSUME NEW t \in Threads, DequeueFront(t), undefined = {}
       PROVE  Goal
  <2>1. /\ pc[t] = "deqFront" /\ pc' = [pc EXCEPT ![t] = "deqPop"]
        /\ "deqPop" \in PCs
        /\ UNCHANGED <<queue, sema, i, stranded, unearned>>
    BY <1>10 DEF DequeueFront, DequeueEmpty, Goto, PCs
  <2>2. tokens > 0 /\ tokens' = tokens
    BY <1>1, <2>1, TokensMove DEF Past
  <2>3. unposted' = unposted
    BY <1>1, <2>1, UnpostedMove
  <2>4. Rounds' = Rounds
    BY <1>1, <2>1, RoundsMove
  <2>5. "dequeue" \in undefined' => Len(queue) = 0
    BY <1>10, EmptySeq DEF DequeueFront, DequeueEmpty
  <2> HIDE DEF tokens, unposted
  <2> QED
    BY ONLY <1>1, <2>1, <2>2, <2>3, <2>4, <2>5
<1>11. ASSUME NEW t \in Threads, DequeuePop(t), undefined = {}
       PROVE  Goal
  <2>1. /\ pc[t] = "deqPop" /\ pc' = [pc EXCEPT ![t] = "unlock"]
        /\ "unlock" \in PCs /\ UNCHANGED <<sema, i, stranded, unearned>>
    BY <1>11 DEF DequeuePop, Goto, PCs
  <2>2. tokens' = tokens - 1
    BY <1>1, <2>1, TokensMove DEF Past
  <2>3. unposted' = unposted
    BY <1>1, <2>1, UnpostedMove
  <2>4. Rounds' = Rounds
    BY <1>1, <2>1, RoundsMove
  <2>5. queue # <<>>
    BY <1>11, <2>1 DEF QueueInv, FrontKept
  <2>6. queue' = Tail(queue) /\ UNCHANGED undefined
    BY <1>11, <2>5 DEF DequeuePop
  <2>7. Len(queue') = Len(queue) - 1
    BY <1>1, <2>5, <2>6, HeadTailProperties DEF TypeOK
  <2>8. "dequeue" \notin undefined' /\ sema' = sema
        /\ stranded' = stranded /\ unearned' = unearned
    BY <1>11, <2>1, <2>6
  <2> HIDE DEF tokens, unposted
  <2> QED
    BY ONLY <1>1, <2>2, <2>3, <2>4, <2>7, <2>8
<1>12. ASSUME NEW t \in Threads, ClearLock(t), undefined = {}
       PROVE  Goal
  <2>1. /\ pc[t] = "clearLock" /\ pc' = [pc EXCEPT ![t] = "clearWait"]
        /\ "clearWait" \in PCs
        /\ UNCHANGED <<queue, sema, unearned, stranded, undefined>>
        /\ i' = 0 /\ M!Lock(t)
    BY <1>12 DEF history, ClearLock, Goto, PCs
  <2>2. Clearing = {}
    BY <1>1, <2>1, ThreadsAssumption
       DEF M!Lock, M!Available, OwnerHolds, Holding, Clearing
  <2>3. Rounds = 0 /\ Rounds' = 0
    BY <2>1, <2>2 DEF Rounds
  <2>4. tokens' = tokens
    BY <1>1, <2>1, TokensMove DEF Past
  <2>5. unposted' = unposted
    BY <1>1, <2>1, UnpostedMove
  <2> HIDE DEF tokens, unposted
  <2> QED
    BY ONLY <1>1, <1>12, <2>1, <2>3, <2>4, <2>5
<1>13. ASSUME NEW t \in Threads, ClearWait(t) \/ ClearInterrupted(t),
              undefined = {}
       PROVE  Goal
  <2>1. /\ UNCHANGED <<queue, pc, stranded, undefined>> /\ Clearing # {}
        /\ i' = i + 1
        /\ \/ sema' = sema - 1 /\ unearned' = unearned
           \/ sema' = sema /\ unearned' = unearned + 1
    BY <1>13 DEF history, ClearWait, ClearInterrupted, Clearing
  <2>2. /\ tokens' = tokens /\ unposted' = unposted
        /\ Rounds = i /\ Rounds' = i + 1
    BY <2>1 DEF Tokens, Unposted, Clearing, Rounds
  <2> HIDE DEF tokens, unposted
  <2> QED
    BY ONLY <1>1, <1>13, <2>1, <2>2
<1>14. ASSUME NEW t \in Threads, ClearReset(t), undefined = {}
       PROVE  Goal
  <2>1. /\ pc[t] = "clearWait" /\ pc' = [pc EXCEPT ![t] = "unlock"]
        /\ "unlock" \in PCs
        /\ UNCHANGED <<sema, unearned, stranded, undefined>>
        /\ queue' = <<>> /\ i >= Len(queue)
    BY <1>14 DEF history, ClearReset, Goto, PCs
  <2>2. Rounds = i /\ Rounds' = 0
    BY <1>1, <2>1, ClearingEnds
  <2>3. i <= Len(queue) /\ i \in Nat
    BY <2>1 DEF QueueInv, RoundsBounded, Clearing, TypeOK
  <2>4. tokens' = tokens
    BY <1>1, <2>1, TokensMove DEF Past
  <2>5. unposted' = unposted
    BY <1>1, <2>1, UnpostedMove
  <2>6. Len(queue') = 0
    BY <2>1, EmptySeq
  <2> HIDE DEF tokens, unposted
  <2> QED
    BY ONLY <1>1, <1>14, <2>1, <2>2, <2>3, <2>4, <2>5, <2>6
<1>15. ASSUME NEW t \in Threads, Terminate(t), undefined = {}
       PROVE  Goal
  <2>1. /\ pc[t] \in {"idle", "deqWait", "clearWait"}
        /\ pc' = [pc EXCEPT ![t] = "dead"]
        /\ "dead" \in PCs /\ UNCHANGED <<queue, sema, i, unearned, undefined>>
        /\ stranded' = IF pc[t] = "clearWait" THEN stranded + i ELSE stranded
    BY <1>15 DEF Terminate, PCs
  <2>2. tokens' = tokens
    BY <1>1, <2>1, TokensMove DEF Past
  <2>3. unposted' = unposted
    BY <1>1, <2>1, UnpostedMove
  <2>4. pc[t] = "clearWait" => Rounds = i /\ Rounds' = 0
    BY <1>1, <2>1, ClearingEnds
  <2>5. pc[t] # "clearWait" => Rounds' = Rounds
    BY <1>1, <2>1, RoundsMove
  <2>6. i \in Nat
    BY <1>1 DEF TypeOK
  <2> HIDE DEF tokens, unposted
  <2> QED
    BY ONLY <1>1, <1>15, <2>1, <2>2, <2>3, <2>4, <2>5, <2>6
<1> QED
  BY <1>2, <1>3, <1>5, <1>6, <1>7, <1>8, <1>9, <1>10, <1>11, <1>12, <1>13,
     <1>14, <1>15 DEF Next, Step, Interrupted

LEMMA InitInv == Init => QueueInv
<1> SUFFICES ASSUME Init PROVE QueueInv
  OBVIOUS
<1>1. TypeOK
  BY EmptySeq, ThreadsAssumption DEF Init, TypeOK, M!Init, M!Consistent, PCs
<1>2. OwnerHolds
  BY ThreadsAssumption DEF Init, OwnerHolds, Holding, M!Init
<1>3. Tokens = {} /\ Unposted = {} /\ Clearing = {} /\ Len(queue) = 0
  BY EmptySeq DEF Init, Tokens, Unposted, Clearing
<1>4. TokensAccounted
  BY <1>3, FS_EmptySet DEF TokensAccounted, Rounds, Init
<1>5. FrontKept /\ RoundsBounded /\ NoUnderflow
  BY <1>3 DEF FrontKept, RoundsBounded, NoUnderflow, Init
<1> QED
  BY <1>1, <1>2, <1>4, <1>5 DEF QueueInv

LEMMA StepInv == QueueInv /\ [Next]_vars => QueueInv'
BY TypeStep, OwnerStep, FrontStep, TokensStep DEF QueueInv

(* Every operation that leaves the mutex has released it, and nobody else  *)
(* can be inside it: mutual exclusion of the MutexLocker scopes, with or   *)
(* without signals.                                                        *)
THEOREM MutualExclusion == Spec => []OwnerHolds
<1>1. Init => TypeOK /\ OwnerHolds
  BY InitInv DEF QueueInv
<1>2. TypeOK /\ OwnerHolds /\ [Next]_vars => (TypeOK /\ OwnerHolds)'
  BY TypeStep, OwnerStep
<1> QED
  BY <1>1, <1>2, PTL DEF Spec

LEMMA QueueInvAlways == Spec => []QueueInv
<1> QED
  BY InitInv, StepInv, PTL DEF Spec

(* Whatever is interleaved, interrupted or terminated: the tokens in the   *)
(* semaphore, in the hands of consumers, owed by producers, used up by a   *)
(* clear() and kept by terminated ones are the items, plus one for every   *)
(* wait that ended without a token.                                        *)
THEOREM EveryTokenAccounted == Spec => []TokensAccounted
<1>1. QueueInv => TokensAccounted
  BY DEF QueueInv
<1> QED
  BY <1>1, QueueInvAlways, PTL

(* So dequeue() never reads the front of an empty queue, however many      *)
(* threads call enqueue, dequeue, head, count and clear, and whichever of  *)
(* them are terminated.                                                    *)
THEOREM QueueSafe == Spec => []NoUnderflow
<1>1. QueueInv => NoUnderflow
  BY DEF QueueInv
<1> QED
  BY <1>1, QueueInvAlways, PTL

-----------------------------------------------------------------------------
(* Who is in which operation: only the threads in the role call it.  A     *)
(* thread that may call head() has not removed anything since its count(). *)
Roles ==
  \A t \in Threads :
    /\ pc[t] \in {"deqWait", "deqFront", "deqPop"} => t \in Consumers
    /\ pc[t] \in {"clearLock", "clearWait"} => t \in Clearers
    /\ seen[t] > 0 \/ pc[t] \in {"countRead", "headRead"} => t \in Peekers
    /\ pc[t] \in {"deqWait", "deqFront", "deqPop", "clearLock", "clearWait"} =>
         seen[t] = 0

LEMMA RolesStep == TypeOK /\ Roles /\ [Next]_vars => Roles'
<1> SUFFICES ASSUME TypeOK, Roles, [Next]_vars PROVE Roles'
  OBVIOUS
<1> USE DEF TypeOK, Roles, Goto
<1>1. CASE UNCHANGED vars
  BY <1>1 DEF vars
<1>2. ASSUME NEW t \in Threads, Call(t) PROVE Roles'
  BY <1>2 DEF Call, EnqueueCall, DequeueCall, CountCall, HeadCall, ClearCall
<1>3. ASSUME NEW t \in Threads, CountRead(t) PROVE Roles'
  BY <1>3 DEF CountRead
<1>4. ASSUME NEW t \in Threads,
             \/ EnqueuePush(t) \/ EnqueueNotify(t)
             \/ DequeueWait(t) \/ DequeueFront(t) \/ DequeuePop(t)
             \/ HeadRead(t) \/ ClearLock(t) \/ ClearWait(t) \/ ClearReset(t)
             \/ Return(t) \/ Interrupted(t) \/ Terminate(t)
      PROVE  Roles'
  BY <1>4 DEF EnqueuePush, EnqueueNotify, DequeueWait, DequeueFront,
              DequeuePop, HeadRead,
              ClearLock, ClearWait, ClearReset, Return, Interrupted,
              DequeueInterrupted, ClearInterrupted, Terminate
<1> QED
  BY <1>1, <1>2, <1>3, <1>4 DEF Next, Step

(* When no operation is under way the counter of the semaphore is the      *)
(* number of items: for any interleaving of any number of enqueue(),       *)
(* dequeue() and clear(), unless a wait ended without a token or a clear() *)
(* was terminated in its loop; then it is off by exactly as much.          *)
Quiescent == \A t \in Threads : pc[t] \in {"idle", "deqWait", "dead"}
CountersAgree == Quiescent => sema + stranded = Len(queue) + unearned

THEOREM CountersStayEqual == Spec => []CountersAgree
<1>1. QueueInv => CountersAgree
  <2> SUFFICES ASSUME QueueInv, Quiescent
               PROVE  sema + stranded = Len(queue) + unearned
    BY DEF CountersAgree
  <2>1. Tokens = {} /\ Unposted = {} /\ Clearing = {}
    BY DEF Quiescent, Tokens, Unposted, Clearing
  <2>2. /\ sema \in Nat /\ Len(queue) \in Nat
        /\ stranded \in Nat /\ unearned \in Nat
    BY Counts DEF QueueInv
  <2> QED
    BY <2>1, <2>2, FS_EmptySet DEF QueueInv, TokensAccounted, Rounds
<1> QED
  BY <1>1, QueueInvAlways, PTL

(* What clear() waits for is there: the thread in its loop finds a token   *)
(* for every item that it has not waited for yet, so that its next step is *)
(* possible.                                                               *)
ClearServed ==
  \A t \in Threads : pc[t] = "clearWait" /\ i < Len(queue) => sema > 0

LEMMA RolesAlways == Spec => [](QueueInv /\ Roles)
<1>1. Init => QueueInv /\ Roles
  BY InitInv DEF Init, Roles
<1>2. QueueInv /\ Roles /\ [Next]_vars => (QueueInv /\ Roles)'
  BY StepInv, RolesStep DEF QueueInv
<1> QED
  BY <1>1, <1>2, PTL DEF Spec

(* clear() holds the mutex while it waits on the semaphore (Queue.h:77-83) *)
(* and is stuck when a dequeue() has taken a token and waits for the mutex.*)
(* It never is when a thread that clears is the only one that dequeues, or *)
(* when nobody dequeues: however many threads enqueue and clear, and       *)
(* whatever signals do, as long as no terminated clear() keeps tokens.     *)
THEOREM ClearNeverBlocks ==
  ASSUME \A p \in Clearers : Consumers \subseteq {p}
  PROVE  Spec => [](stranded = 0 => ClearServed)
<1>1. QueueInv /\ Roles => (stranded = 0 => ClearServed)
  <2> SUFFICES ASSUME QueueInv, Roles, stranded = 0,
                      NEW t \in Threads, pc[t] = "clearWait", i < Len(queue)
               PROVE  sema > 0
    BY DEF ClearServed
  <2>1. t \in Clearers /\ t \in Clearing
    BY DEF Roles, Clearing
  <2>2. Tokens = {}
    <3>1. \A u \in Tokens : u \in Consumers /\ pc[u] \in {"deqFront", "deqPop"}
      BY DEF Tokens, Roles
    <3> QED
      BY <2>1, <3>1
  <2>3. Unposted = {}
    <3>1. \A u \in Unposted : u \in Holding /\ t \in Holding /\ u \in Threads
      BY DEF Unposted, Holding
    <3>2. \A u \in Unposted : u = t
      BY <3>1 DEF QueueInv, OwnerHolds
    <3> QED
      BY <3>2 DEF Unposted
  <2>4. /\ sema \in Nat /\ Len(queue) \in Nat /\ i \in Nat /\ unearned \in Nat
        /\ Rounds = i
    BY <2>1, Counts DEF QueueInv, TypeOK, Rounds
  <2>5. sema + 0 + 0 + i + 0 = Len(queue) + unearned
    BY <2>2, <2>3, <2>4, FS_EmptySet DEF QueueInv, TokensAccounted
  <2> QED
    BY <2>4, <2>5
<1> QED
  BY <1>1, RolesAlways, PTL

(* Who has seen a positive count, or is in head() after it, has an item.   *)
HeadThere == \A t \in Threads : seen[t] > 0 \/ pc[t] = "headRead" => queue # <<>>

(* head() after a positive count() reads an item if nobody but the thread  *)
(* that calls them removes items: whether or not signals interrupt its own *)
(* sem_wait, and whatever is terminated.                                   *)
THEOREM HeadAfterCount ==
  ASSUME \A p \in Peekers : Consumers \cup Clearers \subseteq {p}
  PROVE  Spec => []HeadDefined
<1> DEFINE I == TypeOK /\ Roles /\ HeadThere /\ HeadDefined
<1>1. Init => I
  <2> SUFFICES ASSUME Init PROVE I
    OBVIOUS
  <2>1. TypeOK
    BY InitInv DEF QueueInv
  <2> QED
    BY <2>1 DEF Init, Roles, HeadThere, HeadDefined
<1>2. I /\ [Next]_vars => I'
  <2> SUFFICES ASSUME I, [Next]_vars PROVE HeadThere' /\ HeadDefined'
    BY TypeStep, RolesStep
  <2> USE DEF HeadThere, HeadDefined, Goto, history, data
  <2>1. CASE UNCHANGED vars
    BY <2>1 DEF vars
  <2>2. ASSUME NEW t \in Threads, Call(t) PROVE HeadThere' /\ HeadDefined'
    BY <2>2 DEF Call, EnqueueCall, DequeueCall, CountCall, HeadCall, ClearCall, TypeOK
  <2>3. ASSUME NEW t \in Threads, EnqueuePush(t) PROVE HeadThere' /\ HeadDefined'
    <3>1. queue' # <<>>
      BY <2>3, AppendProperties DEF EnqueuePush, TypeOK
    <3> QED
      BY <2>3, <3>1 DEF EnqueuePush
  <2>4. ASSUME NEW t \in Threads, CountRead(t) PROVE HeadThere' /\ HeadDefined'
    <3>1. Len(queue) > 0 => queue # <<>>
      BY EmptySeq
    <3> QED
      BY <2>4, <3>1 DEF CountRead, TypeOK
  <2>5. ASSUME NEW t \in Threads, HeadRead(t) PROVE HeadThere' /\ HeadDefined'
    BY <2>5 DEF HeadRead, TypeOK
  <2>6. ASSUME NEW t \in Threads, DequeuePop(t) \/ ClearReset(t)
        PROVE  HeadThere' /\ HeadDefined'
    <3>1. /\ pc[t] \in {"deqPop", "clearWait"} /\ pc' = [pc EXCEPT ![t] = "unlock"]
          /\ UNCHANGED seen /\ "head" \notin undefined'
      BY <2>6 DEF DequeuePop, DequeueEmpty, ClearReset
    <3>2. t \in Consumers \cup Clearers /\ seen[t] = 0
      BY <3>1 DEF Roles
    <3>3. \A u \in Threads : seen[u] > 0 \/ pc[u] = "headRead" => u = t
      BY <3>2 DEF Roles
    <3>4. \A u \in Threads : ~(seen'[u] > 0 \/ pc'[u] = "headRead")
      BY <3>1, <3>2, <3>3 DEF TypeOK
    <3> QED
      BY <3>1, <3>4
  <2>7. ASSUME NEW t \in Threads,
               \/ EnqueueNotify(t) \/ DequeueWait(t) \/ DequeueFront(t)
               \/ ClearLock(t) \/ ClearWait(t)
               \/ Return(t) \/ Interrupted(t) \/ Terminate(t)
        PROVE  HeadThere' /\ HeadDefined'
    BY <2>7 DEF EnqueueNotify, DequeueWait, DequeueFront, DequeueEmpty, ClearLock, ClearWait, Return, Interrupted,
                DequeueInterrupted, ClearInterrupted, Terminate, TypeOK
  <2> QED
    BY <2>1, <2>2, <2>3, <2>4, <2>5, <2>6, <2>7 DEF Next, Step
<1>3. I => HeadDefined
  OBVIOUS
<1> QED
  BY <1>1, <1>2, <1>3, PTL DEF Spec

-----------------------------------------------------------------------------
(* Queue implements FifoQueue.  Each operation takes effect in one of its  *)
(* steps: enqueue() when it pushes, dequeue() when it pops, which is the   *)
(* item that it read because nobody else gets at the queue in between      *)
(* (FrontKept), and it finds an item unless a wait ended without a token   *)
(* (NoUnderflow).                                                          *)
LEMMA FifoStep ==
  QueueInv /\ QueueInv' /\ [Next]_vars => [Fifo!Next]_(Fifo!vars)
<1> SUFFICES ASSUME QueueInv, QueueInv', [Next]_vars
             PROVE  [Fifo!Next]_(Fifo!vars)
  OBVIOUS
<1>1. CASE UNCHANGED vars
  BY <1>1 DEF vars, data, history, Fifo!vars
<1>2. CASE undefined # {}
  BY <1>1, <1>2 DEF Next
<1>3. ASSUME NEW t \in Threads, UNCHANGED <<queue, got, undefined, unearned>>
      PROVE  [Fifo!Next]_(Fifo!vars)
  BY <1>3 DEF Fifo!vars
<1>4. ASSUME NEW t \in Threads, EnqueuePush(t), undefined = {}
      PROVE  Fifo!Next
  <2>1. PICK v \in Items : queue' = Append(queue, v)
    BY <1>4 DEF EnqueuePush
  <2>2. UNCHANGED <<got, undefined, unearned>>
    BY <1>4 DEF EnqueuePush, data, history
  <2> QED
    BY <1>4, <2>1, <2>2 DEF Fifo!Next, Fifo!Enqueue
<1>5. ASSUME NEW t \in Threads, DequeuePop(t), undefined = {}
      PROVE  Fifo!Next
  <2>1. queue # <<>> /\ element[t] = Head(queue)
    BY <1>5 DEF QueueInv, FrontKept, DequeuePop, Goto
  <2>2. /\ queue' = Tail(queue) /\ got' = [got EXCEPT ![t] = Head(queue)]
        /\ UNCHANGED <<undefined, unearned>>
    BY <1>5, <2>1 DEF DequeuePop
  <2> QED
    BY <1>5, <2>1, <2>2 DEF Fifo!Next, Fifo!Dequeue
<1>6. ASSUME NEW t \in Threads, DequeueFront(t), undefined = {}
      PROVE  [Fifo!Next]_(Fifo!vars)
  <2>1. CASE queue # <<>>
    <3>1. UNCHANGED <<queue, got, undefined, unearned>>
      BY <1>6, <2>1 DEF DequeueFront, DequeueEmpty
    <3> QED
      BY <1>3, <3>1
  <2>2. CASE queue = <<>>
    <3>1. /\ undefined' = undefined \cup {"dequeue"}
          /\ UNCHANGED <<queue, got, unearned>>
      BY <1>6, <2>2 DEF DequeueFront, DequeueEmpty, data
    <3>2. unearned > 0
      <4>1. unearned' > stranded' /\ stranded' \in Nat /\ unearned \in Nat
        BY <3>1 DEF QueueInv, NoUnderflow, TypeOK
      <4> QED
        BY <3>1, <4>1
    <3> QED
      BY <1>6, <2>2, <3>1, <3>2 DEF Fifo!Next, Fifo!FindNothing
  <2> QED
    BY <2>1, <2>2
<1>7. ASSUME NEW t \in Threads, HeadRead(t), undefined = {}
      PROVE  Fifo!Next
  <2>1. CASE queue = <<>>
    BY <1>7, <2>1 DEF HeadRead, Fifo!Next, Fifo!FindNothing
  <2>2. CASE queue # <<>>
    BY <1>7, <2>2 DEF HeadRead, Fifo!Next, Fifo!Peek
  <2> QED
    BY <2>1, <2>2
<1>8. ASSUME NEW t \in Threads, ClearReset(t), undefined = {}
      PROVE  Fifo!Next
  BY <1>8 DEF ClearReset, data, history, Fifo!Next, Fifo!Clear
<1>9. ASSUME NEW t \in Threads, Interrupted(t), undefined = {}
      PROVE  Fifo!Next
  <2>1. /\ UNCHANGED <<queue, got, undefined>>
        /\ unearned' = unearned + 1 /\ unearned \in Nat
    BY <1>9 DEF Interrupted, DequeueInterrupted, ClearInterrupted, data,
                QueueInv, TypeOK
  <2>2. unearned' > 0
    BY <2>1
  <2> QED
    BY <1>9, <2>1, <2>2 DEF Fifo!Next, Fifo!Disturb
<1>10. ASSUME NEW t \in Threads,
              \/ Call(t) \/ EnqueueNotify(t) \/ DequeueWait(t)
              \/ CountRead(t) \/ ClearLock(t) \/ ClearWait(t) \/ Return(t)
              \/ Terminate(t)
       PROVE  [Fifo!Next]_(Fifo!vars)
  <2>1. UNCHANGED <<queue, got, undefined, unearned>>
    BY <1>10 DEF Call, EnqueueCall, DequeueCall, CountCall, HeadCall,
                 ClearCall, EnqueueNotify, DequeueWait, CountRead, ClearLock,
                 ClearWait, Return, Terminate, data, history
  <2> QED
    BY <1>3, <2>1
<1> QED
  BY <1>1, <1>2, <1>4, <1>5, <1>6, <1>7, <1>8, <1>9, <1>10 DEF Next, Step

(* The concurrent queue is a refinement of the atomic first-in first-out   *)
(* queue: items leave in the order they arrived, each exactly once, and a  *)
(* dequeue() that has been through the semaphore finds one, unless a wait  *)
(* of some dequeue() or clear() ended without a token.                     *)
THEOREM QueueImplementsFifo == Spec => ImplementsFifo
<1>1. Init => Fifo!Init
  BY DEF Init, Fifo!Init
<1> QED
  BY <1>1, QueueInvAlways, FifoStep, PTL DEF Spec, ImplementsFifo, Fifo!Spec

=============================================================================
