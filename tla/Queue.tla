------------------------------- MODULE Queue --------------------------------
(***************************************************************************)
(* ucxx::Queue<T> (Queue.h): a std::queue guarded by a recursive Mutex and *)
(* a Semaphore that counts its items, in the POSIX build on Linux          *)
(* (sem_wait and sem_post, a pthread_cancel that unwinds the stack).  Any  *)
(* number of threads call enqueue, dequeue, head, count and clear at the   *)
(* same time.                                                              *)
(*                                                                         *)
(* A step of a thread is what it does between two points where another     *)
(* thread can observe it: taking the mutex together with the first access  *)
(* to m_queue that follows under it, any other access to m_queue, one call *)
(* of the semaphore, and releasing the mutex at the end of the             *)
(* MutexLocker's scope.                                                    *)
(***************************************************************************)
EXTENDS Naturals, Sequences, FiniteSets

CONSTANTS
  Threads, NoThread,
  Producers,    \* threads that call enqueue()
  Consumers,    \* threads that call dequeue()
  Peekers,      \* threads that call count(), and head() when it was positive
  Clearers,     \* threads that call clear()
  Cancellable,  \* threads another thread may Thread::terminate()
  Items, NoItem,
  Signals,      \* may a signal handler interrupt a blocked sem_wait?
  MaxItems      \* bound: no enqueue() beyond this many items or tokens

ASSUME ThreadsAssumption ==
  /\ IsFiniteSet(Threads)
  /\ NoThread \notin Threads
  /\ Producers \cup Consumers \cup Peekers \cup Clearers \cup Cancellable
       \subseteq Threads
ASSUME DataAssumption ==
  /\ NoItem \notin Items
  /\ Signals \in BOOLEAN
  /\ MaxItems \in Nat

VARIABLES
  queue,        \* m_queue
  sema,         \* the counter of m_semaphore
  owner, depth, \* m_mutex
  pc,           \* what each thread does next
  i,            \* the loop counter of the clear() that holds the mutex
  seen,         \* seen[t]: what t's last count() returned
  element,      \* element[t]: the local element of t's dequeue()
  got,          \* got[t]: what t's last dequeue() or head() returned
  undefined,    \* the operations that read or popped an empty std::queue
  unearned,     \* history: waits that a signal ended without a token
  stranded      \* history: tokens that terminated clear()s had taken

history == <<undefined, unearned, stranded>>
data == <<element, got>>
vars == <<queue, sema, owner, depth, pc, i, seen, data, history>>

M == INSTANCE Mutex

PCs == {"idle", "enqPush", "enqNotify", "deqWait", "deqFront", "deqPop",
        "headRead", "countRead", "clearLock", "clearWait", "unlock", "dead"}

Goto(t, from, to) ==
  /\ pc[t] = from
  /\ pc' = [pc EXCEPT ![t] = to]

Init ==
  /\ queue = <<>>
  /\ sema = 0
  /\ M!Init
  /\ pc = [t \in Threads |-> "idle"]
  /\ i = 0
  /\ seen = [t \in Threads |-> 0]
  /\ element = [t \in Threads |-> NoItem]
  /\ got = [t \in Threads |-> NoItem]
  /\ undefined = {}
  /\ unearned = 0
  /\ stranded = 0

-----------------------------------------------------------------------------
(* A thread calls an operation.                                            *)

Enqueuing == {t \in Threads : pc[t] = "enqPush"}

EnqueueCall(t) ==
  /\ t \in Producers
  /\ {Len(queue), sema} \subseteq 0..(MaxItems - Cardinality(Enqueuing) - 1)
  /\ Goto(t, "idle", "enqPush")
  /\ UNCHANGED <<queue, sema, owner, depth, i, seen, data, history>>

DequeueCall(t) ==
  /\ t \in Consumers
  /\ Goto(t, "idle", "deqWait")
  /\ seen' = [seen EXCEPT ![t] = 0]
  /\ UNCHANGED <<queue, sema, owner, depth, i, data, history>>

CountCall(t) ==
  /\ t \in Peekers
  /\ Goto(t, "idle", "countRead")
  /\ UNCHANGED <<queue, sema, owner, depth, i, seen, data, history>>

(* head() on an empty queue is undefined, so its callers look first, and   *)
(* look again after they removed something themselves.                     *)
HeadCall(t) ==
  /\ seen[t] > 0
  /\ Goto(t, "idle", "headRead")
  /\ seen' = [seen EXCEPT ![t] = 0]
  /\ UNCHANGED <<queue, sema, owner, depth, i, data, history>>

ClearCall(t) ==
  /\ t \in Clearers
  /\ Goto(t, "idle", "clearLock")
  /\ seen' = [seen EXCEPT ![t] = 0]
  /\ UNCHANGED <<queue, sema, owner, depth, i, data, history>>

Call(t) ==
  \/ EnqueueCall(t) \/ DequeueCall(t) \/ CountCall(t) \/ HeadCall(t)
  \/ ClearCall(t)

-----------------------------------------------------------------------------
(* enqueue(): push under the mutex, then post, still under the mutex.      *)

EnqueuePush(t) ==
  /\ Goto(t, "enqPush", "enqNotify")
  /\ M!Lock(t)
  /\ \E v \in Items : queue' = Append(queue, v)
  /\ UNCHANGED <<sema, i, seen, data, history>>

EnqueueNotifyTwice(t) ==  \* mutant: posts two tokens for one item
  /\ Goto(t, "enqNotify", "unlock")
  /\ sema' = sema + 2
  /\ UNCHANGED <<queue, owner, depth, i, seen, data, history>>

EnqueueNotifyNever(t) ==  \* mutant: the post is lost
  /\ Goto(t, "enqNotify", "unlock")
  /\ UNCHANGED <<queue, sema, owner, depth, i, seen, data, history>>

EnqueueNotify(t) ==
  /\ Goto(t, "enqNotify", "unlock")
  /\ sema' = sema + 1
  /\ UNCHANGED <<queue, owner, depth, i, seen, data, history>>

(* dequeue(): a token of the semaphore first, then the mutex, then the     *)
(* front.  A sem_wait that a signal interrupts returns -1, Semaphore::wait *)
(* returns false, and dequeue() does not look at the result.               *)

DequeueNoWait(t) ==  \* mutant: takes a token that is not there
  /\ Goto(t, "deqWait", "deqFront")
  /\ sema' = sema - 1
  /\ UNCHANGED <<queue, owner, depth, i, seen, data, history>>

DequeueWait(t) ==
  /\ Goto(t, "deqWait", "deqFront")
  /\ sema > 0
  /\ sema' = sema - 1
  /\ UNCHANGED <<queue, owner, depth, i, seen, data, history>>

DequeueInterrupted(t) ==
  /\ Signals
  /\ Goto(t, "deqWait", "deqFront")
  /\ unearned' = unearned + 1
  /\ UNCHANGED <<queue, sema, owner, depth, i, seen, data, undefined, stranded>>

(* Both front() and pop() of an empty std::queue are undefined.            *)
DequeueEmpty ==
  /\ queue = <<>>
  /\ undefined' = undefined \cup {"dequeue"}
  /\ UNCHANGED <<queue, data>>

DequeueFrontUnlocked(t) ==  \* mutant: no MutexLocker in dequeue()
  /\ Goto(t, "deqFront", "deqPop")
  /\ \/ DequeueEmpty
     \/ /\ queue # <<>>
        /\ element' = [element EXCEPT ![t] = Head(queue)]
        /\ UNCHANGED <<queue, got, undefined>>
  /\ UNCHANGED <<sema, owner, depth, i, seen, unearned, stranded>>

DequeueFront(t) ==
  /\ Goto(t, "deqFront", "deqPop")
  /\ M!Lock(t)
  /\ \/ DequeueEmpty
     \/ /\ queue # <<>>
        /\ element' = [element EXCEPT ![t] = Head(queue)]
        /\ UNCHANGED <<queue, got, undefined>>
  /\ UNCHANGED <<sema, i, seen, unearned, stranded>>

DequeuePop(t) ==
  /\ Goto(t, "deqPop", "unlock")
  /\ IF queue = <<>>
     THEN DequeueEmpty
     ELSE /\ queue' = Tail(queue)
          /\ got' = [got EXCEPT ![t] = element[t]]
          /\ element' = [element EXCEPT ![t] = NoItem]
          /\ UNCHANGED undefined
  /\ UNCHANGED <<sema, owner, depth, i, seen, unearned, stranded>>

(* head() and count() under the mutex.                                     *)

HeadRead(t) ==
  /\ Goto(t, "headRead", "unlock")
  /\ M!Lock(t)
  /\ IF queue = <<>>
     THEN undefined' = undefined \cup {"head"} /\ UNCHANGED got
     ELSE got' = [got EXCEPT ![t] = Head(queue)] /\ UNCHANGED undefined
  /\ UNCHANGED <<queue, sema, i, seen, element, unearned, stranded>>

CountReadOneMore(t) ==  \* mutant: count() reports one item too many
  /\ Goto(t, "countRead", "unlock")
  /\ M!Lock(t)
  /\ seen' = [seen EXCEPT ![t] = Len(queue) + 1]
  /\ UNCHANGED <<queue, sema, i, data, history>>

CountRead(t) ==
  /\ Goto(t, "countRead", "unlock")
  /\ M!Lock(t)
  /\ seen' = [seen EXCEPT ![t] = Len(queue)]
  /\ UNCHANGED <<queue, sema, i, data, history>>

(* clear(): waits on the semaphore once per item without releasing the     *)
(* mutex, then drops the items.                                            *)

ClearLock(t) ==
  /\ Goto(t, "clearLock", "clearWait")
  /\ M!Lock(t)
  /\ i' = 0
  /\ UNCHANGED <<queue, sema, seen, data, history>>

ClearNoWait(t) ==  \* mutant: drops the items and leaves the tokens
  /\ pc[t] = "clearWait"
  /\ i < Len(queue)
  /\ i' = i + 1
  /\ UNCHANGED <<queue, sema, owner, depth, pc, seen, data, history>>

ClearWait(t) ==
  /\ pc[t] = "clearWait"
  /\ i < Len(queue)
  /\ sema > 0
  /\ sema' = sema - 1
  /\ i' = i + 1
  /\ UNCHANGED <<queue, owner, depth, pc, seen, data, history>>

ClearInterrupted(t) ==
  /\ Signals
  /\ pc[t] = "clearWait"
  /\ i < Len(queue)
  /\ i' = i + 1
  /\ unearned' = unearned + 1
  /\ UNCHANGED <<queue, sema, owner, depth, pc, seen, data, undefined, stranded>>

ClearReset(t) ==
  /\ Goto(t, "clearWait", "unlock")
  /\ i >= Len(queue)
  /\ queue' = <<>>
  /\ UNCHANGED <<sema, owner, depth, i, seen, data, history>>

ReturnLocked(t) ==  \* mutant: no MutexLocker releases the mutex
  /\ Goto(t, "unlock", "idle")
  /\ UNCHANGED <<queue, sema, owner, depth, i, seen, data, history>>

(* The MutexLocker goes out of scope and the operation returns.            *)
Return(t) ==
  /\ Goto(t, "unlock", "idle")
  /\ M!Unlock(t)
  /\ UNCHANGED <<queue, sema, i, seen, data, history>>

Step(t) ==
  \/ EnqueuePush(t) \/ EnqueueNotify(t)
  \/ DequeueWait(t) \/ DequeueFront(t) \/ DequeuePop(t)
  \/ HeadRead(t) \/ CountRead(t)
  \/ ClearLock(t) \/ ClearWait(t) \/ ClearReset(t)
  \/ Return(t)

(* A signal handler ran while t was blocked in sem_wait.                   *)
Interrupted(t) == DequeueInterrupted(t) \/ ClearInterrupted(t)

(* Thread::terminate() is pthread_cancel(): it takes effect in sem_wait,   *)
(* the one cancellation point of the queue, or outside the queue, and the  *)
(* unwinding of the stack runs the MutexLocker's destructor.               *)
Terminate(t) ==
  /\ t \in Cancellable
  /\ \/ pc[t] \in {"idle", "deqWait"} /\ UNCHANGED <<owner, depth>>
     \/ pc[t] = "clearWait" /\ i < Len(queue) /\ M!Unlock(t)
  /\ pc' = [pc EXCEPT ![t] = "dead"]
  /\ stranded' = IF pc[t] = "clearWait" THEN stranded + i ELSE stranded
  /\ UNCHANGED <<queue, sema, i, seen, data, undefined, unearned>>

(* What the program does after undefined behaviour is not modelled.        *)
Next ==
  /\ undefined = {}
  /\ \E t \in Threads : Call(t) \/ Step(t) \/ Interrupted(t) \/ Terminate(t)

(* A thread inside an operation is scheduled as long as it can run.        *)
Fairness == \A t \in Threads : WF_vars(Step(t))

Spec == Init /\ [][Next]_vars /\ Fairness

-----------------------------------------------------------------------------
(* Threads that have been through the semaphore and not popped, that have  *)
(* pushed and not posted, that are in the loop of clear().                 *)
Tokens == {t \in Threads : pc[t] \in {"deqFront", "deqPop"}}
Unposted == {t \in Threads : pc[t] = "enqNotify"}
Clearing == {t \in Threads : pc[t] = "clearWait"}
Rounds == IF Clearing # {} THEN i ELSE 0

Holding ==
  {t \in Threads : pc[t] \in {"enqNotify", "deqPop", "clearWait", "unlock"}}

TypeOK ==
  /\ queue \in Seq(Items)
  /\ sema \in Nat
  /\ M!Consistent
  /\ pc \in [Threads -> PCs]
  /\ i \in Nat
  /\ seen \in [Threads -> Nat]
  /\ element \in [Threads -> Items \cup {NoItem}]
  /\ got \in [Threads -> Items \cup {NoItem}]
  /\ undefined \subseteq {"dequeue", "head"}
  /\ unearned \in Nat
  /\ stranded \in Nat

(* Exactly the thread inside a MutexLocker scope owns the mutex, once.     *)
OwnerHolds ==
  /\ depth <= 1
  /\ \A t \in Threads : t \in Holding <=> owner = t

(* No token is ever lost or invented, in any interleaving of enqueue,      *)
(* dequeue and clear ("Synchronize with the semaphore counter",            *)
(* Queue.h:81), but for two things, which it counts: a wait that a signal  *)
(* handler ends, because nobody looks at what wait() returned, goes on     *)
(* without a token (unearned), and a clear() that is terminated in its     *)
(* loop keeps the tokens it has taken although it drops no item            *)
(* (stranded): so many items stay for which no dequeue() ever wakes up.    *)
TokensAccounted ==
  sema + Cardinality(Tokens) + Cardinality(Unposted) + Rounds + stranded
    = Len(queue) + unearned

(* dequeue() never takes the front of an empty std::queue: whoever got     *)
(* through the semaphore finds an item, whatever the other threads do      *)
(* between the semaphore and the mutex, clear() and terminate() included   *)
(* ("This method will block if the queue is empty", Queue.h:29).  Only     *)
(* waits that ended without a token break that, and only when they are     *)
(* more than the tokens that terminated clear()s keep.                     *)
NoUnderflow == "dequeue" \in undefined => unearned > stranded

(* head() after a positive count() reads an item: true only when nobody    *)
(* else removes items in between.                                          *)
HeadDefined == "head" \notin undefined

(* The queue implements the atomic first-in first-out queue: front() and   *)
(* pop() of a dequeue() are about the same item, in the order in which the *)
(* items were pushed, and find one unless a wait ended without a token.    *)
Fifo == INSTANCE FifoQueue WITH items <- queue, disturbed <- unearned > 0
ImplementsFifo == Fifo!Spec

(* Items never get stuck behind sleeping consumers: if from some point on  *)
(* there is always an item in the queue and always somebody in dequeue(),  *)
(* then items keep being popped.                                           *)
ItemsFlow ==
  <>[](queue # <<>> /\ \E t \in Threads :
                        pc[t] \in {"deqWait", "deqFront", "deqPop"})
    => []<><<\E t \in Threads : DequeuePop(t)>>_vars

(* Every clear() that has the mutex returns (Queue.h:75, "Clear the        *)
(* queue").                                                                *)
ClearReturns == \A t \in Threads : pc[t] = "clearWait" ~> pc[t] # "clearWait"

=============================================================================
