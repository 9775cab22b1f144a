---------------------------- MODULE ThreadProofs -----------------------------
(***************************************************************************)
(* Theorems about Thread, for any number of clients, in the three builds,  *)
(* with signal handlers and spurious wakeups or without.                   *)
(***************************************************************************)
EXTENDS Thread, TLAPS

(* Exactly the thread in a MutexLocker scope owns the mutex, once.         *)
OwnerHolds ==
  /\ depth <= 1
  /\ owner = Worker <=> worker \in {"unlockTrue", "unlockFalse"}
  /\ \A c \in Clients : owner = c <=> client[c] = "unlock"

(* m_running says where the system thread is, until it is cancelled.       *)
RunningTold ==
  /\ worker \in {"unlockTrue", "run", "setFalse"} => m_running
  /\ worker \in {"created", "waiting", "setTrue", "unlockFalse", "exited"} =>
       ~m_running

(* Who is in which operation of the semaphore, and what a token or a       *)
(* wakeup in it goes back to.                                              *)
SemaphoreUsed ==
  /\ \A t \in All : kind[t] = "forever"
  /\ semaPc[Worker] \in {"idle", "wait", "eintr", "check", "toSleep", "asleep",
                        "recheck"}
  /\ worker = "waiting" <=> semaPc[Worker] # "idle"
  /\ worker = "waiting" => build # "windows"
  /\ \A c \in Clients :
       /\ semaPc[c] \in {"idle", "post", "signal"}
       /\ client[c] = "start" <=> semaPc[c] # "idle"
       /\ client[c] = "start" => started /\ build # "windows"
  /\ count > 0 => started
  /\ semaPc[Worker] \in {"eintr", "recheck"} => started \/ disturbed

(* What a client knows of the end of the thread is true.                   *)
EndKnown ==
  /\ joined \/ deleted => Ended
  /\ cancel \/ worker = "cancelled" => terminated
  /\ \A c \in Clients :
       /\ answer[c] = "true" => worker \notin {"created", "waiting", "setTrue"}
       /\ answer[c] = "stopped" => Ended /\ ~m_running

ThreadInv ==
  /\ TypeOK /\ OwnerHolds /\ RunningTold /\ SemaphoreUsed /\ EndKnown
  /\ RunsOnlyIfStarted

-----------------------------------------------------------------------------
(* The semaphore.  A step of wait() moves the system thread on and may take *)
(* a token; it ends with a token, after a wakeup or disturbed.             *)
WorkerPcs == {"idle", "wait", "eintr", "check", "toSleep", "asleep", "recheck"}

LEMMA WorkerSteps ==
  ASSUME S!TypeOK, SemaphoreUsed,
         \/ S!WaitCall(Worker) /\ build # "windows"
         \/ worker = "waiting" /\ S!WaitStep(Worker)
         \/ worker = "waiting" /\ S!Disturbed(Worker)
  PROVE  \E p \in WorkerPcs :
           /\ semaPc' = [semaPc EXCEPT ![Worker] = p]
           /\ \/ count > 0 /\ count' = count - 1
              \/ count' = count
           /\ S!WaitCall(Worker) => p \notin {"idle", "eintr", "recheck"}
           /\ S!WaitStep(Worker) /\ p = "idle" =>
                count > 0 \/ semaPc[Worker] \in {"eintr", "recheck"}
           /\ S!WaitStep(Worker) => p \notin {"eintr", "recheck"}
           /\ \A t \in All : kind'[t] = "forever"
           /\ kind' \in [All -> {"timed", "forever"}]
           /\ ret' \in [All -> {"none", "true", "false"}]
           /\ UNCHANGED <<build, left, semaWindows>>
<1> USE DEF WorkerPcs, S!Goto, S!windows, semaWindows
<1>1. /\ Worker \in All /\ semaPc[Worker] \in WorkerPcs
      /\ semaPc \in [All -> S!PCs]
      /\ kind \in [All -> {"timed", "forever"}]
      /\ \A t \in All : kind[t] = "forever"
      /\ count \in Nat
      /\ ret \in [All -> {"none", "true", "false"}]
      /\ worker = "waiting" <=> semaPc[Worker] # "idle"
      /\ worker = "waiting" => build # "windows"
  BY DEF All, S!TypeOK, S!PCs, SemaphoreUsed
<1>2. CASE S!WaitCall(Worker) /\ build # "windows"
  <2>1. semaPc[Worker] = "idle"
    BY <1>2 DEF S!WaitCall
  <2>2. ~S!WaitStep(Worker)
    BY <2>1 DEF S!WaitStep, S!Acquired, S!TimedOut, S!Check, S!Sleep,
                S!Recheck, S!Decrement, S!GiveUp
  <2>3. \E p \in {"wait", "check"} : semaPc' = [semaPc EXCEPT ![Worker] = p]
    BY <1>2 DEF S!WaitCall
  <2>4. /\ kind' \in [All -> {"timed", "forever"}]
        /\ \A t \in All : kind'[t] = "forever"
    BY <1>1, <1>2 DEF S!WaitCall
  <2> QED
    BY <1>1, <1>2, <2>2, <2>3, <2>4 DEF S!WaitCall
<1>3. CASE worker = "waiting" /\ S!WaitStep(Worker)
  <2> USE <1>1, <1>3
  <2>1. ~S!WaitCall(Worker)
    BY DEF S!WaitCall
  <2>2. CASE S!Acquired(Worker)
    BY <2>1, <2>2 DEF S!Acquired
  <2>3. CASE S!Check(Worker)
    BY <2>1, <2>3 DEF S!Check
  <2>4. CASE S!Sleep(Worker)
    BY <2>1, <2>4 DEF S!Sleep
  <2>5. CASE S!Recheck(Worker)
    BY <2>1, <2>5 DEF S!Recheck
  <2>6. CASE S!GiveUp(Worker)
    BY <2>1, <2>6 DEF S!GiveUp
  <2>7. ~S!TimedOut(Worker) /\ ~S!Decrement(Worker)
    BY DEF S!TimedOut, S!Decrement
  <2> QED
    BY <2>2, <2>3, <2>4, <2>5, <2>6, <2>7 DEF S!WaitStep
<1>4. CASE worker = "waiting" /\ S!Disturbed(Worker)
  <2> USE <1>1, <1>4
  <2>1. ~S!WaitCall(Worker)
    BY DEF S!WaitCall
  <2>2. CASE S!WaitStep(Worker)
    BY <1>3, <2>2
  <2>3. CASE ~S!WaitStep(Worker)
    BY <2>1, <2>3 DEF S!Disturbed, S!Interrupted, S!SpuriousWakeup
  <2> QED
    BY <2>2, <2>3
<1> QED
  BY <1>2, <1>3, <1>4

(* A step of notify() moves the client on; it adds one token, or wakes the *)
(* system thread, the only one that can be asleep.                         *)
LEMMA ClientSteps ==
  ASSUME S!TypeOK, SemaphoreUsed, NEW c \in Clients,
         \/ S!NotifyCall(c) /\ build # "windows"
         \/ client[c] = "start" /\ S!NotifyStep(c)
  PROVE  \E p \in {"idle", "post", "signal"} :
           /\ \/ semaPc' = [semaPc EXCEPT ![c] = p]
              \/ /\ semaPc[Worker] = "asleep"
                 /\ client[c] = "start" /\ p = "post"
                 /\ semaPc' = [semaPc EXCEPT ![c] = p, ![Worker] = "recheck"]
           /\ S!NotifyCall(c) => p = "post"
           /\ \/ count' = count + 1 /\ client[c] = "start"
              \/ count' = count
           /\ left' \in [All -> Nat]
           /\ UNCHANGED <<build, kind, ret, semaWindows>>
<1> USE DEF S!Goto, S!windows, semaWindows
<1>1. /\ c \in All /\ Worker \in All /\ c # Worker
      /\ semaPc \in [All -> S!PCs]
      /\ left \in [All -> Nat]
      /\ count \in Nat
      /\ semaPc[c] \in {"idle", "post", "signal"}
      /\ client[c] = "start" <=> semaPc[c] # "idle"
      /\ client[c] = "start" => build # "windows"
  BY ThreadAssumption DEF All, S!TypeOK, S!PCs, SemaphoreUsed
<1>2. CASE S!NotifyCall(c) /\ build # "windows"
  BY <1>1, <1>2 DEF S!NotifyCall
<1>3. CASE client[c] = "start" /\ S!NotifyStep(c)
  <2> USE <1>1, <1>3
  <2>1. ~S!NotifyCall(c)
    BY DEF S!NotifyCall
  <2>2. CASE S!Post(c)
    <3>1. \E p \in {"signal", "post"} : semaPc' = [semaPc EXCEPT ![c] = p]
      BY <2>2 DEF S!Post
    <3>2. left' \in [All -> Nat]
      <4>1. left[c] \in Nat /\ left[c] > 0 /\ left' = [left EXCEPT ![c] = @ - 1]
        BY <2>2 DEF S!Post
      <4>2. left[c] - 1 \in Nat
        BY <4>1
      <4> QED
        BY <4>1, <4>2
    <3> QED
      BY <2>1, <2>2, <3>1, <3>2 DEF S!Post
  <2>3. CASE S!Signal(c)
    <3>1. S!Asleep \subseteq {Worker} /\ \A u \in S!Asleep : semaPc[u] = "asleep"
      BY DEF S!Asleep, SemaphoreUsed, All
    <3> QED
      BY <2>1, <2>3, <3>1 DEF S!Signal
  <2>4. CASE S!NotifyReturn(c)
    BY <2>1, <2>4 DEF S!NotifyReturn
  <2>5. ~S!Release(c) /\ ~S!Store(c)
    BY DEF S!Release, S!Store
  <2> QED
    BY <2>2, <2>3, <2>4, <2>5 DEF S!NotifyStep
<1> QED
  BY <1>2, <1>3

LEMMA SemaTypes ==
  ASSUME S!TypeOK, UNCHANGED <<build, semaWindows>>,
         semaPc' \in [All -> S!PCs], count' \in Nat,
         kind' \in [All -> {"timed", "forever"}],
         left' \in [All -> Nat],
         ret' \in [All -> {"none", "true", "false"}]
  PROVE  S!TypeOK'
BY DEF S!TypeOK, S!M!Consistent, semaWindows, S!PCs

LEMMA SemaUnchanged ==
  ASSUME S!TypeOK, UNCHANGED <<build, sema>> PROVE S!TypeOK'
BY SemaTypes DEF S!TypeOK, sema

-----------------------------------------------------------------------------
(* The steps in which the system thread waits for start().                 *)
LEMMA WaitingSteps ==
  ASSUME ThreadInv, WaitCall \/ StartWait \/ StartInterrupted
  PROVE  ThreadInv'
<1>1. /\ Worker \in All /\ Worker \notin Clients /\ Clients \subseteq All
      /\ All = Clients \cup {Worker}
  BY ThreadAssumption DEF All
<1>2. /\ UNCHANGED <<m_running, mutex, clientVars>>
      /\ disturbed' \in BOOLEAN
      /\ \/ /\ WaitCall /\ UNCHANGED disturbed
            /\ worker = "created" /\ worker' = "waiting"
            /\ S!WaitCall(Worker) /\ build # "windows"
         \/ /\ worker = "waiting"
            /\ worker' = IF semaPc'[Worker] = "idle" THEN "setTrue" ELSE "waiting"
            /\ \/ S!WaitStep(Worker) /\ UNCHANGED disturbed
               \/ S!Disturbed(Worker) /\ disturbed' = TRUE
  BY DEF WaitCall, StartWait, StartInterrupted, Waits, WorkerGoto, ThreadInv,
         TypeOK
<1>3. S!TypeOK /\ SemaphoreUsed
  BY DEF ThreadInv, TypeOK
<1>4. PICK p \in WorkerPcs :
           /\ semaPc' = [semaPc EXCEPT ![Worker] = p]
           /\ \/ count > 0 /\ count' = count - 1
              \/ count' = count
           /\ S!WaitCall(Worker) => p \notin {"idle", "eintr", "recheck"}
           /\ S!WaitStep(Worker) /\ p = "idle" =>
                count > 0 \/ semaPc[Worker] \in {"eintr", "recheck"}
           /\ S!WaitStep(Worker) => p \notin {"eintr", "recheck"}
           /\ \A t \in All : kind'[t] = "forever"
           /\ kind' \in [All -> {"timed", "forever"}]
           /\ ret' \in [All -> {"none", "true", "false"}]
           /\ UNCHANGED <<build, left, semaWindows>>
  <2> HIDE DEF WorkerPcs
  <2> QED
    BY WorkerSteps, <1>2, <1>3
<1>5. S!TypeOK'
  BY SemaTypes, <1>1, <1>3, <1>4 DEF S!TypeOK, S!PCs, WorkerPcs
<1>6. TypeOK'
  BY <1>2, <1>5 DEF ThreadInv, TypeOK, Points, M!Consistent, mutex, clientVars
<1>7. SemaphoreUsed'
  BY <1>1, <1>2, <1>3, <1>4
     DEF SemaphoreUsed, clientVars, S!TypeOK, WorkerPcs, ThreadInv
<1>8. RunsOnlyIfStarted'
  BY <1>1, <1>2, <1>3, <1>4
     DEF RunsOnlyIfStarted, SemaphoreUsed, clientVars, S!TypeOK
<1>9. OwnerHolds' /\ RunningTold' /\ EndKnown'
  BY <1>2 DEF ThreadInv, OwnerHolds, RunningTold, EndKnown, Ended, mutex, clientVars
<1> QED
  BY <1>6, <1>7, <1>8, <1>9 DEF ThreadInv

(* The other steps of the system thread, and pthread_cancel.               *)
LEMMA RunningSteps ==
  ASSUME ThreadInv,
         \/ Resumed \/ RunReturns
         \/ SetRunning("setTrue", "unlockTrue", TRUE)
         \/ SetRunningReturn("unlockTrue", "run")
         \/ SetRunning("setFalse", "unlockFalse", FALSE)
         \/ SetRunningReturn("unlockFalse", "exited")
  PROVE  ThreadInv'
<1>1. /\ Worker \in All /\ Worker \notin Clients /\ Clients \subseteq All
      /\ NoThread \notin All
  BY ThreadAssumption DEF All
<1>2. /\ UNCHANGED <<disturbed, clientVars, sema>>
      /\ m_running' \in BOOLEAN
      /\ \/ /\ worker = "created" /\ worker' = "setTrue"
            /\ build = "windows" /\ started
            /\ UNCHANGED <<m_running, mutex>>
         \/ /\ worker = "run" /\ worker' = "setFalse"
            /\ UNCHANGED <<m_running, mutex>>
         \/ /\ worker = "setTrue" /\ worker' = "unlockTrue"
            /\ m_running' = TRUE /\ Lock(Worker)
         \/ /\ worker = "setFalse" /\ worker' = "unlockFalse"
            /\ m_running' = FALSE /\ Lock(Worker)
         \/ /\ worker = "unlockTrue" /\ worker' = "run"
            /\ UNCHANGED m_running /\ Unlock(Worker)
         \/ /\ worker = "unlockFalse" /\ worker' = "exited"
            /\ UNCHANGED m_running /\ Unlock(Worker)
  BY DEF Resumed, RunReturns, SetRunning, SetRunningReturn, WorkerGoto,
         ThreadInv, TypeOK
<1>3. S!TypeOK'
  BY SemaUnchanged, <1>2 DEF ThreadInv, TypeOK, clientVars
<1>4. OwnerHolds' /\ M!Consistent'
  BY <1>1, <1>2
     DEF ThreadInv, TypeOK, OwnerHolds, M!Consistent, Lock, Unlock, M!Lock,
         M!Unlock, M!Available, mutex, clientVars
<1>5. TypeOK'
  BY <1>2, <1>3, <1>4
     DEF ThreadInv, TypeOK, Points, mutex, clientVars, Lock, Unlock
<1>6. SemaphoreUsed'
  BY <1>2 DEF ThreadInv, SemaphoreUsed, clientVars, sema
<1>7. RunningTold' /\ EndKnown' /\ RunsOnlyIfStarted'
  BY <1>2 DEF ThreadInv, RunningTold, EndKnown, RunsOnlyIfStarted, Ended, clientVars
<1> QED
  BY <1>4, <1>5, <1>6, <1>7 DEF ThreadInv

LEMMA CancelledStep == ASSUME ThreadInv, Cancelled PROVE ThreadInv'
<1>1. /\ Worker \in All /\ Worker \notin Clients /\ Clients \subseteq All
  BY ThreadAssumption DEF All
<1>2. /\ cancel /\ cancel' = FALSE
      /\ worker \in {"created", "waiting", "run"} /\ worker' = "cancelled"
      /\ semaPc' = [semaPc EXCEPT ![Worker] = "idle"]
      /\ UNCHANGED <<build, m_running, mutex, terminated, started, disturbed,
                     client, answer, joined, deleted, count, kind, left, ret,
                     semaWindows>>
  BY DEF Cancelled
<1>3. S!TypeOK'
  BY SemaTypes, <1>1, <1>2 DEF ThreadInv, TypeOK, S!TypeOK, S!PCs
<1>4. TypeOK'
  BY <1>2, <1>3 DEF ThreadInv, TypeOK, Points, M!Consistent, mutex
<1>5. SemaphoreUsed'
  BY <1>1, <1>2 DEF ThreadInv, TypeOK, S!TypeOK, SemaphoreUsed
<1>6. OwnerHolds' /\ RunningTold' /\ EndKnown' /\ RunsOnlyIfStarted'
  BY <1>2 DEF ThreadInv, OwnerHolds, RunningTold, EndKnown, RunsOnlyIfStarted,
              Ended, mutex
<1> QED
  BY <1>4, <1>5, <1>6 DEF ThreadInv

-----------------------------------------------------------------------------
(* The steps of the clients: start(), isRunning(), terminate(), join() and *)
(* the destructor.                                                         *)
LEMMA StartSteps ==
  ASSUME ThreadInv, NEW c \in Clients, Start(c) \/ StartNotify(c)
  PROVE  ThreadInv'
<1>1. /\ Worker \in All /\ Worker \notin Clients /\ Clients \subseteq All
      /\ All = Clients \cup {Worker}
  BY ThreadAssumption DEF All
<1>2. /\ UNCHANGED <<build, worker, m_running, disturbed, mutex, cancel,
                     terminated, answer, joined, deleted>>
      /\ started' = TRUE
  BY DEF Start, StartNotify, workerVars, ThreadInv, SemaphoreUsed
<1>3. S!TypeOK /\ SemaphoreUsed
  BY DEF ThreadInv, TypeOK
<1>4. CASE UNCHANGED <<client, sema>>
  <2>1. S!TypeOK'
    BY SemaUnchanged, <1>2, <1>3, <1>4
  <2>2. TypeOK'
    BY <1>2, <1>4, <2>1 DEF ThreadInv, TypeOK, M!Consistent, mutex
  <2>3. SemaphoreUsed'
    BY <1>2, <1>3, <1>4 DEF SemaphoreUsed, sema
  <2> QED
    BY <1>2, <1>4, <2>2, <2>3
       DEF ThreadInv, OwnerHolds, RunningTold, EndKnown, RunsOnlyIfStarted,
           Ended, mutex
<1>5. CASE ~UNCHANGED <<client, sema>>
  <2>1. /\ client \in [Clients -> {"idle", "start", "unlock", "join"}]
        /\ client[c] \in {"idle", "start"}
        /\ \/ S!NotifyCall(c) /\ build # "windows"
           \/ client[c] = "start" /\ S!NotifyStep(c)
        /\ client' = [client EXCEPT ![c] =
                        IF semaPc'[c] = "idle" THEN "idle" ELSE "start"]
    <3>1. client \in [Clients -> {"idle", "start", "unlock", "join"}]
      BY DEF ThreadInv, TypeOK
    <3>2. CASE StartNotify(c)
      BY <3>1, <3>2 DEF StartNotify
    <3>3. CASE Start(c)
      <4>1. S!NotifyCall(c) /\ build # "windows" /\ Calls(c, "idle", "start")
        <5>1. client[c] = "idle" /\ client' = [client EXCEPT ![c] = "idle"] =>
                client' = client
          BY <3>1
        <5> QED
          BY <1>5, <3>3, <5>1 DEF Start, Calls
      <4>2. semaPc'[c] # "idle"
        BY <1>1, <1>3, <4>1 DEF S!NotifyCall, S!Goto, S!TypeOK
      <4> QED
        BY <3>1, <4>1, <4>2 DEF Calls
    <3> QED
      BY <3>1, <3>2, <3>3
  <2>2. PICK p \in {"idle", "post", "signal"} :
           /\ \/ semaPc' = [semaPc EXCEPT ![c] = p]
              \/ /\ semaPc[Worker] = "asleep"
                 /\ client[c] = "start" /\ p = "post"
                 /\ semaPc' = [semaPc EXCEPT ![c] = p, ![Worker] = "recheck"]
           /\ S!NotifyCall(c) => p = "post"
           /\ \/ count' = count + 1 /\ client[c] = "start"
              \/ count' = count
           /\ left' \in [All -> Nat]
           /\ UNCHANGED <<build, kind, ret, semaWindows>>
    BY ClientSteps, <1>3, <2>1
  <2>3. S!TypeOK'
    BY SemaTypes, <1>1, <1>3, <2>2 DEF S!TypeOK, S!PCs
  <2>4. TypeOK'
    BY <1>2, <2>1, <2>3 DEF ThreadInv, TypeOK, M!Consistent, mutex
  <2>5. SemaphoreUsed'
    BY <1>1, <1>2, <1>3, <2>1, <2>2 DEF SemaphoreUsed, S!TypeOK
  <2>6. OwnerHolds'
    BY <1>2, <2>1 DEF ThreadInv, OwnerHolds, mutex
  <2> QED
    BY <1>2, <2>4, <2>5, <2>6
       DEF ThreadInv, RunningTold, EndKnown, RunsOnlyIfStarted, Ended
<1> QED
  BY <1>4, <1>5

LEMMA IsRunningSteps ==
  ASSUME ThreadInv, NEW c \in Clients, IsRunning(c) \/ IsRunningReturn(c)
  PROVE  ThreadInv'
<1>1. /\ Worker \in All /\ Worker \notin Clients /\ Clients \subseteq All
      /\ NoThread \notin All
  BY ThreadAssumption DEF All
<1>2. /\ UNCHANGED <<build, worker, m_running, disturbed, cancel, terminated,
                     started, joined, deleted, sema>>
      /\ \/ /\ client[c] = "idle" /\ client' = [client EXCEPT ![c] = "unlock"]
            /\ answer' = [answer EXCEPT ![c] = Told(@, m_running)]
            /\ Lock(c)
         \/ /\ client[c] = "unlock" /\ client' = [client EXCEPT ![c] = "idle"]
            /\ UNCHANGED answer
            /\ Unlock(c)
  BY DEF IsRunning, IsRunningReturn, Calls, workerVars
<1>3. S!TypeOK'
  BY SemaUnchanged, <1>2 DEF ThreadInv, TypeOK
<1>4. OwnerHolds' /\ M!Consistent'
  BY <1>1, <1>2
     DEF ThreadInv, TypeOK, OwnerHolds, M!Consistent, Lock, Unlock, M!Lock,
         M!Unlock, M!Available
<1>5. /\ abandoned' \in BOOLEAN /\ aborted' \in BOOLEAN
      /\ client' \in [Clients -> {"idle", "start", "unlock", "join"}]
  BY <1>2 DEF ThreadInv, TypeOK, Lock, Unlock
<1>6. answer' \in [Clients -> {"none", "false", "true", "stopped"}]
  BY <1>2 DEF ThreadInv, TypeOK, Told
<1>7. TypeOK'
  BY <1>2, <1>3, <1>4, <1>5, <1>6 DEF ThreadInv, TypeOK
<1>8. SemaphoreUsed'
  BY <1>2 DEF ThreadInv, TypeOK, SemaphoreUsed, sema
<1>9. EndKnown'
  <2>1. Lock(c) => worker # "unlockFalse"
    BY <1>1 DEF Lock, M!Lock, M!Available, ThreadInv, OwnerHolds
  <2> QED
    BY <1>2, <2>1 DEF ThreadInv, TypeOK, Points, EndKnown, RunningTold, Ended, Told
<1> QED
  BY <1>2, <1>4, <1>7, <1>8, <1>9 DEF ThreadInv, RunningTold, RunsOnlyIfStarted

(* terminate() on Windows ends the thread wherever it is, and frees the    *)
(* mutex if the thread has it.                                             *)
LEMMA TerminateStep ==
  ASSUME ThreadInv, NEW c \in Clients, Terminate(c)
  PROVE  ThreadInv'
<1>1. /\ Worker \notin Clients /\ NoThread \notin Clients /\ NoThread # Worker
      /\ All = Clients \cup {Worker}
  BY ThreadAssumption DEF All
<1>2. /\ UNCHANGED <<build, m_running, started, disturbed, answer, joined,
                     deleted, sema>>
      /\ client' = client
      /\ terminated' = TRUE
      /\ ~joined /\ ~deleted
      /\ \/ /\ cancel' = ~Ended
            /\ UNCHANGED <<worker, mutex>>
         \/ /\ build = "windows" /\ ~Ended
            /\ worker' = "cancelled"
            /\ \/ /\ owner = Worker
                  /\ owner' = NoThread /\ depth' = 0 /\ abandoned' = TRUE
               \/ /\ owner # Worker
                  /\ UNCHANGED <<owner, depth, abandoned>>
            /\ UNCHANGED <<cancel, aborted>>
  BY DEF Terminate, Calls, ThreadInv, TypeOK
<1>3. S!TypeOK'
  BY SemaUnchanged, <1>2 DEF ThreadInv, TypeOK
<1>4. OwnerHolds' /\ M!Consistent'
  BY <1>1, <1>2 DEF ThreadInv, TypeOK, OwnerHolds, M!Consistent, Ended, mutex
<1>5. TypeOK'
  BY <1>2, <1>3, <1>4 DEF ThreadInv, TypeOK, Points, Ended, mutex
<1>6. SemaphoreUsed'
  BY <1>2 DEF ThreadInv, SemaphoreUsed, sema
<1> QED
  BY <1>2, <1>4, <1>5, <1>6
     DEF ThreadInv, TypeOK, Points, RunningTold, EndKnown, RunsOnlyIfStarted, Ended

LEMMA EndSteps ==
  ASSUME ThreadInv, NEW c \in Clients, JoinCall(c) \/ JoinReturn(c) \/ Delete(c)
  PROVE  ThreadInv'
<1>1. /\ UNCHANGED <<build, worker, m_running, disturbed, mutex, cancel,
                     terminated, started, answer, sema>>
      /\ joined' \in BOOLEAN /\ deleted' \in BOOLEAN
      /\ \/ UNCHANGED client
         \/ client[c] = "idle" /\ client' = [client EXCEPT ![c] = "join"]
         \/ client[c] = "join" /\ client' = [client EXCEPT ![c] = "idle"]
      /\ \/ UNCHANGED <<joined, deleted>>
         \/ Ended
         \/ joined \/ answer[c] = "stopped"
  BY DEF JoinCall, JoinReturn, Delete, Calls, workerVars, ThreadInv, TypeOK
<1>2. S!TypeOK'
  BY SemaUnchanged, <1>1 DEF ThreadInv, TypeOK
<1>3. TypeOK'
  BY <1>1, <1>2 DEF ThreadInv, TypeOK, M!Consistent, mutex
<1>4. OwnerHolds'
  BY <1>1 DEF ThreadInv, TypeOK, OwnerHolds, mutex
<1>5. SemaphoreUsed'
  BY <1>1 DEF ThreadInv, TypeOK, SemaphoreUsed, sema
<1> QED
  BY <1>1, <1>3, <1>4, <1>5
     DEF ThreadInv, RunningTold, EndKnown, RunsOnlyIfStarted, Ended

-----------------------------------------------------------------------------
LEMMA ThreadInit == Init => ThreadInv
<1> SUFFICES ASSUME Init PROVE ThreadInv
  OBVIOUS
<1>1. Worker \in All /\ Clients \subseteq All
  BY DEF All
<1>2. S!TypeOK
  <2> USE DEF Init, S!Init
  <2>1. semaPc \in [All -> S!PCs] /\ left \in [All -> Nat]
    BY DEF S!PCs
  <2>2. /\ kind \in [All -> {"timed", "forever"}]
        /\ ret \in [All -> {"none", "true", "false"}]
    OBVIOUS
  <2>3. S!M!Consistent
    BY DEF S!M!Init, S!M!Consistent
  <2>4. build \in Builds /\ count \in Nat /\ semaCount \in Int /\ semaCnt \in Int
    OBVIOUS
  <2>5. semaRefused \in BOOLEAN /\ semaDoubled \in Nat
    OBVIOUS
  <2> QED
    BY ONLY <2>1, <2>2, <2>3, <2>4, <2>5 DEF S!TypeOK
<1>3. TypeOK
  BY <1>2 DEF Init, TypeOK, Points, M!Init, M!Consistent
<1>4. OwnerHolds
  BY ThreadAssumption DEF Init, M!Init, OwnerHolds
<1>5. SemaphoreUsed
  BY <1>1 DEF Init, S!Init, SemaphoreUsed
<1> QED
  BY <1>3, <1>4, <1>5
     DEF ThreadInv, Init, RunningTold, EndKnown, RunsOnlyIfStarted, Ended

LEMMA ThreadStep == ThreadInv /\ [Next]_vars => ThreadInv'
<1> SUFFICES ASSUME ThreadInv, [Next]_vars PROVE ThreadInv'
  OBVIOUS
<1>1. CASE UNCHANGED vars
  <2>1. S!TypeOK'
    BY SemaUnchanged, <1>1 DEF ThreadInv, TypeOK, vars
  <2> QED
    BY <1>1, <2>1
       DEF ThreadInv, TypeOK, M!Consistent, OwnerHolds, RunningTold,
           SemaphoreUsed, EndKnown, RunsOnlyIfStarted, Ended, vars, mutex, sema
<1>2. CASE Runner \/ StartInterrupted
  BY <1>2, WaitingSteps, RunningSteps DEF Runner
<1>3. CASE Cancelled
  BY <1>3, CancelledStep
<1>4. ASSUME NEW c \in Clients, Client(c) PROVE ThreadInv'
  BY <1>4, StartSteps, IsRunningSteps, TerminateStep, EndSteps DEF Client
<1> QED
  BY <1>1, <1>2, <1>3, <1>4 DEF Next

LEMMA ThreadInvariant == Spec => []ThreadInv
BY ThreadInit, ThreadStep, PTL DEF Spec

(* The type invariant of a Thread object with its mutex and its semaphore, *)
(* whatever its clients call and whenever they terminate it.               *)
THEOREM TypeCorrect == Spec => []TypeOK
<1>1. ThreadInv => TypeOK
  BY DEF ThreadInv
<1> QED
  BY ThreadInvariant, <1>1, PTL

(* In none of the builds does run() begin before start() was called,       *)
(* unless a signal handler or a spurious wakeup ended the wait in          *)
(* threadRunner().                                                         *)
THEOREM NeverRunsUnstarted == Spec => []RunsOnlyIfStarted
<1>1. ThreadInv => RunsOnlyIfStarted
  BY DEF ThreadInv
<1> QED
  BY ThreadInvariant, <1>1, PTL

(* A client that deletes the object after join(), or after isRunning() has *)
(* gone from true to false, takes nothing away from the system thread: the *)
(* thread has left the mutex for the last time.                            *)
THEOREM DeletedAfterUse == Spec => []FreedAfterUse
<1>1. ThreadInv => FreedAfterUse
  BY DEF ThreadInv, EndKnown, FreedAfterUse
<1> QED
  BY ThreadInvariant, <1>1, PTL

(* What join() and isRunning() say of a thread that is over stays true.    *)
THEOREM StoppedStaysStopped == Spec => []StoppedIsOver
<1>1. ThreadInv => StoppedIsOver
  BY DEF ThreadInv, EndKnown, RunningTold, StoppedIsOver, Ended
<1> QED
  BY ThreadInvariant, <1>1, PTL

=============================================================================
