------------------------------ MODULE Thread --------------------------------
(***************************************************************************)
(* One ucxx::Thread object (Thread.h, Thread.cpp): the system thread that  *)
(* its constructor creates, and client threads that call start(),          *)
(* isRunning(), terminate(), join() and the destructor.                    *)
(*                                                                         *)
(* In the POSIX and Apple builds the system thread waits for start() on a  *)
(* Semaphore, for which Sema.tla is instantiated.  In the Windows build it *)
(* is created suspended, and there is no semaphore.                        *)
(***************************************************************************)
EXTENDS Integers

CONSTANTS
  Clients,      \* threads that use the object
  Worker,       \* its system thread
  NoThread,
  Terminators,  \* clients that may call terminate()
  Builds,       \* the builds to look at: "posix", "apple", "windows"
  Interrupts    \* may sem_wait be interrupted, pthread_cond_wait wake up?

ASSUME ThreadAssumption ==
  /\ Worker \notin Clients
  /\ NoThread \notin Clients \cup {Worker}
  /\ Terminators \subseteq Clients
  /\ Builds \subseteq {"posix", "apple", "windows"}
  /\ Interrupts \in BOOLEAN

VARIABLES
  build,        \* which of the builds this is
  worker,       \* where the system thread is in threadRunner()
  m_running,
  owner, depth, \* m_pMutex
  abandoned,    \* its owner was terminated (Windows)
  aborted,      \* the assert in Mutex::lock() has failed
  cancel,       \* terminate() has been called and has not taken effect
  terminated,   \* terminate() has been called
  started,      \* start() has been called
  disturbed,    \* history: a signal handler or a spurious wakeup ended a wait
  client,       \* what each client is in
  answer,       \* answer[c]: what isRunning() told c, see Told
  joined,       \* join() has returned
  deleted,      \* the destructor has run
  count, semaPc, kind, left, ret,  \* m_pStartSemaphore
  semaCount, semaOwner, semaDepth, semaCnt, semaRefused,
  semaDoubled                      \* the Windows semaphore: not in use here

semaWindows == <<semaCount, semaOwner, semaDepth, semaCnt, semaRefused,
                 semaDoubled>>
sema == <<count, semaPc, kind, left, ret, semaWindows>>
mutex == <<owner, depth, abandoned, aborted>>
vars == <<build, worker, m_running, mutex, cancel, terminated, started,
          disturbed, client, answer, joined, deleted, sema>>

All == Clients \cup {Worker}

M == INSTANCE Mutex WITH Threads <- All
S == INSTANCE Sema
       WITH Threads <- All, Waiters <- {Worker}, Posters <- Clients,
            Readers <- {}, Timeouts <- {"forever"}, Increments <- {1},
            Initial <- 0, Garbage <- {}, MaxCount <- 2, pc <- semaPc,
            m_count <- semaCount, owner <- semaOwner, depth <- semaDepth,
            cnt <- semaCnt, refused <- semaRefused, doubled <- semaDoubled

(* threadRunner(), one point per place where another thread can look.      *)
Points == {"created", "waiting", "setTrue", "unlockTrue", "run", "setFalse",
           "unlockFalse", "exited", "cancelled"}
Ended == worker \in {"exited", "cancelled"}

Init ==
  /\ worker = "created"
  /\ m_running = FALSE
  /\ M!Init
  /\ abandoned = FALSE
  /\ aborted = FALSE
  /\ cancel = FALSE
  /\ terminated = FALSE
  /\ started = FALSE
  /\ disturbed = FALSE
  /\ client = [c \in Clients |-> "idle"]
  /\ answer = [c \in Clients |-> "none"]
  /\ joined = FALSE
  /\ deleted = FALSE
  /\ S!Init

-----------------------------------------------------------------------------
(* The system thread.                                                      *)

WorkerGoto(from, to) == worker = from /\ worker' = to

clientVars == <<build, cancel, terminated, started, client, answer, joined,
                deleted>>

(* m_pStartSemaphore->wait(): nobody looks at what it returns.             *)
WaitCall ==
  /\ build # "windows"
  /\ WorkerGoto("created", "waiting")
  /\ S!WaitCall(Worker)
  /\ UNCHANGED <<m_running, mutex, disturbed, clientVars>>

Waits(step) ==
  /\ worker = "waiting"
  /\ step
  /\ worker' = IF semaPc'[Worker] = "idle" THEN "setTrue" ELSE "waiting"
  /\ UNCHANGED <<m_running, mutex, clientVars>>

StartWait == Waits(S!WaitStep(Worker)) /\ UNCHANGED disturbed

StartInterrupted == Waits(S!Disturbed(Worker)) /\ disturbed' = TRUE

ResumedAlways ==  \* mutant: not created suspended
  /\ build = "windows"
  /\ WorkerGoto("created", "setTrue")
  /\ UNCHANGED <<m_running, mutex, disturbed, clientVars, sema>>

(* The Windows thread is suspended until ResumeThread.                     *)
Resumed ==
  /\ build = "windows"
  /\ started
  /\ WorkerGoto("created", "setTrue")
  /\ UNCHANGED <<m_running, mutex, disturbed, clientVars, sema>>

(* MutexLocker: WaitForSingleObject returns WAIT_ABANDONED, and the assert *)
(* fails, if the last owner was terminated.                                *)
Lock(t) ==
  /\ M!Lock(t)
  /\ abandoned' = FALSE
  /\ aborted' = abandoned

Unlock(t) ==
  /\ M!Unlock(t)
  /\ UNCHANGED <<abandoned, aborted>>

SetRunning(from, to, value) ==
  /\ WorkerGoto(from, to)
  /\ Lock(Worker)
  /\ m_running' = value
  /\ UNCHANGED <<disturbed, clientVars, sema>>

SetRunningReturn(from, to) ==
  /\ WorkerGoto(from, to)
  /\ Unlock(Worker)
  /\ UNCHANGED <<m_running, disturbed, clientVars, sema>>

RunReturns ==
  /\ WorkerGoto("run", "setFalse")
  /\ UNCHANGED <<m_running, mutex, disturbed, clientVars, sema>>

RunnerStaysRunning ==  \* mutant: setRunning(false) is forgotten
  \/ StartWait \/ Resumed \/ WaitCall
  \/ SetRunning("setTrue", "unlockTrue", TRUE)
  \/ SetRunningReturn("unlockTrue", "run")
  \/ WorkerGoto("run", "exited")
       /\ UNCHANGED <<m_running, mutex, disturbed, clientVars, sema>>

Runner ==
  \/ WaitCall \/ StartWait \/ Resumed
  \/ SetRunning("setTrue", "unlockTrue", TRUE)
  \/ SetRunningReturn("unlockTrue", "run")
  \/ RunReturns
  \/ SetRunning("setFalse", "unlockFalse", FALSE)
  \/ SetRunningReturn("unlockFalse", "exited")

CancelledInRun ==  \* mutant: no effect before run()
  /\ cancel
  /\ build # "windows"
  /\ WorkerGoto("run", "cancelled")
  /\ cancel' = FALSE
  /\ UNCHANGED <<build, m_running, mutex, terminated, started, disturbed,
                 client, answer, joined, deleted, sema>>

(* pthread_cancel takes effect at a cancellation point: on the way into or *)
(* in the wait on the semaphore, or in run().  No MutexLocker is alive     *)
(* there, so that it makes no difference that Apple's runs no destructors; *)
(* the m_waitMutex that it may leave locked belongs to the worker alone.   *)
Cancelled ==
  /\ cancel
  /\ build # "windows"
  /\ worker \in {"created", "waiting", "run"}
  /\ worker = "waiting" => semaPc[Worker] \in {"wait", "toSleep", "asleep"}
  /\ worker' = "cancelled"
  /\ semaPc' = [semaPc EXCEPT ![Worker] = "idle"]
  /\ cancel' = FALSE
  /\ UNCHANGED <<build, m_running, mutex, terminated, started, disturbed,
                 client, answer, joined, deleted, count, kind, left, ret,
                 semaWindows>>

-----------------------------------------------------------------------------
(* The clients, which use the object until one of them deletes it.         *)

workerVars == <<build, worker, m_running, disturbed>>

Calls(c, from, to) ==
  /\ ~deleted
  /\ client[c] = from
  /\ client' = [client EXCEPT ![c] = to]

(* start(): notify() on the semaphore, or ResumeThread.                    *)
Start(c) ==
  /\ started' = TRUE
  /\ \/ build = "windows" /\ Calls(c, "idle", "idle") /\ UNCHANGED sema
     \/ build # "windows" /\ Calls(c, "idle", "start") /\ S!NotifyCall(c)
  /\ UNCHANGED <<workerVars, mutex, cancel, terminated, answer, joined,
                 deleted>>

StartNotify(c) ==
  /\ client[c] = "start"
  /\ S!NotifyStep(c)
  /\ client' = [client EXCEPT ![c] =
                  IF semaPc'[c] = "idle" THEN "idle" ELSE "start"]
  /\ UNCHANGED <<workerVars, mutex, cancel, terminated, started, answer,
                 joined, deleted>>

(* What c knows from isRunning(): "stopped" is false after true.           *)
Told(before, running) ==
  IF running THEN "true"
  ELSE IF before \in {"true", "stopped"} THEN "stopped" ELSE "false"

IsRunning(c) ==
  /\ Calls(c, "idle", "unlock")
  /\ Lock(c)
  /\ answer' = [answer EXCEPT ![c] = Told(@, m_running)]
  /\ UNCHANGED <<workerVars, cancel, terminated, started, joined, deleted,
                 sema>>

IsRunningReturn(c) ==
  /\ client[c] = "unlock"
  /\ client' = [client EXCEPT ![c] = "idle"]
  /\ Unlock(c)
  /\ UNCHANGED <<workerVars, cancel, terminated, started, answer, joined,
                 deleted, sema>>

(* TerminateThread acts at once, wherever the thread is, and leaves the    *)
(* mutex abandoned if the thread had it.                                   *)
Terminate(c) ==
  /\ c \in Terminators
  /\ ~joined
  /\ Calls(c, "idle", "idle")
  /\ terminated' = TRUE
  /\ \/ /\ build # "windows" \/ Ended
        /\ cancel' = ~Ended
        /\ UNCHANGED <<worker, mutex>>
     \/ /\ build = "windows" /\ ~Ended
        /\ worker' = "cancelled"
        /\ \/ /\ owner = Worker
              /\ owner' = NoThread /\ depth' = 0 /\ abandoned' = TRUE
           \/ /\ owner # Worker
              /\ UNCHANGED <<owner, depth, abandoned>>
        /\ UNCHANGED <<cancel, aborted>>
  /\ UNCHANGED <<build, m_running, started, disturbed, answer, joined,
                 deleted, sema>>

JoinCall(c) ==
  /\ ~joined /\ \A d \in Clients : client[d] # "join"
  /\ Calls(c, "idle", "join")
  /\ UNCHANGED <<workerVars, mutex, cancel, terminated, started, answer,
                 joined, deleted, sema>>

JoinReturnAtOnce(c) ==  \* mutant: join() does not wait
  /\ client[c] = "join"
  /\ client' = [client EXCEPT ![c] = "idle"]
  /\ joined' = TRUE
  /\ UNCHANGED <<workerVars, mutex, cancel, terminated, started, answer,
                 deleted, sema>>

JoinReturn(c) ==
  /\ client[c] = "join"
  /\ Ended
  /\ client' = [client EXCEPT ![c] = "idle"]
  /\ joined' = TRUE
  /\ UNCHANGED <<workerVars, mutex, cancel, terminated, started, answer,
                 deleted, sema>>

(* The destructor frees the semaphore and the mutex and waits for nothing. *)
(* Its caller knows that the thread ended from join(), or from isRunning() *)
(* that it has stopped, and that no other client uses the object.          *)
Delete(c) ==
  /\ \A d \in Clients : client[d] = "idle"
  /\ joined \/ answer[c] = "stopped"
  /\ ~deleted
  /\ deleted' = TRUE
  /\ UNCHANGED <<workerVars, mutex, cancel, terminated, started, client,
                 answer, joined, sema>>

Client(c) ==
  \/ Start(c) \/ StartNotify(c) \/ IsRunning(c) \/ IsRunningReturn(c)
  \/ Terminate(c) \/ JoinCall(c) \/ JoinReturn(c) \/ Delete(c)

Next ==
  /\ ~aborted
  /\ Runner \/ StartInterrupted \/ Cancelled \/ \E c \in Clients : Client(c)

(* Threads that can run do; run() returns and has cancellation points; a   *)
(* client that polls isRunning() does not keep the mutex from the thread   *)
(* for ever.                                                               *)
Fairness ==
  /\ WF_vars(Runner)
  /\ SF_vars(SetRunning("setTrue", "unlockTrue", TRUE))
  /\ SF_vars(SetRunning("setFalse", "unlockFalse", FALSE))
  /\ WF_vars(Cancelled)
  /\ \A c \in Clients :
       WF_vars(StartNotify(c) \/ IsRunningReturn(c) \/ JoinReturn(c))

Spec == Init /\ [][Next]_vars /\ Fairness

-----------------------------------------------------------------------------
TypeOK ==
  /\ worker \in Points
  /\ M!Consistent
  /\ {m_running, abandoned, aborted, cancel, terminated, started, disturbed,
      joined, deleted} \subseteq BOOLEAN
  /\ client \in [Clients -> {"idle", "start", "unlock", "join"}]
  /\ answer \in [Clients -> {"none", "false", "true", "stopped"}]
  /\ S!TypeOK

(* The thread executes nothing of the user's before start() ("The thread   *)
(* is constructed in suspended state. Caller has to start it by calling    *)
(* start() method.", Thread.h:51), unless a signal handler or a spurious   *)
(* wakeup has ended the wait: nobody looks at what wait() returned.        *)
RunsOnlyIfStarted ==
  worker \notin {"created", "waiting", "cancelled"} => started \/ disturbed

(* The thread uses its mutex and semaphore as long as it may: a client     *)
(* that has joined it, or has seen isRunning() go from true to false, can  *)
(* delete the object, terminate() or not.                                  *)
FreedAfterUse == deleted => Ended

(* After join() a thread that nobody terminated is not running, and a      *)
(* client that saw it stop is right.                                       *)
StoppedIsOver ==
  /\ joined /\ ~terminated => ~m_running
  /\ \A c \in Clients : answer[c] = "stopped" => ~m_running

(* A thread that was started executes to its end, or was terminated        *)
(* ("Start thread execution", Thread.h:62).  On Apple its semaphore may    *)
(* lose the notify().                                                      *)
StartedRuns == build # "apple" => (started ~> Ended \/ aborted)

(* terminate() ends the thread wherever it is, started or not, so that a   *)
(* join() returns.                                                         *)
TerminatedEnds == terminated ~> Ended \/ aborted

=============================================================================
