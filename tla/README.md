# ucxx in TLA+

[ucxx](../src/README.md) is a small C++ library: a mutex, a semaphore, a blocking queue and threads
that look the same on Linux/POSIX, Apple and Windows, TCP sockets on top of them, and a variant
type with a binary serializer. This directory holds TLA+ models of the library, the configurations
that check them with TLC, and theorems about them checked by TLAPS. Paths below are relative to
`src/src/`.

The Windows, Apple and POSIX builds are three programs selected by `#ifdef`. Where they differ in
what another thread can see, one module covers them with a variable `build` that is chosen in `Init`
and never changes.

## 1. The system

| Component | State | Operations | Talks to |
|---|---|---|---|
| `Mutex`, `MutexLocker` (Mutex.h/.cpp) | the system's recursive mutex | `lock`, `unlock`, `tryLock`; a locker locks in its constructor, unlocks in its destructor | everything below locks it |
| `Semaphore` (Sema.h/.cpp) | POSIX: a `sem_t`. Apple: `m_count`, two mutexes, a condition. Windows: a system semaphore and a copy `m_count` of its counter | `wait(ms)`, `notify(n)`, `value()` | `Mutex` (Windows) |
| `Queue<T>` (Queue.h) | a `std::queue`, a `Mutex`, a `Semaphore` counting the items | `enqueue`, `dequeue`, `head`, `count`, `clear` | `Mutex`, `Semaphore`; its threads may be terminated by `Thread` |
| `Thread` (Thread.h/.cpp) | `m_running`, a `Mutex`, a start semaphore (not on Windows), the system thread | `start`, `isRunning`, `terminate`, `join`, destructor, `sleep`, priorities; the callback `run()` | `Mutex`, `Semaphore` |
| `TcpSocket` (TcpSocket.h/.cpp) | `m_socket`, a descriptor *number*; peer address; `Mutex` | `connectToHost`, `close`, destructor, `readBuffer`, `writeBuffer`, `available`, `readLine` | the descriptor table of the process |
| `TcpServer` (TcpServer.h/.cpp) | `m_pServerSocket`, a `TcpSocket` or null; `Mutex` | `listen`, `accept`, `close`, destructor | makes and deletes `TcpSocket`s |
| `Socket` (Socket.h/.cpp) | error flag and text, Winsock flag | `read`, `write` delegating to `TcpSocket` | `ByteArray` |
| `Variant` (Variant.h/.cpp) | a type tag and a union with an owned pointer | construction, assignment between types, `clear`, conversions; `string()`, `list()`, `map()` hand out references to what is inside | `StringUtils` |
| `ByteArraySerializer` (.h/.cpp) | a `ByteArray` and a read index | `pushValue`, `popValue`, recursive over lists and maps; `reset`, `initWith` | `Variant`, `ByteArray` |
| `ByteArray` (.h/.cpp) | a `std::vector<char>` | `append`, `slice`, `size`, element access | |
| `StringUtils` (.h/.cpp) | none | `trim`, text to number and back | |

What makes the library hard to test:

* **Interleavings.** `dequeue()` holds a token of the semaphore before it has the mutex; the Apple
  semaphore checks its counter and goes to sleep under different mutexes; the Windows semaphore
  keeps `m_count` beside the system's counter; every socket method uses the descriptor after the
  mutex is released; `listen()` checks, makes a socket and stores it without checking again.
* **Interruption.** Signal handlers end `sem_wait`, condition variables wake up for no reason,
  `Thread::terminate()` ends a thread in the middle of a critical section, and nobody looks at what
  `wait()` returned.
* **Numbers.** Deadlines carry nanoseconds over into seconds; descriptor numbers are given out
  again as soon as they are free.
* **Failure half way.** `popValue()` gives up in the middle of a list and leaves the index there;
  memory runs out in the middle of `pushValue()` and leaves half a value in the array, or between
  the change of a `Variant`'s type and its payload.
* **Aliases.** What is assigned to a `Variant` may be a part of it, or contain it.
* **Liveness.** No token lost, `clear()`, `join()`, `accept()` and timed waits return.

`PROJECT.json` lists each hazard at its line with the properties that cover it.

`Queue.h` does not compile as committed: it includes `Semaphore.h`, which does not exist (the file
is `Sema.h`), and has one `#endif` too few. The model is of the code as it is meant to be included.

## 2. Modules

| Module | Models | Correspondence |
|---|---|---|
| `Mutex` | `Mutex` | variables `owner`, `depth`; operators `Lock`, `Unlock` that other modules instantiate. A call that blocks is an action that is not enabled. |
| `MutexClient` | threads sharing a `Mutex` | one action per `MutexLocker` scope entered or left, `lock`, `tryLock`, `unlock`, and `Terminate`. The builds differ in what a terminated thread leaves: on Linux its lockers unlock, on Apple nothing does, Windows abandons the mutex |
| `Queue` | `Queue<T>`, POSIX build | a program counter per thread; a step reaches from one point where another thread can look to the next: the lock with the first access under it, any other access to `m_queue`, one semaphore call, or the unlock. So `front()` and `pop()` of a `dequeue()` are two steps |
| `FifoQueue` | abstract | what `Queue` promises: atomic append, take the first, drop all; nothing is taken from an empty queue unless a wait has ended without a token |
| `Semaphore` | abstract | what `Semaphore` promises: `wait` is true exactly when it took one token, and false after its timeout. The exceptions that the builds make are steps of it too: a signal handler, a wakeup |
| `Sema` | `Semaphore`, three builds | each critical section of the Apple build, each system call of the others, and each statement on `m_count` is a step |
| `Thread` | one `Thread` object, three builds | the system thread's `threadRunner` and the client's calls, over an instance of `Sema` (the start semaphore) and of `Mutex` |
| `Deadline` | timed `wait` and `sleep`, POSIX and Apple | the arithmetic on `timespec`, line by line, and the call that blocks until the deadline |
| `TcpSocket` | `TcpSocket` objects, POSIX build | the descriptor table, the system calls and a call record per thread; close and destructor are the sequences of system calls they make |
| `TcpServer` | a `TcpServer` and the sockets it makes, POSIX build | EXTENDS `TcpSocket`; the steps of `listen`, `accept`, `close` and the destructor. An `::accept()` has the timeout that its socket had when the call began (`AcceptBegins`, `untimed`) |
| `Serializer` | `ByteArraySerializer` and its `ByteArray` | `m_byteArray`, `m_index`; a step is one call of `pushValue()` or `popValue()` up to the next one that it makes for an element. The pending elements of a push are the list `todo`, the loops of `popList()` and `popMap()` under way are the stack `frames` |
| `ValueTape` | abstract | what `ByteArraySerializer` promises: values come out as they went in, in order, and an array that ends in the middle of a value is refused |
| `Variant` | `Variant` objects, those inside lists and maps included | `heap`: which payload is in which block of memory, and the cells in it; one action per kind of assignment, `clear()`, and insertion and removal of elements through `list()` and `map()` |
| `MCQueue`, `MCDeadline`, `MCValues` | — | symmetry sets, instants and values for TLC |
| `QueueProofs`, `SemaProofs`, `MutexProofs`, `DeadlineProofs`, `SerializerProofs`, `ThreadProofs`, `TcpServerProofs`, `VariantProofs` | — | theorems |

`Queue` and `Thread` instantiate `Mutex`; `Sema` does for the Windows build; `Thread` instantiates
`Sema`; `Queue` uses a counter for the POSIX semaphore, which is what `SemaImplementsSemaphore`
justifies; `TcpServer` extends `TcpSocket`. In the socket modules a critical section is one step,
except `TcpServer::close()`, which makes system calls under the lock and keeps it in `lock`.

`Serializer` takes `Variant`s as values, as `pushValue()` and `popValue()` do: the `Variant`s there are
local or belong to the caller, so that who owns which payload is a question for `Variant` alone. They are
what `std::map` and the types make of them (`IsVariant`: keys are strings in ascending order, a `bool` is
0 or 1), and no value is inside itself (`ValuesGrounded`). Bytes are numbers below `Base`, and the numbers
that the code writes are really split into bytes: what is read from the wrong place, or after a cut, is
what would be there. Undefined behaviour in `Variant` (freed memory or a null pointer is read) ends the
behaviour.

Operators marked *mutant* are not part of a specification. Each is a plausible mistake in the
definition below it, and shows that a property would notice it.

History variables are of four kinds. `overlapped`, `threw`, `undefined`, `disturbed`, `refused`, `harmed`
and `lost` record that something happened that the code cannot know of, so that a property can say what
holds until then; `unearned`, `stranded` and `doubled` count the tokens that went astray, and `unaware` is
the thread that owns a mutex without knowing it, so that an equation can be stated exactly; `returned`
remembers which objects have already closed which numbers; `written`, `rest`, `argument` and `begun` of
`Serializer` are what the refinement mapping needs to say which whole values are in the array. No action
changes the program's state because of them, except that `Queue` and `Variant` stop after undefined
behaviour.

## 3. What the runs check

| Run | Bounds | Shows |
|---|---|---|
| `queue_all` | 3 threads, overlapping roles, 2 distinguishable items, at most 2 in the queue; signals, two terminable threads | `OwnerHolds`: one owner, exactly inside a locker's scope. `TokensAccounted`: tokens and items differ by exactly the waits that a signal ended without a token and the tokens that a terminated `clear()` keeps. `NoUnderflow`: `dequeue()` takes from an empty queue only when there are more of the former. `ImplementsFifo`: what `front()` read is what `pop()` removes, and is what the atomic queue would give, first in first out; it is there unless a wait ended without a token. |
| `queue_live` | 2 producers, 1 thread that consumes, peeks and clears, 3 items; deadlock is checked | `HeadDefined`: `count()` before `head()` is enough for a sole consumer. `ItemsFlow`, `ClearReturns`. |
| `queue_clear_blocks` | 1 producer, 1 consumer, 1 clearer | **violated**: with a second consumer `clear()` deadlocks (Queue.h:82). |
| `sema` | 3 threads, counter up to 2, increments 0, 1, 2, three builds, signals | `ImplementsSemaphore` in all builds: true is exactly one token, and false without a timeout happens only after a signal handler on POSIX, or a wakeup that found no token on Apple. `TimedWaitReturns`. `ValueAccounted`: on Windows `m_count` falls short by exactly the tokens that were taken and not yet counted at the last `notify()` (Sema.cpp:161), and is right again after the next one, also after a `notify(0)` stored garbage. |
| `sema_apple_lost` | 2 threads | **violated**: the Apple build loses a `notify()` (Sema.cpp:73). |
| `thread` | 2 clients, 1 worker, three builds | `RunsOnlyIfStarted` unless a signal or spurious wakeup ended the wait; `FreedAfterUse`: after `join()`, or after `isRunning()` went from true to false, the object may be deleted; `StoppedIsOver`; `StartedRuns` (not on Apple, whose semaphore loses a notify); `TerminatedEnds`. |
| `mutex` | 3 threads, nesting up to 4, three builds | `LocksAccounted`: the mutex is held exactly as often as its owner believes, and once more by a thread that `tryLock()` on Windows made the owner and told otherwise. `TerminatedLeave`: what a terminated thread leaves locked in each build, and that only after a termination, on Windows, `lock()` aborts or `tryLock()` hides the mutex. |
| `deadline` | 15 instants around three second boundaries, 6 timeouts from 1 to 1999 ms | `TypeOK` (every deadline is a valid `timespec`), `NotEarly`, `Punctual`, however often signals restart the wait. |
| `deadline_apple` | as above | **violated**: Apple's `wait(500)` gives up after 0.5 ms (Sema.cpp:85). |
| `sockets` | 2 threads on one server, one of them also reading, the other connecting, closing and deleting; 2 objects, descriptors 0 and 1, 1 waiting connection | `StrangersOnlyAfterClose`: the first descriptor closed by mistake is always closed by a *repeated* close of a number; `NothingLost`: no descriptor leaks except by a failed `connect()`, by connecting a socket with descriptor 0 again (TcpSocket.cpp:136), or by overlapping calls; `ServerSocketAlive`: no double delete and no use after it; `AcceptReturns`: `accept()` returns, unless the descriptor that it had read was closed, belongs to the next listener by now, and `::accept()` began between its `::listen()` and `new TcpSocket` (TcpServer.cpp:65, 76), before it has a timeout. The run reaches that. |
| `values` | `Serializer`: bytes below 9, room for 12, five arguments (a bool, an int, a string of 82 characters where an unsigned ends at 80, a list with a list in it, a map with two keys), any sequence of pushes, pops, `reset()` and `initWith()` of parts; arrays that are torn or garbled are extended or cut again up to 4 bytes. `Variant`: 2 variables, 3 blocks, strings and lists of up to 2 elements, one plain type | `ReadsInside`: `m_index` never passes the end, where the number of available bytes would wrap around. `ImplementsTape`. `EachPayloadOwned`: no payload leaks or is freed twice, whatever is assigned to what and whichever allocation fails. `DefinedUnlessOverlap`: undefined behaviour comes only from an assignment between a `Variant` and a part of it, or from a `Variant` whose payload could not be allocated. `AssignmentCopies`: the target has the value of the source, and no step, inside a payload or not, changes the values of two variables. |
| `readline_eof` | as `sockets`, descriptors 1 and 2 | **violated**: `readLine()` never returns once the peer has closed (TcpSocket.cpp:191). |

**Why these bounds are enough.** Each hazard needs at most three actors: one that owns something, one that
is between two of its steps, and one that comes in between. Two items tell orders apart; a counter that
can reach 2 has a token for the owner and one for the thief; nesting to 4 lets two kinds of locks nest in
each other. In `deadline` the instants and timeouts contain all the cases of the carry: none, by the
milliseconds, by the clock's nanoseconds, exactly a second. In `sockets` two descriptors are the listening
one and the accepted one, and a third party (`OpenElsewhere`) competes for each number, so that every
number is reused by somebody else in some behaviour, and the table fills up. Two threads that connect the
same object at once, which `TcpSocket` allows and `NothingLost` names, do not occur with these bounds. In
`values` three blocks hold a list, what is in it and a third payload that is copied or assigned, and one
copy too many makes an allocation fail. String and list are the two kinds of payload, without and with
elements; a map differs from a list by its keys only, which own nothing. Lists in lists and maps make the
recursion of push and pop three deep, 12 bytes hold two values and the end of the memory falls on every
byte of each kind of value. The two models share no state; one run follows either, chosen in the initial
state. Every invariant and every refinement that a run checks is also a theorem, so that for these the
bounds do not matter (two theorems about the queue have hypotheses on the roles of the threads, and one
about the serializer on the length of lists, see below). The bounds matter for liveness.

**Where comments and code disagree.** Four runs show a violation of what a comment says. In four
more places the code does less than its comments say, and the property of a passing run
states the exception instead, exactly and no wider than the code makes it:
* `wait()` without a timeout returns false, "on timeout" by Sema.h:51, after a signal handler on POSIX and
  after a wakeup without a token on Apple (`ImplementsSemaphore`; `dequeue()` and `threadRunner()` ignore
  it, hence the exceptions of `NoUnderflow` and `RunsOnlyIfStarted`).
* `tryLock()` returns false, "if locked by another thread" by Mutex.h:51, to a thread to which Windows has
  just given an abandoned mutex (`LocksAccounted`, `TerminatedLeave`).
* A `MutexLocker` releases its mutex "when the locker's instance goes out of scope" (Mutex.h:71), but not
  when its thread is terminated on Apple or Windows (`TerminatedLeave`).
* `value()` is not the semaphore's counter (Sema.h:58) on Windows after a `notify()` that overtook a
  `wait()`, and after `notify(0)` (`ValueAccounted`).

Other properties hold only up to a first accident that the code allows: the reuse of a closed descriptor
(`StrangersOnlyAfterClose`), the leaks that `NothingLost` names, the overlaps and failed allocations of
`DefinedUnlessOverlap`, `threadRunner()` woken by a signal (`RunsOnlyIfStarted`). They say that there
is no *other* way for it to happen, not that it does not happen.

**Deadlock.** It is checked where the program has no reason to stop (`queue_live`, `sema`,
`values`). The other configurations switch it off and say why: a queue whose `clear()`
blocks, a mutex kept by a dead thread, a deleted `Thread`, a clock at its bound, a descriptor table
full of leaked descriptors, and the sleeper that Apple's semaphore forgets.

**Fairness.** Weak fairness of a thread's steps inside an operation, never of calling one: the system
schedules a thread that can run. `Thread` adds strong fairness for the worker's two attempts to get the
mutex, because a client may poll `isRunning()` for ever; this assumes of the system mutex that it does not
starve one thread, which POSIX leaves to the implementation. In the socket modules nothing forces a peer
to send, connect or close; a `recv()` that has nothing to return is not forced to return.
`TimedWaitReturns` and `AcceptReturns` assume that time passes. `Deadline` needs `WF(Expire)` only.

## 4. What is proved

All theorems hold for any values of the constants that satisfy the `ASSUME`s of the modules: any finite
set of threads, any roles, with and without signals and termination. Every invariant of a passing run is
stated by a theorem, and so are the three refinements, `ImplementsFifo`, `ImplementsSemaphore` and
`ImplementsTape`. Few of these invariants are inductive; what each proof adds is this.

**`QueueProofs`**: `TypeCorrect`, `MutualExclusion` (`OwnerHolds`), `EveryTokenAccounted`
(`TokensAccounted`), `QueueSafe` (`NoUnderflow`), `CountersStayEqual`, `HeadAfterCount` (`HeadDefined`),
`ClearNeverBlocks`, `QueueImplementsFifo`. All but `HeadAfterCount` rest on an equation that counts:
tokens in the semaphore, plus tokens in the hands of consumers that have not popped yet, plus items pushed
and not posted, plus rounds of a `clear()` under way, plus the tokens that terminated `clear()`s keep, are
the items plus the waits that ended without a token. `OwnerHolds` is needed to know that there is at most
one `clear()` under way, and that an item cannot go between the check of the loop and its reset. Each
action moves one thread between the sets that are counted (`TokensMove`, `UnpostedMove`).
* `CountersStayEqual` is the equation at rest, when nobody is in the middle: the counter and the
  items differ by these two numbers.
* `HeadAfterCount` assumes that a thread that calls `head()` is the only one that consumes or clears.
  It needs no assumption on signals or termination: they take tokens, not items (`HeadThere`).
* `ClearNeverBlocks` is the other side of the run `queue_clear_blocks`: when nobody else than the
  thread that clears dequeues, `clear()` finds a token for every item that it still waits for,
  whatever signals do, as long as no terminated `clear()` keeps tokens. It follows from the equation,
  because nobody else has tokens in hand.
* `QueueImplementsFifo` needs two invariants: that the item which `front()` read is still the first one when
  `pop()` removes it (`FrontKept`, for which `OwnerHolds` is needed), and `NoUnderflow`, because the
  abstract queue is found empty by a `dequeue()` only after a wait that ended without a token.

**`SemaProofs`**: `TypeCorrect`, `ValueReports` (`ValueAccounted`), `SemaImplementsSemaphore`. The
invariant `Bookkeeping` says what `m_count` will be from the moment `ReleaseSemaphore` has
reported the old counter until it is stored; `OwnerHolds` makes that moment unique. The
refinement (`Waiting` is the argument of a wait, `Disturbance` what has ended it early) needs `Places`:
only Apple's waits sleep, and only a POSIX wait without a timeout is given up after a signal.

**`MutexProofs`**: `MutexTyped` (`TypeOK`), `MutexAccounted` (`LocksAccounted`), `TerminatedLeft`
(`TerminatedLeave`), strengthened by `Remains`: a thread that uses only lockers has nothing locked by
hand, the dead have no scopes but on Apple, and only Windows abandons a mutex, after a termination.

**`ThreadProofs`**: `TypeCorrect`, `NeverRunsUnstarted` (`RunsOnlyIfStarted`), `DeletedAfterUse`
(`FreedAfterUse`), `StoppedStaysStopped` (`StoppedIsOver`), in the three builds. The invariant
relates the four parts of the object. `OwnerHolds`: who owns the mutex is in a `setRunning()` or an
`isRunning()`, once. `RunningTold`: where the system thread is, from `m_running`. `SemaphoreUsed`: only
the system thread waits on the start semaphore, only `start()` posts it, so that a token, or a
wakeup that is not spurious, means that `start()` was called; a step of `Sema` is reduced to what it does
to the counter and to the two parties (`WorkerSteps`). `EndKnown`: what a client may
have learnt from `join()` and `isRunning()` is true. `FreedAfterUse` follows because who has ended
has left the mutex, also when it was cancelled inside `setRunning()`.

**`DeadlineProofs`**: `DeadlinesValid` (`TypeOK`), `DeadlinesKept` (`NotEarly`), for every clock reading and
timeout. `AddedExact` shows that a deadline is the reading plus exactly the timeout in
milliseconds, and `ElapsedMonotone` that no millisecond is lost as the clock goes on.

**`TcpServerProofs`**: `SocketsTyped` (`TypeOK`), `FirstHarmByClose` (`StrangersOnlyAfterClose`),
`ServerSocketKept` (`ServerSocketAlive`), `DescriptorsKept` (`NothingLost`), for any number of threads,
objects and descriptors. The invariant says of each phase of a call in which life the object is
that it works on (`CallsOnTheLiving`), and that an object under construction is known to one call only;
`StoppingReleases` that `close()`, which keeps the lock, has closed the descriptor of the server's
socket before it deletes the object. `NothingLost` lets any call that has the number keep the
descriptor; inductive is only that it is kept by an object, or by a call that is still going to store
or close it (`Claimed`). `TypeOK` includes that only a thread inside `::accept()` is `untimed` (`Waiting`).

**`SerializerProofs`**: `ReaderStaysInside` (`ReadsInside`), `SerializerTyped` (`SerializerTypeOK`) and
`SerializerIsTape` (`ImplementsTape`), for any bytes, any sizes of the types and any memory below the
range of an unsigned. The invariant `Inside` adds that the array and the values to be written are bytes:
the length that `popString()` reads must be a number. Each read was allowed by a comparison with `size() -
m_index` (`ReadAllowed`, `SignatureAllowed`), which means what it should because the index was inside
before. The types need an invariant of the recursion: every frame of a `popList()` or `popMap()` below the
top one has a value left to read, which the one above it will be (`Stack`, `Asking`). `SerializerIsTape`
relates two recursions over a value nested to any depth, the one that wrote and the one that reads, and
the bytes between them, without an induction over values:
* `Lay(a, p, s, q, t)`: between the places `p` and `q` of the array `a` are the bytes that
  `pushValue()` writes while its list of values still to be written goes from `s` to `t`, as far as the
  array goes. It is the existence of the states in between, so that it can be extended at the end
  (`LayLast`, a push), taken apart at the beginning (`LayFirst`, a pop) and moved (`LayMoved`,
  `initWith()`).
* `Expects(v, frames, r)`: with these `popList()` and `popMap()` under way, `r` is what has to follow
  so that the outermost `popValue()` delivers `v`. Each step of a pop that reads the first of `r`
  leaves the rest expected, or has read `v` (`PopStepReads`).
* The invariant `Laid`: every whole value is laid between the ends of the one before it and its own,
  a torn one is laid beyond the end of the array, and while a pop that began at one of these places is
  under way, what it expects is laid from `m_index` to the end of that value. A pop that began elsewhere
  may find anything, and the tape promises nothing of it.

`Kept`, what is left of a value after its strings are cut, is a recursive function; as no value is inside
itself, it has one solution (`KeptIs`), for the reason given for `Contents` below. The theorem assumes
`AllShort`: lists and maps have fewer elements, and keys of maps fewer characters, than an `unsigned` has
values. Of longer ones the code writes a number that is cut (ByteArraySerializer.cpp:247, 257), or two
keys that have become equal, and what is read is another value; strings elsewhere may have any length,
they are cut and read back as they were cut. The constants of the run satisfy it.

**`VariantProofs`**: `VariantTyped` (`VariantTypeOK`), `PayloadsOwned` (`EachPayloadOwned`),
`UndefinedNeedsOverlap` (`DefinedUnlessOverlap`), `VariablesShareNothing`, `AssignedIsACopy`,
`CopiesAreEqual` (`AssignmentCopies`), `ValuesChangeFromWithin`, for any memory and any size of lists. The
payloads are a forest: no block is pointed to twice (`Tidy`, `Sole`), every block in use is pointed to by
a cell of its type (`KeptBut`, `Fits`), and in any set of blocks there is one that is not inside another
of the set, so that there are no circles (`Rooted`), and one that none of the set is inside of, so that no
nesting is endless (`Grounded`). That is stated with a set of *orphans*, which nothing points to and which
is empty between two assignments, because inside of an assignment there are some: `clear()` has deleted
what belonged to the target, a copy has been made and is not stored yet. Every assignment is composed of
three changes, each of which has a lemma of its own about the forest and its orphans: the cells of one
block are replaced (`PutForest`), what a cell owns is freed, and what a payload owns is copied into free
blocks. What is read after `clear()` is there because nothing that the target owned belongs to the source
(`OwnedApart` and what follows it), unless they overlapped; and that a `Variant` with a type and no
payload comes only from a failed allocation is part of the invariant (`BrokenAfter`). `CopiesAreEqual` and
`ValuesChangeFromWithin` rest on two theorems that speak of blocks instead of the values in them.
`VariablesShareNothing`: each step writes to what belongs to one block or variable and to free blocks
(`Confined`), and that overlaps with what belongs to one variable at most (`VariablesApart`).
`AssignedIsACopy`: after an assignment between `Variant`s that are not parts of one another, the payload
of the target is the image of that of the source under a bijection that keeps types, order and pointers
(`IsCopy`), or there was no memory for it. From blocks to values: `Contents` is a recursive function, and
an induction over the nesting is out of the provers' reach, but `Grounded` does the same. There is one
solution of the equation of `Contents` (`SolutionExists`: the solutions on smaller sets agree, and so
their union is one; among the blocks outside of it would be one with all its parts inside) and no second
one (`SolutionsAgree`: take a block where two differ, with all its parts where they agree); and in the
same way what is copied block by block has the same contents (`AlikeContents`). For these proofs `Owned`,
what a payload consists of, is the least set that is closed under what the cells point to, instead of a
recursion.

**Only model-checked**: `ItemsFlow`, `ClearReturns`, `TimedWaitReturns`, `StartedRuns`, `TerminatedEnds`,
`Punctual` and `AcceptReturns`: fairness and ENABLED are out of the prover's reach. What is false of the
code (the four runs that expect a violation) is of course not proved either. **Only proved** are
`CountersStayEqual`, `ClearNeverBlocks`, `VariablesShareNothing`, `AssignedIsACopy` and
`ValuesChangeFromWithin`: they say more of the same than a property of a run, or quantify over steps in a
way that takes TLC too long.

## 5. What is not modelled

* Priorities (Thread.cpp:164-234): constants handed to Windows, and nothing elsewhere.
* What the sockets carry, `hostNameToIp`, peer addresses, the error flag and text: no control
  depends on them. `close(Stream)` of one direction closes the descriptor all the same; the models
  do not tell the directions apart.
* The Windows build of the sockets: there `SOCKET` is unsigned, so that `isConnected()` is true of
  `INVALID_SOCKET` and `sock < 0` never is (TcpSocket.cpp:26, 136, 146; TcpServer.cpp:46).
* `pthread_cancel` on Apple during an operation of `Queue`, which is modelled over the POSIX semaphore
  on Linux: a mutex would stay locked as `TerminatedLeave` says.
* A clock that is set: both timed calls are on `CLOCK_REALTIME` and move with it.
* `Queue` over the Apple and Windows semaphores. By `SemaImplementsSemaphore` the safety results do
  not depend on the build as long as a wait is true; on Apple a stolen token makes `wait()` return
  false, which for the queue is what an interrupted `sem_wait` is on POSIX, and the lost `notify()`
  of `sema_apple_lost` would strand an item.
* Undefined behaviour after `Queue` reads an empty `std::queue`: the model stops.
* Descriptors from FD_SETSIZE on, which `FD_SET()` in `accept()` writes outside its set.
* Destroying a `Mutex`, `Semaphore` or `Queue` that is in use.
* The conversions of `Variant` (`toBoolean()`, `toInteger()`, `toReal()`, `toString()`) and
  `StringUtils`: functions from one value to another without state or control of their own; what a
  text or a number becomes is up to the stream library. `stringToNumber()` returns an
  uninitialized number for a text without one before C++11 (StringUtils.h:65).
* Temporary `Variant`s, which nothing else refers to; memory that runs out half way through
  `std::list`'s and `std::map`'s own assignment; memory that runs out in `popValue()`.
* `ByteArray`: indexes out of bounds, which are undefined, and `clear()`, `operator []` and `data()`.
* `Socket`: `read()` and `write()` delegate to `TcpSocket`; the error text decides nothing.

## 6. Plan

Done, in this order: queue, mutex, semaphore, thread, deadlines, sockets and server, serializer,
variants, and the theorems above.

Next:
* `Queue` composed with `Sema` for the Apple build, instead of a counter.
