\* The three builds: waits with and without timeout, signal handlers and
\* spurious wakeups.
SPECIFICATION Spec
CONSTANTS
  Threads = {w1, w2, n1}
  NoThread = NoThread
  Builds = {"posix", "apple", "windows"}
  Waiters = {w1, w2}
  Posters = {n1, w2}
  Readers = {n1}
  Timeouts = {"timed", "forever"}
  Increments = {0, 1, 2}
  Initial = 1
  Interrupts = TRUE
  Garbage = {7}
  MaxCount = 2
INVARIANTS TypeOK ValueAccounted
PROPERTIES ImplementsSemaphore TimedWaitReturns
