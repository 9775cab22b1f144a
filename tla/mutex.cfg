\* Three threads, two of which lock by hand; two of them may be terminated.
SPECIFICATION Spec
CONSTANTS
  Threads = {t1, t2, t3}
  NoThread = NoThread
  Manual = {t2, t3}
  Cancellable = {t1, t3}
  Builds = {"posix", "apple", "windows"}
  MaxDepth = 4
INVARIANTS TypeOK LocksAccounted TerminatedLeave
\* A thread terminated with the mutex locked by hand, or on Apple locked at
\* all, keeps it for ever.
CHECK_DEADLOCK FALSE
