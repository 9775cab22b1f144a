\* Sema.h:49 "This method will block if semaphore's counter is zero."
SPECIFICATION Spec
CONSTANTS
  Threads = {w1, n1}
  NoThread = NoThread
  Builds = {"apple"}
  Waiters = {w1}
  Posters = {n1}
  Readers = {}
  Timeouts = {"forever"}
  Increments = {1}
  Initial = 0
  Interrupts = FALSE
  Garbage = {}
  MaxCount = 1
PROPERTIES BlocksOnlyOnZero
CHECK_DEADLOCK FALSE
