\* Two threads on one server; one also reads, the other connects, closes and
\* deletes; the rest of the program opens and closes descriptors, and has closed
\* its standard input.
SPECIFICATION Spec
CONSTANTS
  Threads = {t1, t2}
  Users = {t2}
  Readers = {t1}
  Servers = {t1, t2}
  Objects = {o1, o2}
  Clients = {}
  NoObject = NoObject
  Elsewhere = Elsewhere
  NoThread = NoThread
  Fds = {0, 1}
  LineSizes = {1}
  MaxBacklog = 1
INVARIANTS TypeOK StrangersOnlyAfterClose NothingLost ServerSocketAlive
PROPERTIES AcceptReturns
\* Leaked descriptors may fill the table for good.
CHECK_DEADLOCK FALSE
