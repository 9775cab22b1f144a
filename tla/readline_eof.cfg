\* readLine() of a connection that the other end closes: TcpSocket.h:46
\* "Read from socket till EOL or socket error."
SPECIFICATION Spec
CONSTANTS
  Threads = {t1, t2}
  Users = {t2}
  Readers = {t1}
  Servers = {t1, t2}
  Objects = {o1, o2}
  Clients = {}
  NoObject = NoObject
  Elsewhere = Elsewhere
  NoThread = NoThread
  Fds = {1, 2}
  LineSizes = {1}
  MaxBacklog = 1
PROPERTIES LineReturns
CHECK_DEADLOCK FALSE
