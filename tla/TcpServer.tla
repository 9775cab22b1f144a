----------------------------- MODULE TcpServer ------------------------------
(***************************************************************************)
(* One ucxx::TcpServer (TcpServer.h, TcpServer.cpp), the threads that call *)
(* its listen(), accept() and close(), and the TcpSocket objects it makes: *)
(* one that listens, and one for each connection it accepts, which the     *)
(* program then uses and deletes as it does its own.                       *)
(*                                                                         *)
(* m_pServerSocket is read and written under m_mutex.  accept() takes the  *)
(* descriptor out of it under the lock (isListening() and nativeSocket()   *)
(* are one step: the second answers -1 where the first would have answered *)
(* false) and makes its system calls afterwards; close() keeps the lock    *)
(* until the object is deleted; listen() looks whether the server listens  *)
(* before it makes the socket and does not look again.  This is the POSIX  *)
(* build, as in TcpSocket.tla.                                             *)
(***************************************************************************)
EXTENDS TcpSocket

CONSTANTS
  Servers,      \* the threads that call the server
  NoThread

ASSUME ServerAssumption ==
  /\ Servers \subseteq Threads
  /\ NoThread \notin Threads

VARIABLES
  m_pServerSocket,  \* the object that listens, or NoObject
  lock,             \* the thread that keeps m_mutex for more than one step
  gone,             \* the destructor has been called
  untimed           \* the threads in an ::accept() that has no timeout

serverVars == <<m_pServerSocket, lock, gone>>
vars == <<socketVars, serverVars, untimed>>

ServerInit ==
  /\ Init
  /\ m_pServerSocket = NoObject
  /\ lock = NoThread
  /\ gone = FALSE
  /\ untimed = {}

Callable(t) == Ready(t) /\ ~gone

-----------------------------------------------------------------------------
(* listen() goes on only if the server does not listen yet.                *)
Listen(t) ==
  /\ Callable(t)
  /\ lock = NoThread
  /\ m_pServerSocket = NoObject
  /\ Go(t, "listen", NoObject, NoFd, <<>>)
  /\ UNCHANGED <<files, life, m_socket, returned, harmed, lost, serverVars,
                 untimed>>

ListenOpen(t) ==
  /\ In(t, "listen")
  /\ \/ /\ Full
        /\ Returns(t)
        /\ UNCHANGED <<files, life, returned>>
     \/ \E f \in Fds, o \in Objects :
          /\ life[o] = "unused"
          /\ life' = [life EXCEPT ![o] = "made"]
          /\ Opened(f, o, "fresh")
          /\ Go(t, "bind", o, f, <<>>)
  /\ UNCHANGED <<m_socket, harmed, lost, serverVars, untimed>>

(* ::bind() and ::listen(); when one fails the descriptor is closed.       *)
BindFailsOpen(t) ==  \* mutant: the descriptor is not closed
  /\ In(t, "bind")
  /\ \/ /\ Kind(at[t].fd) = "fresh"
        /\ files' = [files EXCEPT ![at[t].fd].kind = "listening"]
        /\ Go(t, "listening", at[t].obj, at[t].fd, <<>>)
     \/ /\ Go(t, "failing", at[t].obj, at[t].fd, <<>>)
        /\ UNCHANGED files
  /\ UNCHANGED <<life, m_socket, returned, harmed, lost, serverVars,
                 untimed>>

Bind(t) ==
  /\ In(t, "bind")
  /\ \/ /\ Kind(at[t].fd) = "fresh"
        /\ files' = [files EXCEPT ![at[t].fd].kind = "listening"]
        /\ Go(t, "listening", at[t].obj, at[t].fd, <<>>)
     \/ /\ Go(t, "failing", at[t].obj, at[t].fd, <<"close">>)
        /\ UNCHANGED files
  /\ UNCHANGED <<life, m_socket, returned, harmed, lost, serverVars,
                 untimed>>

ListenFails(t) ==
  /\ In(t, "failing")
  /\ life' = [life EXCEPT ![at[t].obj] = "unused"]
  /\ Returns(t)
  /\ UNCHANGED <<files, m_socket, returned, harmed, lost, serverVars,
                 untimed>>

(* new TcpSocket(sock), which gives the descriptor a timeout of one second *)
(* for recv() and, on a listening socket, for accept().                    *)
ConstructNoTimeout(o, f) ==  \* mutant: without the timeout
  /\ m_socket' = [m_socket EXCEPT ![o] = f]
  /\ UNCHANGED files

Construct(o, f) ==
  /\ m_socket' = [m_socket EXCEPT ![o] = f]
  /\ files' = [g \in Fds |-> IF g = f /\ Kind(f) # "free"
                             THEN [files[g] EXCEPT !.timed = TRUE]
                             ELSE files[g]]

ListenDone(t) ==
  /\ In(t, "listening")
  /\ lock = NoThread
  /\ Construct(at[t].obj, at[t].fd)
  /\ life' = [life EXCEPT ![at[t].obj] = "serving"]
  /\ m_pServerSocket' = at[t].obj
  /\ lost' = lost \cup {why \in {"listen overtaken"} : m_pServerSocket # NoObject}
  /\ Returns(t)
  /\ UNCHANGED <<returned, harmed, lock, gone, untimed>>

-----------------------------------------------------------------------------
(* accept() waits for a connection in select(), for a second at most, and  *)
(* takes it with ::accept().                                               *)
Accept(t) ==
  /\ Callable(t)
  /\ lock = NoThread
  /\ m_pServerSocket # NoObject
  /\ Go(t, "select", m_pServerSocket, m_socket[m_pServerSocket], <<>>)
  /\ UNCHANGED <<files, life, m_socket, returned, harmed, lost, serverVars,
                 untimed>>

(* select() times out, is interrupted or fails; or finds that ::accept()   *)
(* has a connection to take.  Of a descriptor that does not listen it may  *)
(* say anything.                                                           *)
Select(t) ==
  /\ In(t, "select")
  /\ \/ Returns(t)
     \/ /\ Kind(at[t].fd) # "free"
        /\ Kind(at[t].fd) = "listening" => files[at[t].fd].backlog > 0
        /\ Go(t, "accept", at[t].obj, at[t].fd, <<>>)
  /\ UNCHANGED <<files, life, m_socket, returned, harmed, lost, serverVars,
                 untimed>>

(* new TcpSocket(clientSock).                                              *)
WrapListener(t, o, f) ==  \* mutant: new TcpSocket(sock)
  Go(t, "accepted", o, at[t].fd, <<>>)

Wrap(t, o, f) == Go(t, "accepted", o, f, <<>>)

(* SO_RCVTIMEO counts for the calls that begin after it is set: a call     *)
(* that finds a socket between ::listen() and new TcpSocket() has none,    *)
(* whatever is set later.                                                  *)
AcceptBegins(t) ==
  /\ In(t, "accept")
  /\ Go(t, "accepting", at[t].obj, at[t].fd, <<>>)
  /\ untimed' = untimed \cup
       {u \in {t} : Kind(at[t].fd) = "listening" /\ ~files[at[t].fd].timed}
  /\ UNCHANGED <<files, life, m_socket, returned, harmed, lost, serverVars>>

AcceptTakes(t) ==
  /\ In(t, "accepting")
  /\ Kind(at[t].fd) = "listening"
  /\ files[at[t].fd].backlog > 0
  /\ \E f \in Fds, o \in Objects :
       /\ life[o] = "unused"
       /\ life' = [life EXCEPT ![o] = "made"]
       /\ Lowest(f)
       /\ files' = [files EXCEPT
                      ![at[t].fd].backlog = @ - 1,
                      ![f] = [Free EXCEPT !.of = o, !.kind = "connected"]]
       /\ returned' = returned \ {<<o, f>>}
       /\ Wrap(t, o, f)
  /\ untimed' = untimed \ {t}
  /\ UNCHANGED <<m_socket, harmed, lost, serverVars>>

(* ::accept() fails at once on a descriptor that does not listen, when     *)
(* there is no descriptor left, when shutdown() wakes it, and when its     *)
(* timeout is over; without a timeout it goes on, even if its descriptor   *)
(* is closed meanwhile.                                                    *)
AcceptFails(t) ==
  /\ In(t, "accepting")
  /\ t \notin untimed \/ Full
  /\ Returns(t)
  /\ untimed' = untimed \ {t}
  /\ UNCHANGED <<files, life, m_socket, returned, harmed, lost, serverVars>>

(* shutdown() ends every ::accept() that waits on the descriptor.          *)
Wakes(t) ==
  untimed' = IF at[t].todo # <<>> /\ Head(at[t].todo) = "shutdown"
             THEN {u \in untimed : at[u].fd # at[t].fd}
             ELSE untimed

AcceptDone(t) ==
  /\ In(t, "accepted")
  /\ Construct(at[t].obj, at[t].fd)
  /\ life' = [life EXCEPT ![at[t].obj] = "alive"]
  /\ Returns(t)
  /\ UNCHANGED <<returned, harmed, lost, serverVars,
                 untimed>>

-----------------------------------------------------------------------------
(* close(): m_pServerSocket->close(), then its destructor, under the lock. *)
ServerCloseUnlocked(t) ==  \* mutant: without the MutexLocker
  /\ Callable(t)
  /\ m_pServerSocket # NoObject
  /\ Go(t, "stopping", m_pServerSocket, m_socket[m_pServerSocket],
        CloseCalls \o DestructorCalls)
  /\ UNCHANGED <<files, life, m_socket, returned, harmed, lost, serverVars,
                 untimed>>

ServerClose(t) ==
  /\ Callable(t)
  /\ lock = NoThread
  /\ m_pServerSocket # NoObject
  /\ lock' = t
  /\ Go(t, "stopping", m_pServerSocket, m_socket[m_pServerSocket],
        CloseCalls \o DestructorCalls)
  /\ UNCHANGED <<files, life, m_socket, returned, harmed, lost,
                 m_pServerSocket, gone, untimed>>

ServerClosed(t) ==
  /\ In(t, "stopping")
  /\ life' = [life EXCEPT ![at[t].obj] = "deleted"]
  /\ m_socket' = [m_socket EXCEPT ![at[t].obj] = NoFd]  \* it is no more
  /\ m_pServerSocket' = NoObject
  /\ lock' = NoThread
  /\ Returns(t)
  /\ UNCHANGED <<files, returned, harmed, lost, gone, untimed>>

(* The destructor, called when no other thread is in a call on the server, *)
(* deletes the socket without the lock.                                    *)
ServerCalls == {"listen", "bind", "failing", "listening", "select", "accept",
                "accepting", "accepted", "stopping"}

ServerDestroyed(t) ==
  /\ Callable(t)
  /\ \A u \in Threads : at[u].in \notin ServerCalls
  /\ gone' = TRUE
  /\ \/ m_pServerSocket = NoObject /\ UNCHANGED <<at, life>>
     \/ /\ m_pServerSocket # NoObject
        /\ life' = [life EXCEPT ![m_pServerSocket] = "deleted"]
        /\ Go(t, "deleting", m_pServerSocket, m_socket[m_pServerSocket],
              DestructorCalls)
  /\ UNCHANGED <<files, m_socket, returned, harmed, lost,
                 m_pServerSocket, lock, untimed>>

-----------------------------------------------------------------------------
ServerStep(t) ==
  \/ ListenOpen(t) \/ Bind(t) \/ ListenFails(t) \/ ListenDone(t)
  \/ Select(t) \/ AcceptBegins(t) \/ AcceptTakes(t) \/ AcceptFails(t)
  \/ AcceptDone(t) \/ ServerClosed(t)

ServerCall(t) ==
  Listen(t) \/ Accept(t) \/ ServerClose(t) \/ ServerDestroyed(t)

Next ==
  \/ \E t \in Threads : SocketStep(t) /\ Wakes(t) /\ UNCHANGED serverVars
  \/ \E o \in Objects : SocketCall(o) /\ UNCHANGED <<serverVars, untimed>>
  \/ \E t \in Servers : ServerStep(t) \/ ServerCall(t)
  \/ Surroundings /\ UNCHANGED <<serverVars, untimed>>

(* A call that has begun goes on: a thread, in one call at a time, is      *)
(* scheduled again and again, and system calls that cannot block return.   *)
(* Nothing makes a peer send, connect or close, or the program call.       *)
Fairness ==
  \A t \in Threads :
    WF_vars(ServerStep(t) \/ (SocketProgress(t) /\ Wakes(t) /\ UNCHANGED serverVars))

Spec == ServerInit /\ [][Next]_vars /\ Fairness

-----------------------------------------------------------------------------
Calls == {"idle", "closing", "deleting", "connecting", "connect", "transfer",
          "line"} \cup ServerCalls
Kinds == {"free", "fresh", "listening", "connected", "eof", "shut", "other"}

TypedState ==
  /\ files \in [Fds -> [of : Objects \cup {NoObject, Elsewhere}, kind : Kinds,
                        timed : BOOLEAN, backlog : 0 .. MaxBacklog]]
  /\ \A f \in Fds : files[f].kind = "free" <=> files[f].of = NoObject
  /\ life \in [Objects -> {"unused", "made", "alive", "serving", "deleted"}]
  /\ m_socket \in [Objects -> Fds \cup {NoFd}]
  /\ at \in [Threads -> [in : Calls, obj : Objects \cup {NoObject},
                         fd : Fds \cup {NoFd}, todo : Seq({"shutdown", "close"}),
                         left : Nat]]
  /\ returned \subseteq Objects \X Fds
  /\ harmed \in BOOLEAN
  /\ lost \subseteq {"overwritten", "descriptor 0", "connect failed",
                     "listen overtaken"}
  /\ m_pServerSocket \in Objects \cup {NoObject}
  /\ lock \in Servers \cup {NoThread}
  /\ \A t \in Threads : at[t].in = "stopping" <=> lock = t
  /\ gone \in BOOLEAN

TypeOK == TypedState /\ untimed \subseteq {t \in Servers : at[t].in = "accepting"}

(* Where a descriptor number leads astray.  The numbers that objects and   *)
(* the threads inside a call keep refer to the descriptor that was opened  *)
(* for the object, unless the object has already closed that number, until *)
(* the first time somebody closes a descriptor of another object: so the   *)
(* first descriptor closed by mistake is closed by one of the repeated     *)
(* ::close() of close() and ~TcpSocket() (TcpSocket.cpp:49-53, 129).       *)
Keeps(o, f) == f \in Fds => IsFor(f, o) \/ <<o, f>> \in returned

StrangersOnlyAfterClose ==
  ~harmed =>
    /\ \A o \in Objects : life[o] \in {"alive", "serving"} => Keeps(o, m_socket[o])
    /\ \A t \in Threads : at[t].in # "idle" => Keeps(at[t].obj, at[t].fd)

(* No descriptor leaks: each one that was opened for an object is the      *)
(* m_socket of an object that can still be closed, or belongs to a call    *)
(* under way, as long as no connect() fails (connectToHost() then leaves   *)
(* the new socket open, TcpSocket.cpp:161), no socket with descriptor 0 is *)
(* connected again (isConnected() says that it is not and nothing closes   *)
(* it, TcpSocket.cpp:136), no two threads connect one object and no two    *)
(* threads listen at once.                                                 *)
NothingLost ==
  lost = {} =>
    \A f \in Fds : files[f].of \in Objects =>
      \/ /\ life[files[f].of] \in {"alive", "serving"}
         /\ m_socket[files[f].of] = f
      \/ \E t \in Threads : at[t].obj = files[f].of /\ at[t].fd = f

(* The mutex protects the server's socket object ("Protective mutex",      *)
(* TcpServer.h:42): whoever gets m_pServerSocket under the lock gets an    *)
(* object that is there, the thread that closes it is the only one, and    *)
(* it is deleted once.                                                     *)
ServerSocketAlive ==
  /\ ~gone /\ m_pServerSocket # NoObject => life[m_pServerSocket] = "serving"
  /\ \A t \in Threads : at[t].in = "stopping" => at[t].obj = m_pServerSocket

(* accept() returns although another thread may have taken the connection  *)
(* that its select() announced, or closed the server: its ::accept() ends  *)
(* after the timeout that the constructor gave the socket.  The exception  *)
(* is a thread whose descriptor was closed (TcpServer.cpp:131) and opened  *)
(* again by another listen(): its ::accept() may begin before the timeout  *)
(* is set (TcpServer.cpp:65, 76) and waits until somebody connects.        *)
AcceptReturns ==
  \A t \in Servers :
    at[t].in \in {"select", "accept", "accepting", "accepted"} ~>
      \/ at[t].in = "idle"
      \/ t \in untimed /\ ~IsFor(at[t].fd, at[t].obj)

(* "Read from socket till EOL or socket error" (TcpSocket.h:46): a         *)
(* readLine() whose peer has closed the connection returns.                *)
LineReturns ==
  \A t \in Readers :
    (at[t].in = "line" /\ Kind(at[t].fd) = "eof") ~> (at[t].in = "idle")

=============================================================================
