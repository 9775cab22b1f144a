----------------------------- MODULE TcpSocket ------------------------------
(***************************************************************************)
(* The ucxx::TcpSocket objects of a program (TcpSocket.h, TcpSocket.cpp),  *)
(* the threads that use them, and the table of the descriptors that the    *)
(* process has open.                                                       *)
(*                                                                         *)
(* m_socket is a number.  Closing the descriptor does not change m_socket, *)
(* and the system gives the number to whoever opens a descriptor next, so  *)
(* the table remembers for which object a descriptor was opened.  Every    *)
(* method reads m_socket under m_mutex and makes its system calls after    *)
(* the unlock, with the number it read; a method that calls isConnected()  *)
(* and then nativeSocket() is one step, because m_socket never goes back   *)
(* to "not connected" and so the first answer holds at the second.         *)
(*                                                                         *)
(* This is the POSIX build.  On Windows a SOCKET is unsigned: there        *)
(* isConnected() is true of INVALID_SOCKET (TcpSocket.cpp:26, 136), and    *)
(* the tests sock < 0 (TcpSocket.cpp:146, TcpServer.cpp:46) are never so.  *)
(*                                                                         *)
(* What a connection carries is left out, except how recv() ends in        *)
(* readLine().  So are the error flag and text and the peer's address,     *)
(* which no method reads to decide anything.                               *)
(***************************************************************************)
EXTENDS Integers, Sequences

CONSTANTS
  Threads,
  Users,        \* the threads that connect, close and delete TcpSocket objects
  Readers,      \* the threads that read and write
  Objects,      \* names for the TcpSocket objects, one each
  Clients,      \* the objects that the program makes with TcpSocket()
  NoObject,     \* stands for "no object"
  Elsewhere,    \* the part of the program that does not use ucxx
  Fds,          \* descriptor numbers that the process may have open at once
  LineSizes,    \* sizes that readLine() is called with
  MaxBacklog    \* bound: connections waiting at a listening socket

ASSUME SocketAssumption ==
  /\ Users \subseteq Threads
  /\ Readers \subseteq Threads
  /\ Clients \subseteq Objects
  /\ NoObject \notin Objects \cup {Elsewhere}
  /\ Elsewhere \notin Objects
  /\ Fds \subseteq Nat
  /\ LineSizes \subseteq Nat
  /\ MaxBacklog \in Nat

VARIABLES
  files,        \* files[f]: what descriptor f refers to
  life,         \* life[o]: "unused", "made" (its descriptor is), "alive" (and
                \* the program's), "serving" (the server's own), "deleted"
  m_socket,     \* m_socket[o]
  at,           \* at[t]: the call that t is in and its local variables
  returned,     \* history: <<o, f>>: o has closed f since it was opened for o
  harmed,       \* history: a descriptor was closed on behalf of another object
  lost          \* history: ways in which an open descriptor was forgotten

socketVars == <<files, life, m_socket, at, returned, harmed, lost>>

NoFd == -1

Free == [of |-> NoObject, kind |-> "free", timed |-> FALSE, backlog |-> 0]
Idle == [in |-> "idle", obj |-> NoObject, fd |-> NoFd, todo |-> <<>>, left |-> 0]

Init ==
  /\ files = [f \in Fds |-> Free]
  /\ life = [o \in Objects |-> IF o \in Clients THEN "alive" ELSE "unused"]
  /\ m_socket = [o \in Objects |-> NoFd]
  /\ at = [t \in Threads |-> Idle]
  /\ returned = {}
  /\ harmed = FALSE
  /\ lost = {}

-----------------------------------------------------------------------------
(* The system's side.                                                      *)

Kind(f) == IF f \in Fds THEN files[f].kind ELSE "free"
IsFor(f, o) == f \in Fds /\ files[f].of = o
Full == \A f \in Fds : Kind(f) # "free"

(* socket(), accept() and open() give the lowest number that is free.      *)
Lowest(f) == Kind(f) = "free" /\ \A g \in Fds : Kind(g) = "free" => f <= g

Opened(f, o, kind) ==
  /\ Lowest(f)
  /\ files' = [files EXCEPT ![f] = [Free EXCEPT !.of = o, !.kind = kind]]
  /\ returned' = returned \ {<<o, f>>}

(* shutdown() wakes whoever is blocked on the descriptor.                  *)
Shutdown(f) ==
  files' = [g \in Fds |->
              IF g = f /\ files[g].kind \in {"listening", "connected", "eof"}
              THEN [files[g] EXCEPT !.kind = "shut", !.backlog = 0]
              ELSE files[g]]

Closed(f, o) ==
  /\ files' = [g \in Fds |-> IF g = f THEN Free ELSE files[g]]
  /\ returned' = returned \cup ({<<o, f>>} \cap (Objects \X Fds))
  /\ harmed' = (harmed \/ ~(Kind(f) = "free" \/ IsFor(f, o)))

(* The other end of a connection closes it.                                *)
PeerCloses(f) ==
  /\ Kind(f) = "connected"
  /\ files' = [files EXCEPT ![f].kind = "eof"]
  /\ UNCHANGED <<life, m_socket, at, returned, harmed, lost>>

(* Somebody connects to a listening socket.                                *)
Arrives(f) ==
  /\ Kind(f) = "listening"
  /\ files[f].backlog < MaxBacklog
  /\ files' = [files EXCEPT ![f].backlog = @ + 1]
  /\ UNCHANGED <<life, m_socket, at, returned, harmed, lost>>

(* The rest of the program opens and closes descriptors of its own.        *)
OpenElsewhere(f) ==
  /\ Opened(f, Elsewhere, "other")
  /\ UNCHANGED <<life, m_socket, at, harmed, lost>>

CloseElsewhere(f) ==
  /\ Kind(f) = "other"
  /\ files' = [files EXCEPT ![f] = Free]
  /\ UNCHANGED <<life, m_socket, at, returned, harmed, lost>>

-----------------------------------------------------------------------------
(* Calls.                                                                  *)

In(t, phase) == at[t].in = phase /\ at[t].todo = <<>>
Ready(t) == In(t, "idle")

Go(t, phase, o, f, todo) ==
  at' = [at EXCEPT ![t] =
           [in |-> phase, obj |-> o, fd |-> f, todo |-> todo, left |-> 0]]
Returns(t) == at' = [at EXCEPT ![t] = Idle]

(* close() shuts the socket down and closes it; the destructor calls       *)
(* close() and then closes m_socket itself.                                *)
CloseCalls == <<"shutdown", "close">>
DestructorCalls == CloseCalls \o <<"close">>

(* The next system call of a close() or a destructor.                      *)
SystemCall(t) ==
  /\ at[t].todo # <<>>
  /\ at' = [at EXCEPT ![t].todo = Tail(@)]
  /\ \/ /\ Head(at[t].todo) = "shutdown"
        /\ Shutdown(at[t].fd)
        /\ UNCHANGED <<returned, harmed>>
     \/ /\ Head(at[t].todo) = "close"
        /\ Closed(at[t].fd, at[t].obj)
  /\ UNCHANGED <<life, m_socket, lost>>

Usable(t, o) == Ready(t) /\ life[o] = "alive"
IsConnected(o) == m_socket[o] > 0   \* of a signed number

Close(t, o) ==
  /\ Usable(t, o)
  /\ Go(t, "closing", o, m_socket[o], CloseCalls)
  /\ UNCHANGED <<files, life, m_socket, returned, harmed, lost>>

CloseReturn(t) ==
  /\ In(t, "closing")
  /\ Returns(t)
  /\ UNCHANGED <<files, life, m_socket, returned, harmed, lost>>

(* The program deletes an object that no other thread is using, and does   *)
(* not use it from then on.                                                *)
Delete(t, o) ==
  /\ Usable(t, o)
  /\ \A u \in Threads : at[u].obj # o
  /\ life' = [life EXCEPT ![o] = "deleted"]
  /\ Go(t, "deleting", o, m_socket[o], DestructorCalls)
  /\ UNCHANGED <<files, m_socket, returned, harmed, lost>>

DeleteReturn(t) ==
  /\ In(t, "deleting")
  /\ m_socket' = [m_socket EXCEPT ![at[t].obj] = NoFd]  \* it is no more
  /\ Returns(t)
  /\ UNCHANGED <<files, life, returned, harmed, lost>>

(* connectToHost() closes the connection it has, opens a socket, connects  *)
(* it and puts it in m_socket.                                             *)
Connect(t, o) ==
  /\ Usable(t, o)
  /\ Go(t, "connecting", o, m_socket[o],
        IF IsConnected(o) THEN CloseCalls ELSE <<>>)
  /\ UNCHANGED <<files, life, m_socket, returned, harmed, lost>>

ConnectOpen(t) ==
  /\ In(t, "connecting")
  /\ \/ /\ Full
        /\ Returns(t)
        /\ UNCHANGED <<files, returned>>
     \/ \E f \in Fds :
          /\ Opened(f, at[t].obj, "fresh")
          /\ Go(t, "connect", at[t].obj, f, <<>>)
  /\ UNCHANGED <<life, m_socket, harmed, lost>>

ConnectDone(t) ==
  /\ In(t, "connect")
  /\ Kind(at[t].fd) = "fresh"
  /\ files' = [files EXCEPT ![at[t].fd].kind = "connected"]
  /\ m_socket' = [m_socket EXCEPT ![at[t].obj] = at[t].fd]
  /\ lost' = lost \cup
       {why \in {"overwritten", "descriptor 0"} :
          LET f == m_socket[at[t].obj]
          IN  /\ IsFor(f, at[t].obj) /\ f # at[t].fd
              /\ why = "descriptor 0" <=> ~IsConnected(at[t].obj)}
  /\ Returns(t)
  /\ UNCHANGED <<life, returned, harmed>>

(* connect() fails: the new descriptor stays open and m_socket stays what  *)
(* it was.                                                                 *)
ConnectFails(t) ==
  /\ In(t, "connect")
  /\ lost' = lost \cup {"connect failed"}
  /\ Returns(t)
  /\ UNCHANGED <<files, life, m_socket, returned, harmed>>

(* readBuffer(), writeBuffer() and available(): one system call.           *)
Transfer(t, o) ==
  /\ Usable(t, o)
  /\ IsConnected(o)
  /\ Go(t, "transfer", o, m_socket[o], <<>>)
  /\ UNCHANGED <<files, life, m_socket, returned, harmed, lost>>

TransferReturn(t) ==
  /\ In(t, "transfer")
  /\ Returns(t)
  /\ UNCHANGED <<files, life, m_socket, returned, harmed, lost>>

(* readLine(size): left is size - length.                                  *)
ReadLine(t, o, size) ==
  /\ Usable(t, o)
  /\ IsConnected(o)
  /\ at' = [at EXCEPT ![t] = [in |-> "line", obj |-> o, fd |-> m_socket[o],
                              todo |-> <<>>, left |-> size]]
  /\ UNCHANGED <<files, life, m_socket, returned, harmed, lost>>

(* The loop condition, for a c that is not '\n'.                           *)
AnotherRound(t, left) ==
  IF left > 0 THEN at' = [at EXCEPT ![t].left = left] ELSE Returns(t)

(* recv() finds the connection closed by the other end or shut down by     *)
(* this one: it returns 0 and c stays what it was.                         *)
RecvNothing(t) ==
  /\ In(t, "line")
  /\ Kind(at[t].fd) \in {"eof", "shut"}
  /\ AnotherRound(t, at[t].left)
  /\ UNCHANGED <<files, life, m_socket, returned, harmed, lost>>

(* recv() gets a character: '\r' is not counted, '\n' ends the line.       *)
RecvChar(t) ==
  /\ In(t, "line")
  /\ Kind(at[t].fd) = "connected"
  /\ \/ AnotherRound(t, at[t].left - 1)
     \/ AnotherRound(t, at[t].left)
     \/ Returns(t)
  /\ UNCHANGED <<files, life, m_socket, returned, harmed, lost>>

(* recv() fails: the descriptor is closed or no connection, the peer has   *)
(* reset the connection or nothing came within SO_RCVTIMEO.                *)
RecvFails(t) ==
  /\ In(t, "line")
  /\ Kind(at[t].fd) \notin {"eof", "shut"}
  /\ Returns(t)
  /\ UNCHANGED <<files, life, m_socket, returned, harmed, lost>>

-----------------------------------------------------------------------------
SocketStep(t) ==
  \/ SystemCall(t) \/ CloseReturn(t) \/ DeleteReturn(t)
  \/ ConnectOpen(t) \/ ConnectDone(t) \/ ConnectFails(t)
  \/ TransferReturn(t)
  \/ RecvNothing(t) \/ RecvChar(t) \/ RecvFails(t)

SocketCall(o) ==
  \/ \E t \in Users : Close(t, o) \/ Delete(t, o) \/ Connect(t, o)
  \/ \E t \in Readers :
       Transfer(t, o) \/ \E size \in LineSizes : ReadLine(t, o, size)

Surroundings ==
  \E f \in Fds : \/ PeerCloses(f) \/ Arrives(f)
                 \/ OpenElsewhere(f) \/ CloseElsewhere(f)

(* The steps that a thread inside a call takes whatever the other end      *)
(* does: system calls that cannot block, and a recv() that has its answer. *)
SocketProgress(t) ==
  \/ SystemCall(t) \/ CloseReturn(t) \/ DeleteReturn(t)
  \/ ConnectOpen(t) \/ RecvNothing(t)
  \/ Kind(at[t].fd) # "connected" /\ RecvFails(t)

=============================================================================
