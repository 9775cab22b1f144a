--------------------------- MODULE TcpServerProofs ---------------------------
(***************************************************************************)
(* Theorems about TcpServer and the TcpSocket objects of a program, for    *)
(* any number of threads, objects and descriptors.                         *)
(***************************************************************************)
EXTENDS TcpServer, SequenceTheorems, TLAPS

(* What a call works on: an object of the life that the call needs, which  *)
(* the other threads cannot take away.                                     *)
Making == {"bind", "failing", "listening", "accepted"}

CallsOnTheLiving ==
  /\ \A t \in Threads :
       /\ at[t].in = "listen" => at[t].fd = NoFd
       /\ at[t].in \notin {"idle", "listen"} => at[t].obj \in Objects
       /\ at[t].todo # <<>> =>
            /\ at[t].in \in {"closing", "deleting", "connecting", "failing",
                            "stopping"}
            /\ at[t].todo[Len(at[t].todo)] = "close"
       /\ at[t].in \in {"closing", "connecting", "connect", "transfer", "line"} =>
            life[at[t].obj] = "alive"
       /\ at[t].in \in Making => life[at[t].obj] = "made"
       /\ at[t].in = "deleting" => life[at[t].obj] = "deleted"
       /\ at[t].in \in ServerCalls => ~gone
  /\ \A t, u \in Threads :
       at[t].in \in Making /\ at[u].in \in Making /\ at[t].obj = at[u].obj => t = u

(* A descriptor of the rest of the program belongs to nobody else.         *)
OthersElsewhere == \A f \in Fds : files[f].kind = "other" => files[f].of = Elsewhere

(* close() holds the lock on the object that it closes, and has released   *)
(* its descriptor when it has no system call left to make.                 *)
StoppingReleases ==
  \A t \in Threads : at[t].in = "stopping" =>
    /\ at[t].fd = m_socket[at[t].obj]
    /\ at[t].todo = <<>> => ~IsFor(at[t].fd, at[t].obj)

(* Who is bound to close a descriptor: the object that has it in m_socket, *)
(* or a call that will put it there or close it.                           *)
KeptBy(o, f) == life[o] \in {"alive", "serving"} /\ m_socket[o] = f
CarriedBy(t, o, f) ==
  /\ at[t].obj = o /\ at[t].fd = f
  /\ \/ at[t].in \in {"connect", "bind", "listening", "accepted"}
     \/ at[t].in \in {"failing", "deleting"} /\ at[t].todo # <<>>

Claimed ==
  lost = {} =>
    \A f \in Fds : files[f].of \in Objects =>
      \/ KeptBy(files[f].of, f)
      \/ \E t \in Threads : CarriedBy(t, files[f].of, f)

ServerInv ==
  /\ TypedState /\ CallsOnTheLiving /\ OthersElsewhere /\ ServerSocketAlive
  /\ StrangersOnlyAfterClose /\ StoppingReleases /\ Claimed

-----------------------------------------------------------------------------
CallRecords == [in : Calls, obj : Objects \cup {NoObject}, fd : Fds \cup {NoFd},
                todo : Seq({"shutdown", "close"}), left : Nat]

FileRecords == [of : Objects \cup {NoObject, Elsewhere}, kind : Kinds,
                timed : BOOLEAN, backlog : 0 .. MaxBacklog]

FilesTyped ==
  /\ files \in [Fds -> FileRecords]
  /\ \A f \in Fds : files[f].kind = "free" <=> files[f].of = NoObject

LEMMA CallTyped ==
  /\ Idle \in CallRecords
  /\ \A r \in CallRecords :
       /\ \A n \in Nat : [r EXCEPT !.left = n] \in CallRecords
       /\ \A s \in Seq({"shutdown", "close"}) : [r EXCEPT !.todo = s] \in CallRecords
  /\ \A phase \in Calls, o \in Objects \cup {NoObject}, f \in Fds \cup {NoFd},
       todo \in Seq({"shutdown", "close"}), n \in Nat :
       [in |-> phase, obj |-> o, fd |-> f, todo |-> todo, left |-> n] \in CallRecords
<1>1. Idle \in CallRecords
  BY EmptySeq DEF Idle, CallRecords, Calls
<1> QED
  BY <1>1 DEF CallRecords

(* The type invariant after a step that takes or releases no lock, from    *)
(* the types of the parts.                                                 *)
LEMMA TypedParts ==
  ASSUME TypedState, FilesTyped', at' \in [Threads -> CallRecords],
         life' \in [Objects -> {"unused", "made", "alive", "serving", "deleted"}],
         m_socket' \in [Objects -> Fds \cup {NoFd}],
         returned' \subseteq Objects \X Fds, harmed' \in BOOLEAN,
         lost' \subseteq {"overwritten", "descriptor 0", "connect failed",
                          "listen overtaken"},
         m_pServerSocket' \in Objects \cup {NoObject}, gone' \in BOOLEAN,
         \A t \in Threads : at'[t].in = "stopping" <=> at[t].in = "stopping",
         lock' = lock
  PROVE  TypedState'
<1>1. (\A t \in Threads : at[t].in = "stopping" <=> lock = t)'
  BY DEF TypedState
<1>2. (lock \in Servers \cup {NoThread})'
  BY DEF TypedState
<1> HIDE DEF TypedState
<1> QED
  BY ONLY <1>1, <1>2, FilesTyped', at' \in [Threads -> CallRecords],
     life' \in [Objects -> {"unused", "made", "alive", "serving", "deleted"}],
     m_socket' \in [Objects -> Fds \cup {NoFd}],
     returned' \subseteq Objects \X Fds, harmed' \in BOOLEAN,
     lost' \subseteq {"overwritten", "descriptor 0", "connect failed",
                      "listen overtaken"},
     m_pServerSocket' \in Objects \cup {NoObject}, gone' \in BOOLEAN, Zenon
     DEF TypedState, FilesTyped, FileRecords, CallRecords

LEMMA TypedBefore ==
  ASSUME TypedState
  PROVE  /\ FilesTyped /\ at \in [Threads -> CallRecords]
         /\ life \in [Objects -> {"unused", "made", "alive", "serving", "deleted"}]
         /\ m_socket \in [Objects -> Fds \cup {NoFd}]
         /\ returned \subseteq Objects \X Fds /\ harmed \in BOOLEAN
         /\ lost \subseteq {"overwritten", "descriptor 0", "connect failed",
                            "listen overtaken"}
         /\ m_pServerSocket \in Objects \cup {NoObject} /\ gone \in BOOLEAN
BY Zenon DEF TypedState, FilesTyped, FileRecords, CallRecords

(* A step of one thread that leaves everything but its own call alone, and *)
(* after which it is not in a call that has more to close.                 *)
LEMMA QuietStep ==
  ASSUME ServerInv, NEW t \in Threads,
         at[t].in \in {"closing", "connecting", "transfer", "line", "listen",
                       "select", "accept", "accepting"},
         at[t].todo = <<>>,
         NEW r \in CallRecords, at' = [at EXCEPT ![t] = r],
         r.todo = <<>>,
         \/ r.in = "idle"
         \/ /\ r.obj = at[t].obj /\ r.fd = at[t].fd
            /\ <<at[t].in, r.in>> \in {<<"line", "line">>, <<"select", "accept">>,
                                     <<"accept", "accepting">>},
         UNCHANGED <<files, life, m_socket, returned, harmed, lost, serverVars>>
  PROVE  ServerInv'
<1> USE DEF ServerInv
<1>0. at \in [Threads -> CallRecords]
  BY DEF TypedState, CallRecords
<1>1. /\ \A u \in Threads \ {t} : at'[u] = at[u]
      /\ at'[t].in \in {"idle", "line", "accept", "accepting"}
      /\ at'[t].todo = <<>>
      /\ at'[t].in # "idle" => at'[t].obj = at[t].obj /\ at'[t].fd = at[t].fd
      /\ at'[t].in = "line" => at[t].in = "line"
      /\ at'[t].in = "accept" => at[t].in = "select"
      /\ at'[t].in = "accepting" => at[t].in = "accept"
  BY <1>0
<1>2. TypedState'
  <2>1. at' \in [Threads -> CallRecords]
    BY <1>0
  <2>2. \A u \in Threads : at'[u].in = "stopping" <=> at[u].in = "stopping"
    BY <1>1
  <2>3. /\ TypedState
        /\ UNCHANGED <<files, life, m_socket, returned, harmed, lost, m_pServerSocket,
                       lock, gone>>
    BY DEF serverVars
  <2>4. FilesTyped'
    BY ONLY <2>3, TypedBefore DEF FilesTyped
  <2> QED
    BY ONLY <2>1, <2>2, <2>3, <2>4, TypedBefore, TypedParts
<1>3. CallsOnTheLiving'
  BY <1>1 DEF CallsOnTheLiving, Making, ServerCalls, serverVars
<1>4. OthersElsewhere'
  BY DEF OthersElsewhere
<1>5. ServerSocketAlive' /\ StoppingReleases'
  BY <1>1 DEF ServerSocketAlive, StoppingReleases, IsFor, serverVars
<1>6. StrangersOnlyAfterClose'
  BY <1>1 DEF StrangersOnlyAfterClose, Keeps, IsFor
<1>7. Claimed'
  BY <1>1 DEF Claimed, KeptBy, CarriedBy
<1> QED
  BY <1>2, <1>3, <1>4, <1>5, <1>6, <1>7

-----------------------------------------------------------------------------
(* A thread begins a call, on an object that lives or on the server.       *)
LEMMA CallBegins ==
  ASSUME ServerInv, NEW t \in Threads, at[t].in = "idle",
         NEW r \in CallRecords, at' = [at EXCEPT ![t] = r],
         IF r.in = "listen" THEN r.fd = NoFd
         ELSE r.obj \in Objects /\ r.fd = m_socket[r.obj],
         \/ r.in \in {"closing", "connecting", "transfer", "line"} /\ life[r.obj] = "alive"
         \/ r.in \in {"listen", "select", "stopping"} /\ ~gone,
         r.in \in {"select", "stopping"} => r.obj = m_pServerSocket,
         r.in = "stopping" => t \in Servers /\ lock = NoThread /\ lock' = t /\ r.todo # <<>>,
         r.in # "stopping" => UNCHANGED lock,
         r.todo # <<>> => /\ r.in \in {"closing", "connecting", "stopping"}
                          /\ r.todo[Len(r.todo)] = "close",
         UNCHANGED <<files, life, m_socket, returned, harmed, lost,
                     m_pServerSocket, gone>>
  PROVE  ServerInv'
<1> USE DEF ServerInv
<1>0. at \in [Threads -> CallRecords]
  BY DEF TypedState, CallRecords
<1>1. at'[t] = r /\ \A u \in Threads \ {t} : at'[u] = at[u]
  BY <1>0
<1>2. TypedState'
  <2>1. at' \in [Threads -> CallRecords]
    BY <1>0
  <2>2. \A u \in Threads : at'[u].in = "stopping" <=> lock' = u
    <3>1. /\ \A u \in Threads : at[u].in = "stopping" <=> lock = u
          /\ NoThread \notin Threads
      BY ServerAssumption DEF TypedState
    <3>2. CASE r.in = "stopping"
      BY <1>1, <3>1, <3>2
    <3>3. CASE r.in # "stopping"
      BY <1>1, <3>1, <3>3
    <3> QED
      BY <3>2, <3>3
  <2> QED
    BY <2>1, <2>2 DEF TypedState, CallRecords
<1>3. CallsOnTheLiving'
  BY <1>1 DEF CallsOnTheLiving, Making, ServerCalls
<1>4. OthersElsewhere'
  BY DEF OthersElsewhere
<1>5. ServerSocketAlive' /\ StoppingReleases'
  BY <1>1 DEF ServerSocketAlive, StoppingReleases, IsFor
<1>6. StrangersOnlyAfterClose'
  <2>1. NoFd \notin Fds
    BY SocketAssumption DEF NoFd
  <2>2. r.in \in {"select", "stopping"} => life[r.obj] = "serving"
    BY SocketAssumption DEF ServerSocketAlive
  <2>3. ~harmed => Keeps(r.obj, r.fd)
    BY <2>1, <2>2 DEF StrangersOnlyAfterClose, Keeps
  <2> QED
    BY <1>1, <2>3 DEF StrangersOnlyAfterClose, Keeps, IsFor
<1>7. Claimed'
  BY <1>1 DEF Claimed, KeptBy, CarriedBy
<1> QED
  BY <1>2, <1>3, <1>4, <1>5, <1>6, <1>7

(* An object is deleted: by a thread when no other one is in a call on it, *)
(* or with its server when no other one is in a call on the server.        *)
LEMMA DeletionBegins ==
  ASSUME ServerInv, NEW t \in Threads, at[t].in = "idle", NEW o \in Objects,
         \/ /\ life[o] = "alive" /\ UNCHANGED gone
            /\ \A u \in Threads : at[u].obj # o
         \/ /\ o = m_pServerSocket /\ ~gone /\ gone' = TRUE
            /\ \A u \in Threads : at[u].in \notin ServerCalls,
         NEW r \in CallRecords, at' = [at EXCEPT ![t] = r],
         r.in = "deleting", r.obj = o, r.fd = m_socket[o],
         r.todo # <<>>, r.todo[Len(r.todo)] = "close",
         life' = [life EXCEPT ![o] = "deleted"],
         UNCHANGED <<files, m_socket, returned, harmed, lost, m_pServerSocket, lock>>
  PROVE  ServerInv'
<1> USE DEF ServerInv
<1>0. /\ at \in [Threads -> CallRecords]
      /\ life \in [Objects -> {"unused", "made", "alive", "serving", "deleted"}]
  BY DEF TypedState, CallRecords
<1>1. /\ at'[t] = r /\ \A u \in Threads \ {t} : at'[u] = at[u]
      /\ life'[o] = "deleted" /\ \A p \in Objects \ {o} : life'[p] = life[p]
      /\ life[o] \in {"alive", "serving"}
      /\ ~gone /\ life[o] = "alive" => o # m_pServerSocket
  BY <1>0, SocketAssumption DEF ServerSocketAlive
<1>2. TypedState'
  <2>1. at' \in [Threads -> CallRecords]
    BY <1>0
  <2>2. life' \in [Objects -> {"unused", "made", "alive", "serving", "deleted"}]
    BY <1>0
  <2>3. \A u \in Threads : at'[u].in = "stopping" <=> at[u].in = "stopping"
    BY <1>1
  <2>4. /\ TypedState /\ gone' \in BOOLEAN
        /\ UNCHANGED <<files, m_socket, returned, harmed, lost, m_pServerSocket, lock>>
    BY DEF TypedState
  <2>5. FilesTyped'
    BY ONLY <2>4, TypedBefore DEF FilesTyped
  <2> QED
    BY ONLY <2>1, <2>2, <2>3, <2>4, <2>5, TypedBefore, TypedParts
<1>3. CallsOnTheLiving'
  BY <1>1, SocketAssumption
     DEF CallsOnTheLiving, Making, ServerCalls, ServerSocketAlive
<1>4. OthersElsewhere'
  BY DEF OthersElsewhere
<1>5. ServerSocketAlive' /\ StoppingReleases'
  <2>1. m_pServerSocket \in Objects \cup {NoObject}
    BY DEF TypedState
  <2>2. ServerSocketAlive'
    BY <1>1, <2>1 DEF ServerSocketAlive
  <2> QED
    BY <1>1, <2>2 DEF StoppingReleases, IsFor
<1>6. StrangersOnlyAfterClose'
  BY <1>0, <1>1 DEF StrangersOnlyAfterClose, Keeps, IsFor
<1>7. Claimed'
  <2> SUFFICES ASSUME lost = {}, NEW f \in Fds, files[f].of \in Objects
               PROVE  (KeptBy(files[f].of, f) \/ \E u \in Threads : CarriedBy(u, files[f].of, f))'
    BY DEF Claimed
  <2>1. CASE \E u \in Threads : CarriedBy(u, files[f].of, f)
    BY <1>1, <2>1 DEF CarriedBy
  <2>2. CASE KeptBy(files[f].of, f) /\ files[f].of # o
    BY <1>1, <2>2 DEF KeptBy
  <2>3. CASE KeptBy(files[f].of, f) /\ files[f].of = o
    BY <1>1, <2>3 DEF KeptBy, CarriedBy
  <2> QED
    BY <2>1, <2>2, <2>3 DEF Claimed
<1> QED
  BY <1>2, <1>3, <1>4, <1>5, <1>6, <1>7

-----------------------------------------------------------------------------
(* shutdown() and ::close(): the file table changes, and an object that    *)
(* has closed its number is on record.                                     *)
LEMMA TodoEndsInClose ==
  ASSUME NEW s \in Seq({"shutdown", "close"}), s # <<>>, s[Len(s)] = "close"
  PROVE  /\ Tail(s) \in Seq({"shutdown", "close"})
         /\ Tail(s) # <<>> => Tail(s)[Len(Tail(s))] = "close"
         /\ Tail(s) = <<>> => Head(s) = "close"
<1> DEFINE rest == Tail(s)
<1>1. /\ rest \in Seq({"shutdown", "close"}) /\ Len(rest) = Len(s) - 1
      /\ \A n \in 1 .. Len(rest) : rest[n] = s[n + 1]
      /\ Len(s) \in Nat \ {0}
      /\ rest # <<>> => Len(rest) \in Nat \ {0}
  BY HeadTailProperties, EmptySeq
<1>2. Head(s) = s[1]
  OBVIOUS
<1> HIDE DEF rest
<1>3. rest # <<>> => rest[Len(rest)] = s[Len(s)]
  BY <1>1
<1>4. rest = <<>> => Len(s) = 1
  BY <1>1
<1> QED
  BY <1>1, <1>2, <1>3, <1>4 DEF rest

LEMMA ClosingStep ==
  ASSUME ServerInv, NEW t \in Threads, SystemCall(t), UNCHANGED serverVars
  PROVE  ServerInv'
<1> DEFINE o == at[t].obj
           fd == at[t].fd
           r == [at[t] EXCEPT !.todo = Tail(@)]
<1>0. /\ at \in [Threads -> CallRecords]
      /\ FilesTyped /\ OthersElsewhere
      /\ at[t].todo \in Seq({"shutdown", "close"}) /\ at[t].todo # <<>>
      /\ o \in Objects /\ fd \in Fds \cup {NoFd}
      /\ at[t].in \in {"closing", "deleting", "connecting", "failing", "stopping"}
      /\ at[t].todo[Len(at[t].todo)] = "close"
  <2>1. at \in [Threads -> CallRecords] /\ FilesTyped /\ at[t].todo # <<>>
    BY DEF ServerInv, TypedState, CallRecords, FilesTyped, FileRecords, SystemCall
  <2>2. at[t].todo \in Seq({"shutdown", "close"}) /\ fd \in Fds \cup {NoFd}
    BY <2>1 DEF CallRecords
  <2> QED
    BY <2>1, <2>2 DEF ServerInv, CallsOnTheLiving
<1>1. /\ at' = [at EXCEPT ![t] = r]
      /\ r.in = at[t].in /\ r.obj = o /\ r.fd = fd /\ r.todo = Tail(at[t].todo)
      /\ UNCHANGED <<life, m_socket, lost, serverVars>>
  BY <1>0 DEF SystemCall, CallRecords
<1>2. /\ r \in CallRecords
      /\ r.todo # <<>> => r.todo[Len(r.todo)] = "close"
      /\ r.todo = <<>> => Head(at[t].todo) = "close"
  BY <1>0, <1>1, TodoEndsInClose, CallTyped
<1>3. /\ at'[t] = r /\ \A u \in Threads \ {t} : at'[u] = at[u]
      /\ at' \in [Threads -> CallRecords]
  BY <1>0, <1>1, <1>2
<1> HIDE DEF r
<1>4. \/ /\ Shutdown(fd) /\ Head(at[t].todo) = "shutdown"
         /\ UNCHANGED <<returned, harmed>>
      \/ Closed(fd, o)
  BY DEF SystemCall
<1>5. /\ FilesTyped' /\ OthersElsewhere'
      /\ \A g \in Fds : files'[g].of \in Objects => files'[g].of = files[g].of
  <2>1. CASE Shutdown(fd)
    <3>1. \A g \in Fds : \/ files'[g] = files[g]
                         \/ /\ files[g].kind # "free"
                            /\ files'[g] = [files[g] EXCEPT !.kind = "shut",
                                                            !.backlog = 0]
      BY <1>0, <2>1 DEF Shutdown, FilesTyped
    <3>2. 0 \in 0 .. MaxBacklog /\ "shut" \in Kinds
      BY SocketAssumption DEF Kinds
    <3>3. files' = [g \in Fds |-> files'[g]]
      BY <2>1 DEF Shutdown
    <3>4. ASSUME NEW g \in Fds
          PROVE  /\ files'[g] \in FileRecords /\ files'[g].of = files[g].of
                 /\ files'[g].kind = "free" <=> files[g].kind = "free"
                 /\ files'[g].kind = "other" => files[g].kind = "other"
      <4>1. files[g] \in FileRecords
        BY ONLY <1>0, g \in Fds DEF FilesTyped
      <4>2. CASE files'[g] = files[g]
        BY ONLY <4>1, <4>2
      <4>3. CASE /\ files[g].kind # "free"
                 /\ files'[g] = [files[g] EXCEPT !.kind = "shut", !.backlog = 0]
        BY ONLY <3>2, <4>1, <4>3 DEF FileRecords
      <4> QED
        BY <3>1, <4>2, <4>3
    <3>5. /\ files' \in [Fds -> FileRecords]
          /\ \A g \in Fds : files'[g].of \in Objects => files'[g].of = files[g].of
      BY ONLY <3>3, <3>4
    <3>6. \A g \in Fds : files'[g].kind = "free" <=> files'[g].of = NoObject
      BY ONLY <1>0, <3>4 DEF FilesTyped
    <3>7. OthersElsewhere'
      BY ONLY <1>0, <3>4 DEF OthersElsewhere
    <3> QED
      BY ONLY <3>5, <3>6, <3>7 DEF FilesTyped
  <2>2. CASE Closed(fd, o)
    <3>1. /\ \A g \in Fds : files'[g] = IF g = fd THEN Free ELSE files[g]
          /\ files' = [g \in Fds |-> files'[g]]
      BY <2>2 DEF Closed
    <3>2. /\ Free.of = NoObject /\ Free.kind = "free"
          /\ Free \in FileRecords
      BY SocketAssumption DEF Free, Kinds, FileRecords
    <3> HIDE DEF Free
    <3>3. files' \in [Fds -> FileRecords]
      BY ONLY <1>0, <3>1, <3>2 DEF FilesTyped
    <3>4. \A g \in Fds : files'[g].of \in Objects => files'[g].of = files[g].of
      BY ONLY <3>1, <3>2, SocketAssumption
    <3>5. \A g \in Fds : files'[g].kind = "free" <=> files'[g].of = NoObject
      BY ONLY <1>0, <3>1, <3>2 DEF FilesTyped
    <3>6. OthersElsewhere'
      BY ONLY <1>0, <3>1, <3>2 DEF OthersElsewhere
    <3> QED
      BY ONLY <3>3, <3>4, <3>5, <3>6 DEF FilesTyped
  <2> QED
    BY <1>4, <2>1, <2>2
<1>6. TypedState'
  <2>1. returned' \subseteq Objects \X Fds /\ harmed' \in BOOLEAN
    BY <1>4 DEF ServerInv, TypedState, Closed
  <2>2. \A u \in Threads : at'[u].in = "stopping" <=> at[u].in = "stopping"
    BY <1>1, <1>3
  <2>3. UNCHANGED <<life, m_socket, lost, m_pServerSocket, lock, gone>> /\ TypedState
    BY <1>1 DEF ServerInv, serverVars
  <2>4. FilesTyped' /\ at' \in [Threads -> CallRecords]
    BY <1>3, <1>5
  <2> QED
    BY ONLY <2>1, <2>2, <2>3, <2>4, TypedBefore, TypedParts
<1>7. CallsOnTheLiving'
  <2>1. \A u \in Threads :
          /\ at'[u].in = at[u].in /\ at'[u].obj = at[u].obj
          /\ at'[u].todo # <<>> => /\ at[u].todo # <<>>
                                   /\ at'[u].todo[Len(at'[u].todo)] = "close"
    BY <1>0, <1>1, <1>2, <1>3 DEF ServerInv, CallsOnTheLiving
  <2> QED
    BY <1>1, <2>1 DEF ServerInv, CallsOnTheLiving, serverVars
<1>8. ServerSocketAlive'
  BY <1>1, <1>3 DEF ServerInv, ServerSocketAlive, serverVars
<1>9. StrangersOnlyAfterClose'
  <2>1. CASE UNCHANGED <<returned, harmed>> /\ Shutdown(fd)
    <3>1. \A g \in Fds : files'[g].of = files[g].of
      BY <1>0, <2>1 DEF Shutdown, FilesTyped, FileRecords
    <3> QED
      BY <1>1, <1>3, <2>1, <3>1
         DEF ServerInv, StrangersOnlyAfterClose, Keeps, IsFor
  <2>2. CASE Closed(fd, o)
    <3> SUFFICES ASSUME ~harmed' PROVE StrangersOnlyAfterClose'
      BY DEF StrangersOnlyAfterClose
    <3>1. ~harmed /\ (Kind(fd) = "free" \/ IsFor(fd, o))
      BY <2>2 DEF Closed
    <3>2. ASSUME NEW p \in Objects \cup {NoObject}, NEW f \in Fds \cup {NoFd}, Keeps(p, f)
          PROVE  Keeps(p, f)'
      <4> SUFFICES ASSUME f \in Fds PROVE Keeps(p, f)'
        BY DEF Keeps
      <4>1. CASE <<p, f>> \in returned
        BY <2>2, <4>1 DEF Closed, Keeps
      <4>2. CASE IsFor(f, p) /\ f # fd
        BY <2>2, <4>2 DEF Closed, Keeps, IsFor
      <4>3. CASE IsFor(f, p) /\ f = fd /\ p \in Objects
        <5>1. p = o
          BY <1>0, <3>1, <4>3, SocketAssumption DEF Kind, IsFor, FilesTyped
        <5> QED
          BY <2>2, <4>3, <5>1 DEF Closed, Keeps
      <4>4. CASE IsFor(f, p) /\ f = fd /\ p = NoObject
        BY <2>2, <4>4 DEF Closed, Keeps, IsFor, Free
      <4> QED
        BY <3>2, <4>1, <4>2, <4>3, <4>4 DEF Keeps
    <3>3. /\ \A p \in Objects : m_socket[p] \in Fds \cup {NoFd}
          /\ \A u \in Threads : at[u].obj \in Objects \cup {NoObject}
                                /\ at[u].fd \in Fds \cup {NoFd}
      BY <1>0 DEF ServerInv, TypedState, CallRecords
    <3>4. \A p \in Objects : life[p] \in {"alive", "serving"} => Keeps(p, m_socket[p])'
      BY <1>1, <3>1, <3>2, <3>3 DEF ServerInv, StrangersOnlyAfterClose, Keeps
    <3>5. \A u \in Threads : at[u].in # "idle" => Keeps(at[u].obj, at[u].fd)'
      BY <1>1, <1>3, <3>1, <3>2, <3>3 DEF ServerInv, StrangersOnlyAfterClose, Keeps
    <3> QED
      BY <1>1, <1>3, <3>4, <3>5 DEF StrangersOnlyAfterClose, Keeps
  <2> QED
    BY <1>4, <2>1, <2>2
<1>10. StoppingReleases'
  <2> SUFFICES ASSUME NEW u \in Threads, at'[u].in = "stopping"
               PROVE  (/\ at[u].fd = m_socket[at[u].obj]
                       /\ at[u].todo = <<>> => ~IsFor(at[u].fd, at[u].obj))'
    BY DEF StoppingReleases
  <2>1. at[u].in = "stopping" /\ at'[u].obj = at[u].obj /\ at'[u].fd = at[u].fd
    BY <1>1, <1>3
  <2>2. at[u].obj \in Objects
    BY <2>1 DEF ServerInv, CallsOnTheLiving
  <2>3. CASE u # t
    BY <1>1, <1>3, <1>5, <2>1, <2>2, <2>3 DEF ServerInv, StoppingReleases, IsFor
  <2>4. CASE u = t
    <3>1. ASSUME r.todo = <<>> PROVE ~(fd \in Fds /\ files'[fd].of = o)
      <4>1. Closed(fd, o)
        BY <1>2, <1>4, <3>1
      <4> QED
        BY <1>0, <4>1, SocketAssumption DEF Closed, Free
    <3> QED
      BY <1>1, <1>3, <2>1, <2>4, <3>1 DEF ServerInv, StoppingReleases, IsFor
  <2> QED
    BY <2>3, <2>4
<1>11. Claimed'
  <2> SUFFICES ASSUME lost = {}, NEW f \in Fds, files'[f].of \in Objects
               PROVE  (KeptBy(files[f].of, f) \/ \E u \in Threads : CarriedBy(u, files[f].of, f))'
    BY <1>1 DEF Claimed
  <2>1. files'[f].of = files[f].of
    BY <1>5
  <2>2. CASE KeptBy(files[f].of, f)
    BY <1>1, <2>1, <2>2 DEF KeptBy
  <2>3. ASSUME NEW u \in Threads, CarriedBy(u, files[f].of, f)
        PROVE  CarriedBy(u, files[f].of, f)'
    <3>1. CASE u # t
      BY <1>3, <2>1, <2>3, <3>1 DEF CarriedBy
    <3>2. CASE u = t /\ r.todo # <<>>
      BY <1>0, <1>1, <1>3, <2>1, <2>3, <3>2 DEF CarriedBy
    <3>3. CASE u = t /\ r.todo = <<>>
      <4>1. Closed(fd, o) /\ f = fd
        BY <1>2, <1>4, <2>3, <3>3 DEF CarriedBy
      <4> QED
        BY <4>1, SocketAssumption DEF Closed, Free
    <3> QED
      BY <3>1, <3>2, <3>3
  <2> QED
    BY <2>1, <2>2, <2>3 DEF ServerInv, Claimed
<1> QED
  BY <1>5, <1>6, <1>7, <1>8, <1>9, <1>10, <1>11 DEF ServerInv

-----------------------------------------------------------------------------
(* A call opens a descriptor for an object: for the one it works on, or    *)
(* for a new one.                                                          *)
LEMMA OpeningStep ==
  ASSUME ServerInv, NEW t \in Threads, NEW o \in Objects, NEW f \in Fds,
         NEW r \in CallRecords, at' = [at EXCEPT ![t] = r],
         r.obj = o, r.fd = f, r.todo = <<>>,
         \/ /\ at[t].in = "connecting" /\ at[t].obj = o
            /\ r.in = "connect" /\ UNCHANGED life
         \/ /\ at[t].in \in {"listen", "accepting"} /\ r.in \in {"bind", "accepted"}
            /\ life[o] = "unused" /\ life' = [life EXCEPT ![o] = "made"],
         FilesTyped', OthersElsewhere',
         files[f].of = NoObject, files'[f].of = o,
         \A g \in Fds \ {f} : files'[g].of = files[g].of,
         returned' = returned \ {<<o, f>>},
         UNCHANGED <<m_socket, harmed, lost, serverVars>>
  PROVE  ServerInv'
<1>0. /\ at \in [Threads -> CallRecords]
      /\ life \in [Objects -> {"unused", "made", "alive", "serving", "deleted"}]
      /\ returned \subseteq Objects \X Fds
  BY DEF ServerInv, TypedState, CallRecords
<1>1. /\ at'[t] = r /\ \A u \in Threads \ {t} : at'[u] = at[u]
      /\ at' \in [Threads -> CallRecords]
  BY <1>0
<1>2. /\ life' \in [Objects -> {"unused", "made", "alive", "serving", "deleted"}]
      /\ \A p \in Objects : life'[p] = life[p] \/ (life[p] = "unused" /\ life'[p] = "made")
      /\ r.in \in Making => life[o] = "unused" /\ life'[o] = "made"
      /\ r.in \notin Making => r.in = "connect" /\ life'[o] = "alive"
  BY <1>0 DEF ServerInv, CallsOnTheLiving, Making
<1>3. at[t].in \in {"connecting", "listen", "accepting"} /\ r.in \in {"connect", "bind", "accepted"}
  OBVIOUS
<1>4. TypedState'
  <2>1. \A u \in Threads : at'[u].in = "stopping" <=> at[u].in = "stopping"
    BY <1>1, <1>3
  <2>2. /\ UNCHANGED <<m_socket, harmed, lost, m_pServerSocket, lock, gone>>
        /\ TypedState /\ FilesTyped'
    BY DEF ServerInv, serverVars
  <2>3. returned' \subseteq Objects \X Fds
    BY <1>0
  <2>4. /\ life' \in [Objects -> {"unused", "made", "alive", "serving", "deleted"}]
        /\ at' \in [Threads -> CallRecords]
    BY <1>1, <1>2
  <2> QED
    BY ONLY <2>1, <2>2, <2>3, <2>4, TypedBefore, TypedParts
<1>5. CallsOnTheLiving'
  <2>1. ASSUME NEW u \in Threads, u # t
        PROVE  /\ at[u].in \in Making => at[u].obj # o \/ r.in = "connect"
               /\ at[u].in \notin {"idle", "listen"} => at[u].obj \in Objects
    BY <1>2, <2>1 DEF ServerInv, CallsOnTheLiving, Making
  <2>2. gone' = gone /\ (at[t].in \in ServerCalls => ~gone)
    BY DEF ServerInv, CallsOnTheLiving, serverVars
  <2>3. r.in \in ServerCalls => at[t].in \in ServerCalls
    BY <1>2 DEF ServerCalls, Making
  <2>4. ASSUME NEW u \in Threads
        PROVE  /\ at'[u].in = "listen" => at'[u].fd = NoFd
               /\ at'[u].in \notin {"idle", "listen"} => at'[u].obj \in Objects
               /\ at'[u].todo # <<>> =>
                    /\ at'[u].in \in {"closing", "deleting", "connecting",
                                      "failing", "stopping"}
                    /\ at'[u].todo[Len(at'[u].todo)] = "close"
               /\ at'[u].in \in {"closing", "connecting", "connect", "transfer",
                                 "line"} => life'[at'[u].obj] = "alive"
               /\ at'[u].in \in Making => life'[at'[u].obj] = "made"
               /\ at'[u].in = "deleting" => life'[at'[u].obj] = "deleted"
               /\ at'[u].in \in ServerCalls => ~gone
    <3>1. CASE u = t
      BY <1>1, <1>2, <1>3, <2>2, <2>3, <3>1 DEF Making
    <3>2. CASE u # t
      <4>1. at'[u] = at[u]
        BY <1>1, <3>2
      <4> QED
        BY <1>2, <2>1, <3>2, <4>1 DEF ServerInv, CallsOnTheLiving, Making
    <3> QED
      BY <3>1, <3>2
  <2>5. ASSUME NEW u \in Threads, NEW v \in Threads,
               at'[u].in \in Making, at'[v].in \in Making, at'[u].obj = at'[v].obj
        PROVE  u = v
    <3>1. CASE u # t /\ v # t
      BY <1>1, <2>5, <3>1 DEF ServerInv, CallsOnTheLiving
    <3>2. CASE u = t /\ v # t
      BY <1>1, <1>2, <2>1, <2>5, <3>2 DEF Making
    <3>3. CASE v = t /\ u # t
      BY <1>1, <1>2, <2>1, <2>5, <3>3 DEF Making
    <3> QED
      BY <3>1, <3>2, <3>3
  <2> QED
    BY <2>2, <2>4, <2>5 DEF CallsOnTheLiving
<1>6. ServerSocketAlive'
  <2>1. /\ m_pServerSocket' = m_pServerSocket /\ gone' = gone
        /\ m_pServerSocket \in Objects \cup {NoObject}
    BY DEF ServerInv, TypedState, serverVars
  <2> QED
    BY <1>1, <1>2, <1>3, <2>1 DEF ServerInv, ServerSocketAlive
<1>7. StrangersOnlyAfterClose'
  <2>1. ASSUME NEW p \in Objects, NEW g, Keeps(p, g) PROVE Keeps(p, g)'
    <3>1. CASE g \notin Fds
      BY <3>1 DEF Keeps
    <3>2. CASE g \in Fds /\ g # f
      BY <2>1, <3>2 DEF Keeps, IsFor
    <3>3. CASE g = f /\ p = o
      BY <3>3 DEF Keeps, IsFor
    <3>4. CASE g = f /\ p # o
      <4>1. <<p, f>> \in returned
        BY <2>1, <3>4, SocketAssumption DEF Keeps, IsFor
      <4> QED
        BY <3>4, <4>1 DEF Keeps
    <3> QED
      BY <3>1, <3>2, <3>3, <3>4
  <2> SUFFICES ASSUME ~harmed PROVE StrangersOnlyAfterClose'
    BY DEF StrangersOnlyAfterClose
  <2>2. NoFd \notin Fds
    BY SocketAssumption DEF NoFd
  <2>3. ASSUME NEW p \in Objects, life'[p] \in {"alive", "serving"}
        PROVE  Keeps(p, m_socket[p])'
    BY <1>2, <2>1, <2>3 DEF ServerInv, StrangersOnlyAfterClose, Keeps
  <2>4. ASSUME NEW u \in Threads, at'[u].in # "idle"
        PROVE  Keeps(at[u].obj, at[u].fd)'
    <3>1. CASE u = t
      BY <1>1, <3>1 DEF Keeps, IsFor
    <3>2. CASE u # t /\ at[u].in # "listen"
      <4>1. at'[u] = at[u] /\ at[u].obj \in Objects
        BY <1>1, <2>4, <3>2 DEF ServerInv, CallsOnTheLiving
      <4>2. Keeps(at[u].obj, at[u].fd)
        BY <2>4, <3>2, <4>1 DEF ServerInv, StrangersOnlyAfterClose
      <4> QED
        BY <2>1, <4>1, <4>2 DEF Keeps
    <3>3. CASE u # t /\ at[u].in = "listen"
      BY <1>1, <2>2, <3>3 DEF Keeps, ServerInv, CallsOnTheLiving
    <3> QED
      BY <3>1, <3>2, <3>3
  <2> QED
    BY <2>3, <2>4 DEF StrangersOnlyAfterClose
<1>8. StoppingReleases'
  <2> SUFFICES ASSUME NEW u \in Threads, at'[u].in = "stopping"
               PROVE  (/\ at[u].fd = m_socket[at[u].obj]
                       /\ at[u].todo = <<>> => ~IsFor(at[u].fd, at[u].obj))'
    BY DEF StoppingReleases
  <2>1. u # t /\ at'[u] = at[u]
    BY <1>1, <1>3
  <2>2. life[at[u].obj] = "serving" /\ at[u].obj \in Objects
    <3>1. /\ at[u].in \in ServerCalls /\ at[u].obj \in Objects
          /\ at[u].obj = m_pServerSocket
      BY <2>1 DEF ServerInv, CallsOnTheLiving, ServerSocketAlive, ServerCalls
    <3> QED
      BY <3>1, SocketAssumption DEF ServerInv, CallsOnTheLiving, ServerSocketAlive
  <2>3. at[u].obj # o
    BY <1>2, <2>2
  <2> QED
    BY <2>1, <2>2, <2>3 DEF ServerInv, StoppingReleases, IsFor
<1>9. Claimed'
  <2> SUFFICES ASSUME lost = {}, NEW g \in Fds, files'[g].of \in Objects
               PROVE  (KeptBy(files[g].of, g) \/ \E u \in Threads : CarriedBy(u, files[g].of, g))'
    BY DEF Claimed
  <2>1. CASE g = f
    BY <1>1, <1>3, <2>1 DEF CarriedBy
  <2>2. CASE g # f
    <3>1. files'[g].of = files[g].of
      BY <2>2
    <3>2. CASE KeptBy(files[g].of, g)
      BY <1>2, <3>1, <3>2 DEF KeptBy
    <3>3. ASSUME NEW u \in Threads, CarriedBy(u, files[g].of, g)
          PROVE  CarriedBy(u, files[g].of, g)'
      BY <1>1, <1>3, <3>1, <3>3 DEF CarriedBy
    <3> QED
      BY <3>1, <3>2, <3>3 DEF ServerInv, Claimed
  <2> QED
    BY <2>1, <2>2
<1> QED
  BY <1>4, <1>5, <1>6, <1>7, <1>8, <1>9 DEF ServerInv

(* The file table changes in a way that no object notices: a connection    *)
(* arrives or ends, or the rest of the program opens or closes a           *)
(* descriptor.                                                             *)
LEMMA FilesStep ==
  ASSUME ServerInv, FilesTyped', OthersElsewhere',
         \A f \in Fds : \/ files'[f].of = files[f].of
                        \/ {files[f].of, files'[f].of} \subseteq {NoObject, Elsewhere},
         UNCHANGED <<life, m_socket, at, returned, harmed, lost, serverVars>>
  PROVE  ServerInv'
<1>1. \A f \in Fds, o \in Objects : files'[f].of = o <=> files[f].of = o
  BY SocketAssumption
<1>2. TypedState'
  BY DEF ServerInv, TypedState, FilesTyped, FileRecords, serverVars
<1>3. CallsOnTheLiving' /\ ServerSocketAlive'
  BY DEF ServerInv, CallsOnTheLiving, ServerSocketAlive, serverVars
<1>4. StrangersOnlyAfterClose' /\ StoppingReleases'
  <2>1. \A t \in Threads : /\ at[t].in = "listen" => at[t].fd \notin Fds
                           /\ at[t].in \notin {"idle", "listen"} => at[t].obj \in Objects
    BY SocketAssumption DEF ServerInv, CallsOnTheLiving, NoFd
  <2>2. StrangersOnlyAfterClose'
    BY <1>1, <2>1 DEF ServerInv, StrangersOnlyAfterClose, Keeps, IsFor
  <2> QED
    BY <1>1, <2>1, <2>2 DEF ServerInv, StoppingReleases, IsFor
<1>5. Claimed'
  BY <1>1 DEF ServerInv, Claimed, KeptBy, CarriedBy
<1> QED
  BY <1>2, <1>3, <1>4, <1>5 DEF ServerInv

-----------------------------------------------------------------------------
(* listen() has bound its socket, or has to close it.                      *)
LEMMA BindStep ==
  ASSUME ServerInv, NEW t \in Threads, at[t].in = "bind",
         NEW r \in CallRecords, at' = [at EXCEPT ![t] = r],
         r.obj = at[t].obj, r.fd = at[t].fd,
         \/ r.in = "listening" /\ r.todo = <<>>
         \/ r.in = "failing" /\ r.todo # <<>> /\ r.todo[Len(r.todo)] = "close",
         FilesTyped', OthersElsewhere',
         \A f \in Fds : files'[f].of = files[f].of,
         UNCHANGED <<life, m_socket, returned, harmed, lost, serverVars>>
  PROVE  ServerInv'
<1>0. at \in [Threads -> CallRecords]
  BY DEF ServerInv, TypedState, CallRecords
<1>1. /\ at'[t] = r /\ \A u \in Threads \ {t} : at'[u] = at[u]
      /\ at' \in [Threads -> CallRecords]
  BY <1>0
<1>2. TypedState'
  <2>1. \A u \in Threads : at'[u].in = "stopping" <=> at[u].in = "stopping"
    BY <1>1
  <2> QED
    BY <1>1, <2>1
       DEF ServerInv, TypedState, FilesTyped, FileRecords, CallRecords, serverVars
<1>3. CallsOnTheLiving'
  <2>1. ~gone /\ at[t].obj \in Objects /\ life[at[t].obj] = "made"
    BY DEF ServerInv, CallsOnTheLiving, ServerCalls, Making
  <2> QED
    BY <1>1, <2>1 DEF ServerInv, CallsOnTheLiving, Making, serverVars
<1>4. ServerSocketAlive' /\ StoppingReleases'
  BY <1>1 DEF ServerInv, ServerSocketAlive, StoppingReleases, IsFor, serverVars
<1>5. StrangersOnlyAfterClose'
  BY <1>1 DEF ServerInv, StrangersOnlyAfterClose, Keeps, IsFor
<1>6. Claimed'
  <2> SUFFICES ASSUME lost = {}, NEW f \in Fds, files'[f].of \in Objects
               PROVE  (KeptBy(files[f].of, f) \/ \E u \in Threads : CarriedBy(u, files[f].of, f))'
    BY DEF Claimed
  <2>1. CASE KeptBy(files[f].of, f)
    BY <2>1 DEF KeptBy
  <2>2. ASSUME NEW u \in Threads, CarriedBy(u, files[f].of, f)
        PROVE  CarriedBy(u, files[f].of, f)'
    BY <1>1, <2>2 DEF CarriedBy
  <2> QED
    BY <2>1, <2>2 DEF ServerInv, Claimed
<1> QED
  BY <1>2, <1>3, <1>4, <1>5, <1>6 DEF ServerInv

(* A call puts the descriptor that it opened into m_socket and returns: of *)
(* a living object, which may have another one, or of a new object.        *)
LEMMA SettingStep ==
  ASSUME ServerInv, NEW t \in Threads, NEW o \in Objects, o = at[t].obj,
         at[t].todo = <<>>,
         at' = [at EXCEPT ![t] = Idle],
         m_socket' = [m_socket EXCEPT ![o] = at[t].fd],
         \/ /\ at[t].in = "connect" /\ UNCHANGED <<life, serverVars>>
            /\ \A f \in Fds : f = m_socket[o] /\ files[f].of = o /\ lost' = {} =>
                 f = at[t].fd
         \/ /\ at[t].in = "accepted" /\ UNCHANGED serverVars
            /\ life' = [life EXCEPT ![o] = "alive"]
         \/ /\ at[t].in = "listening" /\ lock = NoThread
            /\ life' = [life EXCEPT ![o] = "serving"]
            /\ m_pServerSocket' = o /\ UNCHANGED <<lock, gone>>,
         lost \subseteq lost',
         lost' \subseteq {"overwritten", "descriptor 0", "connect failed",
                          "listen overtaken"},
         FilesTyped', OthersElsewhere',
         \A f \in Fds : files'[f].of = files[f].of,
         UNCHANGED <<returned, harmed>>
  PROVE  ServerInv'
<1>0. /\ at \in [Threads -> CallRecords]
      /\ life \in [Objects -> {"unused", "made", "alive", "serving", "deleted"}]
      /\ m_socket \in [Objects -> Fds \cup {NoFd}]
      /\ m_pServerSocket \in Objects \cup {NoObject}
      /\ at[t].fd \in Fds \cup {NoFd}
  BY DEF ServerInv, TypedState, CallRecords
<1>1. /\ at'[t] = Idle /\ \A u \in Threads \ {t} : at'[u] = at[u]
      /\ at' \in [Threads -> CallRecords]
      /\ Idle.in = "idle" /\ Idle.todo = <<>>
  BY <1>0, CallTyped DEF Idle
<1>2. /\ m_socket' \in [Objects -> Fds \cup {NoFd}]
      /\ m_socket'[o] = at[t].fd
      /\ \A p \in Objects \ {o} : m_socket'[p] = m_socket[p]
      /\ life' \in [Objects -> {"unused", "made", "alive", "serving", "deleted"}]
      /\ \A p \in Objects \ {o} : life'[p] = life[p]
      /\ life'[o] \in {"alive", "serving"}
      /\ \/ life[o] = "alive" /\ life'[o] = "alive"
         \/ life[o] = "made" /\ at[t].in \in Making
      /\ at[t].in \in {"connect", "accepted", "listening"}
      /\ gone' = gone /\ lock' = lock
  <2>1. /\ at[t].in = "connect" => life[o] = "alive"
        /\ at[t].in \in {"accepted", "listening"} => at[t].in \in Making
        /\ at[t].in \in Making => life[o] = "made"
        /\ at[t].in \in {"connect", "accepted", "listening"}
    BY DEF ServerInv, CallsOnTheLiving, Making
  <2>2. /\ m_socket' \in [Objects -> Fds \cup {NoFd}]
        /\ m_socket'[o] = at[t].fd
        /\ \A p \in Objects \ {o} : m_socket'[p] = m_socket[p]
    BY <1>0
  <2>3. \/ at[t].in = "connect" /\ life' = life
        \/ at[t].in = "accepted" /\ life' = [life EXCEPT ![o] = "alive"]
        \/ at[t].in = "listening" /\ life' = [life EXCEPT ![o] = "serving"]
    OBVIOUS
  <2>4. /\ life' \in [Objects -> {"unused", "made", "alive", "serving", "deleted"}]
        /\ \A p \in Objects \ {o} : life'[p] = life[p]
        /\ life'[o] \in {"alive", "serving"}
        /\ at[t].in = "connect" => life'[o] = life[o]
    BY ONLY <1>0, <2>1, <2>3, o \in Objects
  <2>5. gone' = gone /\ lock' = lock
    BY DEF serverVars
  <2> QED
    BY <2>1, <2>2, <2>3, <2>4, <2>5
<1>3. TypedState'
  <2>1. \A u \in Threads : at'[u].in = "stopping" <=> at[u].in = "stopping"
    BY <1>1, <1>2
  <2>2. m_pServerSocket' \in Objects \cup {NoObject}
    BY <1>0 DEF serverVars
  <2>3. TypedState /\ UNCHANGED <<returned, harmed, lock, gone>>
    BY <1>2 DEF ServerInv
  <2>4. /\ life' \in [Objects -> {"unused", "made", "alive", "serving", "deleted"}]
        /\ m_socket' \in [Objects -> Fds \cup {NoFd}]
        /\ at' \in [Threads -> CallRecords]
    BY <1>1, <1>2
  <2>5. /\ FilesTyped'
        /\ lost' \subseteq {"overwritten", "descriptor 0", "connect failed",
                            "listen overtaken"}
    OBVIOUS
  <2> QED
    BY ONLY <2>1, <2>2, <2>3, <2>4, <2>5, TypedBefore, TypedParts
<1>4. CallsOnTheLiving'
  <2>1. ASSUME NEW u \in Threads, u # t, at[u].in \notin {"idle", "listen"}
        PROVE  life'[at[u].obj] = life[at[u].obj] \/ at[u].in \notin Making \cup {"deleting"}
    <3> SUFFICES ASSUME at[u].obj = o, at[u].in \in Making \cup {"deleting"}
                 PROVE  life'[o] = life[o]
      <4>1. at[u].obj \in Objects
        BY <2>1 DEF ServerInv, CallsOnTheLiving
      <4> QED
        BY <1>2, <4>1
    <3>1. life[o] = "made" \/ life[o] = "deleted"
      BY DEF ServerInv, CallsOnTheLiving
    <3>2. CallsOnTheLiving /\ life[o] # "deleted"
      BY <1>2 DEF ServerInv
    <3>3. at[u].in \notin Making \/ at[t].in \notin Making
      BY ONLY <2>1, <3>2, o = at[t].obj, at[u].obj = o, t \in Threads, u \in Threads
         DEF CallsOnTheLiving
    <3> QED
      BY <1>2, <3>1, <3>2, <3>3 DEF ServerInv, CallsOnTheLiving
  <2>2. ASSUME NEW u \in Threads, u # t,
               at[u].in \in {"closing", "connecting", "connect", "transfer", "line"}
        PROVE  life'[at[u].obj] = "alive"
    <3>1. at[u].obj \in Objects /\ life[at[u].obj] = "alive"
      BY <2>2 DEF ServerInv, CallsOnTheLiving
    <3> QED
      BY ONLY <1>2, <3>1
  <2>3. ASSUME NEW u \in Threads, u # t
        PROVE  /\ at'[u].in \in Making => life'[at'[u].obj] = "made"
               /\ at'[u].in = "deleting" => life'[at'[u].obj] = "deleted"
               /\ at'[u].in \in {"closing", "connecting", "connect", "transfer",
                                 "line"} => life'[at'[u].obj] = "alive"
    <3>1. at'[u] = at[u]
      BY <1>1, <2>3
    <3>2. /\ at[u].in \in Making => life[at[u].obj] = "made"
          /\ at[u].in = "deleting" => life[at[u].obj] = "deleted"
      BY DEF ServerInv, CallsOnTheLiving
    <3>3. at[u].in \in Making \cup {"deleting"} => at[u].in \notin {"idle", "listen"}
      BY DEF Making
    <3> QED
      BY <2>1, <2>2, <2>3, <3>1, <3>2, <3>3
  <2>4. \A u \in Threads : at'[u].in # "idle" => u # t /\ at'[u] = at[u]
    BY <1>1
  <2>5. \A u \in Threads : at'[u].todo # <<>> => u # t /\ at'[u] = at[u]
    BY <1>1
  <2>6. ASSUME NEW u \in Threads
        PROVE  /\ at'[u].in = "listen" => at'[u].fd = NoFd
               /\ at'[u].in \notin {"idle", "listen"} => at'[u].obj \in Objects
               /\ at'[u].todo # <<>> =>
                    /\ at'[u].in \in {"closing", "deleting", "connecting",
                                      "failing", "stopping"}
                    /\ at'[u].todo[Len(at'[u].todo)] = "close"
               /\ at'[u].in \in ServerCalls => ~gone'
    <3>1. CASE u = t
      BY <1>1, <3>1 DEF ServerCalls
    <3>2. CASE u # t
      <4>1. at'[u] = at[u]
        BY <1>1, <3>2
      <4>2. /\ at[u].in = "listen" => at[u].fd = NoFd
            /\ at[u].in \notin {"idle", "listen"} => at[u].obj \in Objects
            /\ at[u].todo # <<>> =>
                 /\ at[u].in \in {"closing", "deleting", "connecting", "failing",
                                 "stopping"}
                 /\ at[u].todo[Len(at[u].todo)] = "close"
            /\ at[u].in \in ServerCalls => ~gone
        BY DEF ServerInv, CallsOnTheLiving
      <4> QED
        BY ONLY <1>2, <4>1, <4>2
    <3> QED
      BY <3>1, <3>2
  <2>7. \A u, v \in Threads :
          at'[u].in \in Making /\ at'[v].in \in Making /\ at'[u].obj = at'[v].obj =>
            u = v
    <3>1. \A u \in Threads : at'[u].in \in Making => at'[u] = at[u]
      BY <2>4 DEF Making
    <3>2. CallsOnTheLiving
      BY DEF ServerInv
    <3> QED
      BY ONLY <3>1, <3>2 DEF CallsOnTheLiving
  <2>8. \A u \in Threads :
          /\ at'[u].in \in Making => life'[at'[u].obj] = "made"
          /\ at'[u].in = "deleting" => life'[at'[u].obj] = "deleted"
          /\ at'[u].in \in {"closing", "connecting", "connect", "transfer",
                            "line"} => life'[at'[u].obj] = "alive"
    BY <2>3, <2>4 DEF Making
  <2> QED
    BY ONLY <2>6, <2>7, <2>8, Zenon DEF CallsOnTheLiving
<1>5. ServerSocketAlive'
  <2>1. CASE at[t].in = "listening"
    <3>1. \A u \in Threads : at[u].in # "stopping"
      <4>1. lock = NoThread /\ TypedState
        BY <2>1 DEF ServerInv
      <4> QED
        BY ONLY <4>1, ServerAssumption DEF TypedState
    <3>2. m_pServerSocket' = o /\ life'[o] = "serving"
      BY <1>0, <2>1
    <3> QED
      BY ONLY <1>1, <3>1, <3>2 DEF ServerSocketAlive
  <2>2. CASE at[t].in # "listening"
    <3>1. m_pServerSocket' = m_pServerSocket
      BY <2>2 DEF serverVars
    <3>2. life[o] # "serving"
      BY <1>2
    <3>3. \A u \in Threads : at'[u].in = "stopping" => at'[u] = at[u]
      BY <1>1
    <3>4. ServerSocketAlive
      BY DEF ServerInv
    <3> QED
      BY ONLY <1>0, <1>2, <3>1, <3>2, <3>3, <3>4 DEF ServerSocketAlive
  <2> QED
    BY <2>1, <2>2
<1>6. StrangersOnlyAfterClose'
  <2> SUFFICES ASSUME ~harmed PROVE StrangersOnlyAfterClose'
    BY DEF StrangersOnlyAfterClose
  <2>1. \A p, f : Keeps(p, f)' <=> Keeps(p, f)
    BY DEF Keeps, IsFor
  <2>2. Keeps(o, at[t].fd)
    BY <1>2 DEF ServerInv, StrangersOnlyAfterClose
  <2>3. \A p \in Objects : life'[p] \in {"alive", "serving"} => Keeps(p, m_socket'[p])
    <3>1. ASSUME NEW p \in Objects, p # o, life'[p] \in {"alive", "serving"}
          PROVE  Keeps(p, m_socket'[p])
      <4>1. m_socket'[p] = m_socket[p] /\ life[p] \in {"alive", "serving"}
        BY ONLY <1>2, <3>1
      <4> QED
        BY <4>1 DEF ServerInv, StrangersOnlyAfterClose
    <3> QED
      BY ONLY <1>2, <2>2, <3>1
  <2>4. \A u \in Threads : at'[u].in # "idle" => Keeps(at'[u].obj, at'[u].fd)
    <3>1. ASSUME NEW u \in Threads, at'[u].in # "idle"
          PROVE  Keeps(at'[u].obj, at'[u].fd)
      <4>1. at'[u] = at[u]
        BY ONLY <1>1, <3>1
      <4> QED
        BY <3>1, <4>1 DEF ServerInv, StrangersOnlyAfterClose
    <3> QED
      BY <3>1
  <2> QED
    BY ONLY <2>1, <2>3, <2>4 DEF StrangersOnlyAfterClose
<1>7. StoppingReleases'
  <2> SUFFICES ASSUME NEW u \in Threads, at'[u].in = "stopping"
               PROVE  (/\ at[u].fd = m_socket[at[u].obj]
                       /\ at[u].todo = <<>> => ~IsFor(at[u].fd, at[u].obj))'
    BY DEF StoppingReleases
  <2>1. u # t /\ at'[u] = at[u]
    BY <1>1
  <2>2. /\ at[u].obj \in Objects /\ life[at[u].obj] = "serving"
    <3>1. /\ at[u].in \in ServerCalls /\ at[u].obj \in Objects
          /\ at[u].obj = m_pServerSocket
     <4>1. /\ at[u].in = "stopping" /\ "stopping" \in ServerCalls
            /\ CallsOnTheLiving /\ ServerSocketAlive
        BY <2>1 DEF ServerCalls, ServerInv
      <4> QED
        BY ONLY <4>1, u \in Threads DEF CallsOnTheLiving, ServerSocketAlive
    <3> QED
      BY <3>1, SocketAssumption DEF ServerInv, CallsOnTheLiving, ServerSocketAlive
  <2>3. m_socket'[at[u].obj] = m_socket[at[u].obj]
    BY <1>2, <2>2
  <2>4. /\ at[u].fd = m_socket[at[u].obj]
        /\ at[u].todo = <<>> => ~IsFor(at[u].fd, at[u].obj)
    BY <2>1 DEF ServerInv, StoppingReleases
  <2>5. IsFor(at[u].fd, at[u].obj)' <=> IsFor(at[u].fd, at[u].obj)
    BY <2>1 DEF IsFor
  <2> QED
    BY <2>1, <2>3, <2>4, <2>5
<1>8. Claimed'
  <2> SUFFICES ASSUME lost' = {}, NEW f \in Fds, files'[f].of \in Objects
               PROVE  (KeptBy(files[f].of, f) \/ \E u \in Threads : CarriedBy(u, files[f].of, f))'
    BY DEF Claimed
  <2>1. files'[f].of = files[f].of /\ lost = {}
    OBVIOUS
  <2>2. CASE KeptBy(files[f].of, f) /\ files[f].of # o
    BY <1>2, <2>1, <2>2 DEF KeptBy
  <2>3. CASE KeptBy(files[f].of, f) /\ files[f].of = o
    <3>1. at[t].in = "connect" /\ f = m_socket[o] /\ files[f].of = o
      BY <1>2, <2>3 DEF KeptBy, ServerInv, CallsOnTheLiving, Making
    <3> QED
      BY <1>2, <2>1, <3>1 DEF KeptBy
  <2>4. ASSUME NEW u \in Threads, CarriedBy(u, files[f].of, f)
        PROVE  (KeptBy(files[f].of, f) \/ \E v \in Threads : CarriedBy(v, files[f].of, f))'
    <3>1. CASE u = t
      BY <1>2, <2>1, <2>4, <3>1 DEF KeptBy, CarriedBy
    <3>2. CASE u # t
      BY <1>1, <2>1, <2>4, <3>2 DEF CarriedBy
    <3> QED
      BY <3>1, <3>2
  <2> QED
    BY <2>1, <2>2, <2>3, <2>4 DEF ServerInv, Claimed
<1> QED
  BY <1>3, <1>4, <1>5, <1>6, <1>7, <1>8 DEF ServerInv

-----------------------------------------------------------------------------
(* A call ends: a destructor, a listen() or a connectToHost() that failed, *)
(* and the server's close(), which holds the lock until here.              *)
LEMMA EndingStep ==
  ASSUME ServerInv, NEW t \in Threads,
         \/ DeleteReturn(t) /\ UNCHANGED serverVars
         \/ ConnectFails(t) /\ UNCHANGED serverVars
         \/ ListenFails(t)
         \/ ServerClosed(t)
  PROVE  ServerInv'
<1> DEFINE o == at[t].obj
<1>0. /\ at \in [Threads -> CallRecords]
      /\ life \in [Objects -> {"unused", "made", "alive", "serving", "deleted"}]
      /\ m_socket \in [Objects -> Fds \cup {NoFd}]
      /\ m_pServerSocket \in Objects \cup {NoObject}
  BY DEF ServerInv, TypedState, CallRecords
<1>1. /\ at[t].in \in {"deleting", "connect", "failing", "stopping"}
      /\ at[t].todo = <<>> /\ at' = [at EXCEPT ![t] = Idle]
      /\ UNCHANGED <<files, returned, harmed, gone>>
  BY DEF DeleteReturn, ConnectFails, ListenFails, ServerClosed, In, Returns, serverVars
<1>2. /\ at'[t] = Idle /\ \A u \in Threads \ {t} : at'[u] = at[u]
      /\ at' \in [Threads -> CallRecords]
      /\ Idle.in = "idle" /\ Idle.todo = <<>>
  BY <1>0, <1>1, CallTyped DEF Idle
<1>3. o \in Objects
  BY <1>1 DEF ServerInv, CallsOnTheLiving
<1>4. /\ at[t].in = "deleting" => life[o] = "deleted"
      /\ at[t].in = "connect" => life[o] = "alive"
      /\ at[t].in = "failing" => life[o] = "made" /\ ~gone
      /\ at[t].in = "stopping" => life[o] = "serving" /\ ~gone /\ o = m_pServerSocket
  BY <1>3, SocketAssumption
     DEF ServerInv, CallsOnTheLiving, ServerSocketAlive, Making, ServerCalls
<1>5. /\ at[t].in \in {"deleting", "connect"} => life' = life
      /\ at[t].in = "failing" => life' = [life EXCEPT ![o] = "unused"]
      /\ at[t].in = "stopping" => life' = [life EXCEPT ![o] = "deleted"]
      /\ at[t].in \in {"connect", "failing"} => m_socket' = m_socket
      /\ at[t].in \in {"deleting", "stopping"} => m_socket' = [m_socket EXCEPT ![o] = NoFd]
      /\ at[t].in # "connect" => lost' = lost
      /\ at[t].in = "connect" => lost' = lost \cup {"connect failed"}
      /\ at[t].in # "stopping" => UNCHANGED <<m_pServerSocket, lock>>
      /\ at[t].in = "stopping" => m_pServerSocket' = NoObject /\ lock' = NoThread
  BY DEF DeleteReturn, ConnectFails, ListenFails, ServerClosed, In, serverVars
<1>6. /\ life' \in [Objects -> {"unused", "made", "alive", "serving", "deleted"}]
      /\ m_socket' \in [Objects -> Fds \cup {NoFd}]
      /\ \A p \in Objects \ {o} : life'[p] = life[p] /\ m_socket'[p] = m_socket[p]
      /\ at[t].in \in {"failing", "stopping"} => life'[o] \in {"unused", "deleted"}
      /\ at[t].in \in {"deleting", "stopping"} => life'[o] = "deleted"
  BY <1>0, <1>1, <1>3, <1>4, <1>5
<1>7. \A u \in Threads : at'[u].in = "stopping" => /\ u # t /\ at'[u] = at[u]
                                                  /\ at[t].in # "stopping"
  <2>1. at[t].in = "stopping" => \A u \in Threads \ {t} : at[u].in # "stopping"
    BY DEF ServerInv, TypedState
  <2> QED
    BY <1>2, <2>1
<1>8. TypedState'
  <2>1. lost' \subseteq {"overwritten", "descriptor 0", "connect failed",
                         "listen overtaken"}
    BY <1>1, <1>5 DEF ServerInv, TypedState
  <2>2. /\ m_pServerSocket' \in Objects \cup {NoObject}
        /\ lock' \in Servers \cup {NoThread}
    BY <1>0, <1>1, <1>5 DEF ServerInv, TypedState
  <2>3. \A u \in Threads : at'[u].in = "stopping" <=> lock' = u
    <3>1. /\ \A u \in Threads : at[u].in = "stopping" <=> lock = u
          /\ NoThread \notin Threads
      BY ServerAssumption DEF ServerInv, TypedState
    <3> QED
      BY <1>1, <1>2, <1>5, <3>1
  <2> QED
    BY <1>1, <1>2, <1>6, <2>1, <2>2, <2>3 DEF ServerInv, TypedState, CallRecords
<1>9. CallsOnTheLiving'
  <2>1. ASSUME NEW u \in Threads
        PROVE  /\ at'[u].in = "listen" => at'[u].fd = NoFd
               /\ at'[u].in \notin {"idle", "listen"} => at'[u].obj \in Objects
               /\ at'[u].todo # <<>> =>
                    /\ at'[u].in \in {"closing", "deleting", "connecting",
                                      "failing", "stopping"}
                    /\ at'[u].todo[Len(at'[u].todo)] = "close"
               /\ at'[u].in \in {"closing", "connecting", "connect", "transfer",
                                 "line"} => life'[at'[u].obj] = "alive"
               /\ at'[u].in \in Making => life'[at'[u].obj] = "made"
               /\ at'[u].in = "deleting" => life'[at'[u].obj] = "deleted"
               /\ at'[u].in \in ServerCalls => ~gone
    <3>1. CASE u = t
      BY <1>2, <3>1 DEF Making, ServerCalls
    <3>2. CASE u # t /\ (at[u].obj # o \/ life' = life)
      BY <1>2, <1>6, <3>2 DEF ServerInv, CallsOnTheLiving, Making
    <3>3. CASE u # t /\ at[u].obj = o /\ life' # life
      <4>1. at[t].in \in {"failing", "stopping"} /\ life[o] \in {"made", "serving"}
        BY <1>1, <1>4, <1>5, <3>3
      <4>2. at[u].in \notin Making
        BY <1>4, <3>3, <4>1 DEF ServerInv, CallsOnTheLiving, Making
      <4> QED
        BY <1>2, <3>3, <4>1, <4>2 DEF ServerInv, CallsOnTheLiving
    <3> QED
      BY <3>1, <3>2, <3>3
  <2>2. \A u, v \in Threads :
          at'[u].in \in Making /\ at'[v].in \in Making /\ at'[u].obj = at'[v].obj =>
            u = v
    <3>1. \A u \in Threads : at'[u].in \in Making => at'[u] = at[u]
      BY <1>2 DEF Making
    <3>2. CallsOnTheLiving
      BY DEF ServerInv
    <3> QED
      BY ONLY <3>1, <3>2 DEF CallsOnTheLiving
  <2> QED
    BY <1>1, <2>1, <2>2 DEF CallsOnTheLiving
<1>10. ServerSocketAlive'
  <2>1. ~gone /\ m_pServerSocket' # NoObject => life'[m_pServerSocket'] = "serving"
    BY <1>0, <1>1, <1>3, <1>4, <1>5, <1>6 DEF ServerInv, ServerSocketAlive
  <2>2. \A u \in Threads : at'[u].in = "stopping" => at'[u].obj = m_pServerSocket'
    BY <1>1, <1>5, <1>7 DEF ServerInv, ServerSocketAlive
  <2> QED
    BY <1>1, <2>1, <2>2 DEF ServerSocketAlive
<1>11. OthersElsewhere' /\ StrangersOnlyAfterClose'
  <2>1. \A p, f : Keeps(p, f)' <=> Keeps(p, f)
    BY <1>1 DEF Keeps, IsFor
  <2>2. \A p \in Objects : life'[p] \in {"alive", "serving"} =>
          life'[p] = life[p] /\ m_socket'[p] = m_socket[p]
    BY <1>1, <1>5, <1>6
  <2> QED
    BY <1>1, <1>2, <2>1, <2>2
       DEF ServerInv, OthersElsewhere, StrangersOnlyAfterClose
<1>12. StoppingReleases'
  <2> SUFFICES ASSUME NEW u \in Threads, at'[u].in = "stopping"
               PROVE  (/\ at[u].fd = m_socket[at[u].obj]
                       /\ at[u].todo = <<>> => ~IsFor(at[u].fd, at[u].obj))'
    BY DEF StoppingReleases
  <2>1. u # t /\ at'[u] = at[u] /\ at[t].in # "stopping"
    BY <1>7
  <2>2. life[at[u].obj] = "serving" /\ at[u].obj \in Objects
    <3>1. /\ at[u].in \in ServerCalls /\ at[u].obj \in Objects
          /\ at[u].obj = m_pServerSocket
      BY <2>1 DEF ServerInv, CallsOnTheLiving, ServerSocketAlive, ServerCalls
    <3> QED
      BY <3>1, SocketAssumption DEF ServerInv, CallsOnTheLiving, ServerSocketAlive
  <2>3. m_socket'[at[u].obj] = m_socket[at[u].obj]
    BY <1>1, <1>4, <1>6, <2>1, <2>2
  <2> QED
    BY <1>1, <2>1, <2>3 DEF ServerInv, StoppingReleases, IsFor
<1>13. Claimed'
  <2> SUFFICES ASSUME lost' = {}, NEW f \in Fds, files'[f].of \in Objects
               PROVE  (KeptBy(files[f].of, f) \/ \E u \in Threads : CarriedBy(u, files[f].of, f))'
    BY DEF Claimed
  <2>1. files' = files /\ lost = {} /\ at[t].in # "connect"
    BY <1>1, <1>5
  <2>2. CASE KeptBy(files[f].of, f) /\ files[f].of # o
    BY <1>6, <2>1, <2>2 DEF KeptBy
  <2>3. CASE KeptBy(files[f].of, f) /\ files[f].of = o
    <3>1. at[t].in = "stopping" /\ f = at[t].fd
      BY <1>1, <1>4, <2>1, <2>3 DEF KeptBy, ServerInv, StoppingReleases
    <3> QED
      BY <1>1, <2>3, <3>1 DEF ServerInv, StoppingReleases, IsFor
  <2>4. ASSUME NEW u \in Threads, CarriedBy(u, files[f].of, f)
        PROVE  CarriedBy(u, files[f].of, f)'
    <3>1. u # t
      BY <1>1, <2>1, <2>4 DEF CarriedBy
    <3> QED
      BY <1>2, <2>1, <2>4, <3>1 DEF CarriedBy
  <2> QED
    BY <2>1, <2>2, <2>3, <2>4 DEF ServerInv, Claimed
<1> QED
  BY <1>8, <1>9, <1>10, <1>11, <1>12, <1>13 DEF ServerInv

(* The destructor of a server that does not listen.                        *)
LEMMA DestroyedIdle ==
  ASSUME ServerInv, \A u \in Threads : at[u].in \notin ServerCalls, gone' = TRUE,
         UNCHANGED <<socketVars, m_pServerSocket, lock>>
  PROVE  ServerInv'
<1>1. UNCHANGED <<files, life, m_socket, at, returned, harmed, lost>>
  BY DEF socketVars
<1>2. TypedState'
  BY <1>1 DEF ServerInv, TypedState
<1>3. CallsOnTheLiving'
  BY <1>1 DEF ServerInv, CallsOnTheLiving
<1>4. OthersElsewhere' /\ ServerSocketAlive' /\ StoppingReleases'
  BY <1>1 DEF ServerInv, OthersElsewhere, ServerSocketAlive, StoppingReleases, IsFor
<1>5. StrangersOnlyAfterClose' /\ Claimed'
  BY <1>1 DEF ServerInv, StrangersOnlyAfterClose, Claimed, Keeps, IsFor, KeptBy, CarriedBy
<1> QED
  BY <1>2, <1>3, <1>4, <1>5 DEF ServerInv

(* Nothing is open for an object and no call is under way at first.        *)
LEMMA ServerInvInit == ServerInit => ServerInv
<1> SUFFICES ASSUME ServerInit PROVE ServerInv
  OBVIOUS
<1> USE DEF ServerInit, Init
<1>0. /\ NoFd \notin Fds /\ NoThread \notin Threads /\ NoObject \notin Objects
      /\ NoObject # Elsewhere
  BY SocketAssumption, ServerAssumption DEF NoFd
<1>1. \A t \in Threads : /\ at[t] = Idle /\ Idle \in CallRecords
                         /\ Idle.in = "idle" /\ Idle.todo = <<>> /\ Idle.fd = NoFd
  BY CallTyped DEF Idle
<1>2. \A f \in Fds : /\ files[f] = Free /\ Free \in FileRecords
                     /\ Free.of = NoObject /\ Free.kind = "free"
  BY SocketAssumption DEF Free, FileRecords, Kinds
<1>3. TypedState
  <2>1. files \in [Fds -> FileRecords] /\ at \in [Threads -> CallRecords]
    BY <1>1, <1>2
  <2> QED
    BY <1>0, <1>1, <1>2, <2>1 DEF TypedState, FileRecords, CallRecords
<1>4. CallsOnTheLiving /\ OthersElsewhere /\ ServerSocketAlive
  BY <1>1, <1>2 DEF CallsOnTheLiving, OthersElsewhere, ServerSocketAlive, Making, ServerCalls
<1>5. StrangersOnlyAfterClose /\ StoppingReleases /\ Claimed
  BY <1>0, <1>1, <1>2 DEF StrangersOnlyAfterClose, StoppingReleases, Claimed, Keeps
<1> QED
  BY <1>3, <1>4, <1>5 DEF ServerInv

-----------------------------------------------------------------------------
(* The actions, one by one: which of the steps above each of them is.      *)

LEMMA LastOfConcat ==
  ASSUME NEW S, NEW s \in Seq(S), NEW u \in Seq(S), u # <<>>
  PROVE  s \o u \in Seq(S) /\ s \o u # <<>> /\ (s \o u)[Len(s \o u)] = u[Len(u)]
<1>1. Len(u) \in Nat \ {0} /\ Len(s) \in Nat
  BY EmptySeq
<1> DEFINE both == s \o u
<1>2. /\ both \in Seq(S) /\ Len(both) = Len(s) + Len(u)
      /\ both[Len(s) + Len(u)] = u[Len(u)]
  BY <1>1, ConcatProperties
<1> HIDE DEF both
<1>3. both # <<>>
  BY <1>1, <1>2
<1> QED
  BY <1>2, <1>3 DEF both

LEMMA ClosingCalls ==
  \A calls \in {CloseCalls, CloseCalls \o DestructorCalls, DestructorCalls} :
    calls \in Seq({"shutdown", "close"}) /\ calls # <<>> /\ calls[Len(calls)] = "close"
<1> DEFINE Ends(s) == s \in Seq({"shutdown", "close"}) /\ s # <<>> /\ s[Len(s)] = "close"
           last == <<"close">>
<1>1. Ends(CloseCalls)
  BY DEF CloseCalls
<1>2. Ends(last)
  OBVIOUS
<1>3. DestructorCalls = CloseCalls \o last
  BY DEF DestructorCalls
<1> HIDE DEF last
<1>4. \A s, u : Ends(s) /\ Ends(u) => Ends(s \o u)
  BY LastOfConcat
<1> HIDE DEF Ends
<1>5. Ends(DestructorCalls)
  BY <1>1, <1>2, <1>3, <1>4
<1>6. Ends(CloseCalls \o DestructorCalls)
  BY <1>1, <1>4, <1>5
<1> QED
  BY <1>1, <1>5, <1>6 DEF Ends

(* What socket(), accept() and open() do to the file table.                *)
LEMMA OpenedFiles ==
  ASSUME FilesTyped, OthersElsewhere, NEW f \in Fds,
         NEW o \in Objects \cup {Elsewhere}, NEW kind \in Kinds \ {"free"},
         kind = "other" => o = Elsewhere, Lowest(f),
         files'[f].of = o, files'[f].kind = kind,
         files' \in [Fds -> FileRecords],
         \A g \in Fds \ {f} : files'[g].of = files[g].of /\ files'[g].kind = files[g].kind
  PROVE  /\ FilesTyped' /\ OthersElsewhere'
         /\ files[f].of = NoObject /\ files'[f].of = o
<1>1. files[f].of = NoObject
  BY DEF FilesTyped, Lowest, Kind
<1>2. o # NoObject /\ kind # "free"
  BY SocketAssumption
<1>3. ASSUME NEW g \in Fds
      PROVE  /\ files'[g].kind = "free" <=> files'[g].of = NoObject
             /\ files'[g].kind = "other" => files'[g].of = Elsewhere
  BY <1>2 DEF FilesTyped, OthersElsewhere
<1> QED
  BY <1>1, <1>3 DEF FilesTyped, OthersElsewhere

LEMMA OpenedRecord ==
  \A o \in Objects \cup {Elsewhere}, kind \in Kinds :
    LET rec == [Free EXCEPT !.of = o, !.kind = kind]
    IN  rec \in FileRecords /\ rec.of = o /\ rec.kind = kind
<1>1. Free \in FileRecords
  BY SocketAssumption DEF Free, FileRecords, Kinds
<1> QED
  BY <1>1 DEF FileRecords

(* A change of what a descriptor refers to that leaves its owner.          *)
LEMMA SameOwnerFiles ==
  ASSUME FilesTyped, OthersElsewhere, files' \in [Fds -> FileRecords],
         \A g \in Fds :
           /\ files'[g].of = files[g].of
           /\ \/ files'[g].kind = files[g].kind
              \/ {files[g].kind, files'[g].kind} \cap {"free", "other"} = {}
  PROVE  FilesTyped' /\ OthersElsewhere'
<1> QED
  BY DEF FilesTyped, OthersElsewhere

LEMMA SocketStepInv ==
  ASSUME ServerInv, NEW t \in Threads, SocketStep(t), UNCHANGED serverVars
  PROVE  ServerInv'
<1>0. /\ at \in [Threads -> CallRecords] /\ at[t] \in CallRecords
      /\ FilesTyped /\ OthersElsewhere
      /\ Idle \in CallRecords /\ Idle.in = "idle" /\ Idle.todo = <<>>
  BY CallTyped DEF ServerInv, TypedState, CallRecords, FilesTyped, FileRecords, Idle
<1>1. CASE SystemCall(t)
  BY <1>1, ClosingStep
<1>2. CASE CloseReturn(t) \/ TransferReturn(t) \/ RecvFails(t)
  BY <1>0, <1>2, QuietStep DEF CloseReturn, TransferReturn, RecvFails, In, Returns
<1>3. CASE RecvNothing(t) \/ RecvChar(t)
  <2>1. /\ at[t].in = "line" /\ at[t].todo = <<>> /\ at[t].left \in Nat
        /\ UNCHANGED <<files, life, m_socket, returned, harmed, lost>>
    BY <1>0, <1>3 DEF RecvNothing, RecvChar, In, CallRecords
  <2>2. CASE Returns(t)
    BY <1>0, <2>1, <2>2, QuietStep DEF Returns
  <2>3. ASSUME NEW n \in Nat, at' = [at EXCEPT ![t].left = n] PROVE ServerInv'
    <3> DEFINE r == [at[t] EXCEPT !.left = n]
    <3>1. r \in CallRecords
      BY <1>0, CallTyped
    <3>2. /\ r.in = "line" /\ r.obj = at[t].obj /\ r.fd = at[t].fd /\ r.todo = <<>>
          /\ at' = [at EXCEPT ![t] = r]
      BY <1>0, <2>1, <2>3 DEF CallRecords
    <3> HIDE DEF r
    <3> QED
      BY <2>1, <3>1, <3>2, QuietStep
  <2>4. \/ Returns(t)
        \/ \E n \in Nat : at' = [at EXCEPT ![t].left = n]
    BY <1>3, <2>1 DEF RecvNothing, RecvChar, AnotherRound
  <2> QED
    BY <2>2, <2>3, <2>4
<1>4. CASE DeleteReturn(t) \/ ConnectFails(t)
  BY <1>4, EndingStep
<1>5. CASE ConnectOpen(t) /\ Full
  BY <1>0, <1>5, QuietStep DEF ConnectOpen, In, Returns, Full, Opened, Lowest
<1>6. CASE ConnectOpen(t) /\ ~Full
  <2>1. PICK f \in Fds : /\ Opened(f, at[t].obj, "fresh")
                         /\ Go(t, "connect", at[t].obj, f, <<>>)
    BY <1>6 DEF ConnectOpen
  <2>2. /\ at[t].in = "connecting" /\ at[t].obj \in Objects
        /\ UNCHANGED <<life, m_socket, harmed, lost>>
    BY <1>6 DEF ConnectOpen, In, ServerInv, CallsOnTheLiving
  <2> DEFINE r == [in |-> "connect", obj |-> at[t].obj, fd |-> f, todo |-> <<>>,
                   left |-> 0]
  <2>3. /\ r \in CallRecords /\ at' = [at EXCEPT ![t] = r]
        /\ r.in = "connect" /\ r.obj = at[t].obj /\ r.fd = f /\ r.todo = <<>>
    BY <2>1, <2>2, CallTyped, EmptySeq DEF Go, Calls
  <2>4. "fresh" \in Kinds \ {"free"}
    BY DEF Kinds
  <2> DEFINE rec == [Free EXCEPT !.of = at[t].obj, !.kind = "fresh"]
  <2>5. rec \in FileRecords /\ rec.of = at[t].obj /\ rec.kind = "fresh"
    BY <2>2, <2>4, OpenedRecord
  <2>6. /\ Lowest(f) /\ returned' = returned \ {<<at[t].obj, f>>}
        /\ files' = [files EXCEPT ![f] = rec]
    BY <2>1 DEF Opened
  <2> HIDE DEF r, rec
  <2>7. /\ files' \in [Fds -> FileRecords] /\ files'[f] = rec
        /\ \A g \in Fds \ {f} : files'[g] = files[g]
    BY <1>0, <2>5, <2>6 DEF FilesTyped
  <2>8. /\ FilesTyped' /\ OthersElsewhere'
        /\ files[f].of = NoObject /\ files'[f].of = at[t].obj
    BY <1>0, <2>2, <2>4, <2>5, <2>6, <2>7, OpenedFiles
  <2> DEFINE o == at[t].obj
  <2>9. /\ at[t].in = "connecting" /\ at[t].obj = o /\ r.in = "connect" /\ UNCHANGED life
        /\ o \in Objects /\ f \in Fds /\ r.obj = o /\ r.fd = f /\ r.todo = <<>>
        /\ UNCHANGED <<m_socket, harmed, lost, serverVars>>
        /\ \A g \in Fds \ {f} : files'[g].of = files[g].of
        /\ files[f].of = NoObject /\ files'[f].of = o
        /\ returned' = returned \ {<<o, f>>}
    BY <2>2, <2>3, <2>6, <2>7, <2>8
  <2>10. /\ r \in CallRecords /\ at' = [at EXCEPT ![t] = r]
         /\ FilesTyped' /\ OthersElsewhere'
    BY <2>3, <2>8
  <2> HIDE DEF o
  <2> QED
    BY ONLY t \in Threads, ServerInv, <2>9, <2>10, OpeningStep, Zenon
<1>7. CASE ConnectDone(t)
  <2> DEFINE o == at[t].obj
             fd == at[t].fd
  <2>1. /\ at[t].in = "connect" /\ at[t].todo = <<>> /\ o \in Objects
        /\ Kind(fd) = "fresh" /\ fd \in Fds
        /\ UNCHANGED <<life, returned, harmed>>
    BY <1>7 DEF ConnectDone, In, Kind, ServerInv, CallsOnTheLiving
  <2>2. /\ at' = [at EXCEPT ![t] = Idle]
        /\ m_socket' = [m_socket EXCEPT ![o] = fd]
        /\ files' = [files EXCEPT ![fd].kind = "connected"]
    BY <1>7 DEF ConnectDone, Returns
  <2>3. /\ lost \subseteq lost'
        /\ lost' \subseteq {"overwritten", "descriptor 0", "connect failed",
                            "listen overtaken"}
    BY <1>7 DEF ConnectDone, ServerInv, TypedState
  <2>4. \A f \in Fds : f = m_socket[o] /\ files[f].of = o /\ lost' = {} => f = fd
    <3> SUFFICES ASSUME NEW f \in Fds, f = m_socket[o], files[f].of = o, f # fd
                 PROVE  lost' # {}
      OBVIOUS
    <3>1. CASE IsConnected(o)
      <4>1. "overwritten" \in lost'
        BY <1>7, <3>1 DEF ConnectDone, IsFor
      <4> QED
        BY <4>1
    <3>2. CASE ~IsConnected(o)
      <4>1. "descriptor 0" \in lost'
        BY <1>7, <3>2 DEF ConnectDone, IsFor
      <4> QED
        BY <4>1
    <3> QED
      BY <3>1, <3>2
  <2>5. /\ files' \in [Fds -> FileRecords]
        /\ \A f \in Fds : files'[f].of = files[f].of
        /\ \A f \in Fds \ {fd} : files'[f].kind = files[f].kind
        /\ files'[fd].kind = "connected"
    BY <1>0, <2>1, <2>2 DEF FilesTyped, FileRecords, Kinds
  <2>6. FilesTyped' /\ OthersElsewhere'
    BY <1>0, <2>1, <2>5, SameOwnerFiles DEF Kind
  <2> QED
    BY <2>1, <2>2, <2>3, <2>4, <2>5, <2>6, SettingStep
<1> QED
  BY <1>1, <1>2, <1>3, <1>4, <1>5, <1>6, <1>7 DEF SocketStep

LEMMA SocketCallInv ==
  ASSUME ServerInv, NEW o \in Objects, SocketCall(o), UNCHANGED serverVars
  PROVE  ServerInv'
<1>0. /\ Users \subseteq Threads /\ Readers \subseteq Threads /\ LineSizes \subseteq Nat
      /\ m_socket[o] \in Fds \cup {NoFd} /\ o \in Objects \cup {NoObject}
      /\ UNCHANGED <<m_pServerSocket, lock, gone>>
  BY SocketAssumption DEF ServerInv, TypedState, serverVars
<1>1. ASSUME NEW t \in Threads, NEW phase \in {"closing", "connecting", "transfer", "line"},
             NEW calls \in Seq({"shutdown", "close"}), NEW n \in Nat,
             Usable(t, o),
             at' = [at EXCEPT ![t] = [in |-> phase, obj |-> o, fd |-> m_socket[o],
                                      todo |-> calls, left |-> n]],
             calls # <<>> => phase \in {"closing", "connecting"}
                             /\ calls[Len(calls)] = "close",
             UNCHANGED <<files, life, m_socket, returned, harmed, lost>>
      PROVE  ServerInv'
  <2> DEFINE r == [in |-> phase, obj |-> o, fd |-> m_socket[o], todo |-> calls, left |-> n]
  <2>1. /\ r \in CallRecords /\ at' = [at EXCEPT ![t] = r]
        /\ r.in = phase /\ r.obj = o /\ r.fd = m_socket[o] /\ r.todo = calls
    BY <1>0, <1>1, CallTyped DEF Calls
  <2>2. at[t].in = "idle" /\ life[o] = "alive"
    BY <1>1 DEF Usable, Ready, In
  <2> HIDE DEF r
  <2>3. r.in \notin {"listen", "select", "stopping"}
    BY <2>1
  <2> QED
    BY <1>0, <1>1, <2>1, <2>2, <2>3, CallBegins
<1>2. ASSUME NEW t \in Users, Close(t, o) PROVE ServerInv'
  BY <1>0, <1>1, <1>2, ClosingCalls DEF Close, Go
<1>3. ASSUME NEW t \in Users, Delete(t, o) PROVE ServerInv'
  <2> DEFINE r == [in |-> "deleting", obj |-> o, fd |-> m_socket[o],
                   todo |-> DestructorCalls, left |-> 0]
  <2>1. /\ r \in CallRecords /\ at' = [at EXCEPT ![t] = r]
        /\ r.in = "deleting" /\ r.obj = o /\ r.fd = m_socket[o]
        /\ r.todo # <<>> /\ r.todo[Len(r.todo)] = "close"
    BY <1>0, <1>3, CallTyped, ClosingCalls DEF Calls, Delete, Go
  <2>2. /\ at[t].in = "idle" /\ life[o] = "alive" /\ \A u \in Threads : at[u].obj # o
        /\ life' = [life EXCEPT ![o] = "deleted"]
        /\ UNCHANGED <<files, m_socket, returned, harmed, lost>>
    BY <1>3 DEF Delete, Usable, Ready, In
  <2> HIDE DEF r
  <2> QED
    BY <1>0, <2>1, <2>2, DeletionBegins
<1>4. ASSUME NEW t \in Users, Connect(t, o) PROVE ServerInv'
  <2>1. /\ Usable(t, o) /\ t \in Threads
        /\ UNCHANGED <<files, life, m_socket, returned, harmed, lost>>
    BY <1>0, <1>4 DEF Connect
  <2>2. CASE IsConnected(o)
    BY <1>1, <1>4, <2>1, <2>2, ClosingCalls DEF Connect, Go
  <2>3. CASE ~IsConnected(o)
    BY <1>1, <1>4, <2>1, <2>3, EmptySeq DEF Connect, Go
  <2> QED
    BY <2>2, <2>3
<1>5. ASSUME NEW t \in Readers, Transfer(t, o) PROVE ServerInv'
  BY <1>0, <1>1, <1>5, EmptySeq DEF Transfer, Go
<1>6. ASSUME NEW t \in Readers, NEW size \in LineSizes, ReadLine(t, o, size)
      PROVE  ServerInv'
  BY <1>0, <1>1, <1>6, EmptySeq DEF ReadLine
<1> QED
  BY <1>2, <1>3, <1>4, <1>5, <1>6 DEF SocketCall

LEMMA SurroundingsInv ==
  ASSUME ServerInv, Surroundings, UNCHANGED serverVars
  PROVE  ServerInv'
<1>0. FilesTyped /\ OthersElsewhere
  BY DEF ServerInv, TypedState, FilesTyped, FileRecords
<1>1. PICK f \in Fds : \/ PeerCloses(f) \/ Arrives(f)
                       \/ OpenElsewhere(f) \/ CloseElsewhere(f)
  BY DEF Surroundings
<1>2. CASE PeerCloses(f)
  <2>1. /\ files[f].kind = "connected"
        /\ files' = [files EXCEPT ![f].kind = "eof"]
    BY <1>2 DEF PeerCloses, Kind
  <2>2. /\ files' \in [Fds -> FileRecords]
        /\ \A g \in Fds : files'[g].of = files[g].of
        /\ \A g \in Fds \ {f} : files'[g].kind = files[g].kind
        /\ files'[f].kind = "eof"
    BY <1>0, <2>1 DEF FilesTyped, FileRecords, Kinds
  <2>3. FilesTyped' /\ OthersElsewhere'
    BY <1>0, <2>1, <2>2, SameOwnerFiles
  <2> QED
    BY <1>2, <2>2, <2>3, FilesStep DEF PeerCloses
<1>3. CASE Arrives(f)
  <2>1. /\ files[f].backlog + 1 \in 0 .. MaxBacklog
        /\ files' = [files EXCEPT ![f].backlog = @ + 1]
    BY <1>0, <1>3, SocketAssumption DEF Arrives, FilesTyped, FileRecords
  <2>2. /\ files' \in [Fds -> FileRecords]
        /\ \A g \in Fds : files'[g].of = files[g].of /\ files'[g].kind = files[g].kind
    BY <1>0, <2>1 DEF FilesTyped, FileRecords
  <2>3. FilesTyped' /\ OthersElsewhere'
    BY <1>0, <2>2, SameOwnerFiles
  <2> QED
    BY <1>3, <2>2, <2>3, FilesStep DEF Arrives
<1>4. CASE OpenElsewhere(f)
  <2> DEFINE rec == [Free EXCEPT !.of = Elsewhere, !.kind = "other"]
  <2>1. "other" \in Kinds \ {"free"} /\ Elsewhere \in Objects \cup {Elsewhere}
    BY DEF Kinds
  <2>2. rec \in FileRecords /\ rec.of = Elsewhere /\ rec.kind = "other"
    BY <2>1, OpenedRecord
  <2>3. /\ Lowest(f) /\ files' = [files EXCEPT ![f] = rec]
        /\ returned' = returned \ {<<Elsewhere, f>>}
        /\ UNCHANGED <<life, m_socket, at, harmed, lost>>
    BY <1>4 DEF OpenElsewhere, Opened
  <2> HIDE DEF rec
  <2>4. returned' = returned
    <3>1. <<Elsewhere, f>> \notin returned
      <4>1. returned \subseteq Objects \X Fds
        BY DEF ServerInv, TypedState
      <4> QED
        BY <4>1, SocketAssumption
    <3> QED
      BY <2>3, <3>1
  <2>5. /\ files' \in [Fds -> FileRecords] /\ files'[f] = rec
        /\ \A g \in Fds \ {f} : files'[g] = files[g]
    BY <1>0, <2>2, <2>3 DEF FilesTyped
  <2>6. /\ FilesTyped' /\ OthersElsewhere'
        /\ files[f].of = NoObject /\ files'[f].of = Elsewhere
    BY <1>0, <2>1, <2>2, <2>3, <2>5, OpenedFiles
  <2> QED
    BY <2>3, <2>4, <2>5, <2>6, FilesStep
<1>5. CASE CloseElsewhere(f)
  <2>1. /\ files[f].of = Elsewhere /\ files' = [files EXCEPT ![f] = Free]
        /\ UNCHANGED <<life, m_socket, at, returned, harmed, lost>>
    BY <1>0, <1>5 DEF CloseElsewhere, Kind, OthersElsewhere
  <2>2. Free \in FileRecords /\ Free.of = NoObject /\ Free.kind = "free"
    BY SocketAssumption DEF Free, FileRecords, Kinds
  <2>3. /\ files' \in [Fds -> FileRecords] /\ files'[f] = Free
        /\ \A g \in Fds \ {f} : files'[g] = files[g]
    BY <1>0, <2>1, <2>2 DEF FilesTyped
  <2>4. ASSUME NEW g \in Fds
        PROVE  /\ files'[g].kind = "free" <=> files'[g].of = NoObject
               /\ files'[g].kind = "other" => files'[g].of = Elsewhere
    BY <1>0, <2>2, <2>3 DEF FilesTyped, OthersElsewhere
  <2>5. FilesTyped' /\ OthersElsewhere'
    BY <2>3, <2>4 DEF FilesTyped, OthersElsewhere
  <2> QED
    BY <2>1, <2>2, <2>3, <2>5, FilesStep
<1> QED
  BY <1>1, <1>2, <1>3, <1>4, <1>5

LEMMA ServerStepInv ==
  ASSUME ServerInv, NEW t \in Threads, ServerStep(t)
  PROVE  ServerInv'
<1>0. /\ at \in [Threads -> CallRecords] /\ at[t] \in CallRecords
      /\ FilesTyped /\ OthersElsewhere
      /\ Idle \in CallRecords /\ Idle.in = "idle" /\ Idle.todo = <<>>
      /\ <<>> \in Seq({"shutdown", "close"})
  BY CallTyped, EmptySeq DEF ServerInv, TypedState, CallRecords, FilesTyped, FileRecords, Idle
<1>1. CASE ListenFails(t) \/ ServerClosed(t)
  BY <1>1, EndingStep
<1>2. CASE AcceptFails(t)
  BY <1>0, <1>2, QuietStep DEF AcceptFails, In, Returns
<1>3. CASE Select(t)
  <2>1. /\ at[t].in = "select" /\ at[t].todo = <<>>
        /\ UNCHANGED <<files, life, m_socket, returned, harmed, lost, serverVars>>
    BY <1>3 DEF Select, In
  <2>2. CASE Returns(t)
    BY <1>0, <2>1, <2>2, QuietStep DEF Returns
  <2>3. CASE Go(t, "accept", at[t].obj, at[t].fd, <<>>)
    <3> DEFINE r == [in |-> "accept", obj |-> at[t].obj, fd |-> at[t].fd, todo |-> <<>>,
                     left |-> 0]
    <3>1. at[t].obj \in Objects \cup {NoObject} /\ at[t].fd \in Fds \cup {NoFd}
      BY <1>0 DEF CallRecords
    <3>2. "accept" \in Calls
      BY DEF Calls, ServerCalls
    <3>3. /\ r \in CallRecords /\ at' = [at EXCEPT ![t] = r]
          /\ r.in = "accept" /\ r.obj = at[t].obj /\ r.fd = at[t].fd /\ r.todo = <<>>
      BY <1>0, <2>3, <3>1, <3>2, CallTyped DEF Go
    <3> HIDE DEF r
    <3> QED
      BY <2>1, <3>3, QuietStep
  <2> QED
    BY <1>3, <2>2, <2>3 DEF Select
<1>9. CASE AcceptBegins(t)
  <2> DEFINE r == [in |-> "accepting", obj |-> at[t].obj, fd |-> at[t].fd,
                   todo |-> <<>>, left |-> 0]
  <2>1. /\ at[t].in = "accept" /\ at[t].todo = <<>>
        /\ UNCHANGED <<files, life, m_socket, returned, harmed, lost, serverVars>>
    BY <1>9 DEF AcceptBegins, In
  <2>2. at[t].obj \in Objects \cup {NoObject} /\ at[t].fd \in Fds \cup {NoFd}
    BY <1>0 DEF CallRecords
  <2>3. "accepting" \in Calls
    BY DEF Calls, ServerCalls
  <2>4. /\ r \in CallRecords /\ at' = [at EXCEPT ![t] = r]
        /\ r.in = "accepting" /\ r.obj = at[t].obj /\ r.fd = at[t].fd
        /\ r.todo = <<>>
    BY <1>0, <1>9, <2>2, <2>3, CallTyped DEF AcceptBegins, Go
  <2> HIDE DEF r
  <2> QED
    BY <2>1, <2>4, QuietStep
<1>4. CASE ListenOpen(t) /\ Full
  BY <1>0, <1>4, QuietStep DEF ListenOpen, In, Returns, Full, Opened, Lowest
<1>5. CASE ListenOpen(t) /\ ~Full
  <2>1. PICK f \in Fds, o \in Objects :
               /\ life[o] = "unused"
               /\ life' = [life EXCEPT ![o] = "made"]
               /\ Opened(f, o, "fresh")
               /\ Go(t, "bind", o, f, <<>>)
    BY <1>5 DEF ListenOpen
  <2>2. /\ at[t].in = "listen" /\ UNCHANGED <<m_socket, harmed, lost, serverVars>>
        /\ o \in Objects \cup {NoObject} /\ f \in Fds \cup {NoFd}
        /\ o \in Objects \cup {Elsewhere}
    BY <1>5 DEF ListenOpen, In
  <2> DEFINE r == [in |-> "bind", obj |-> o, fd |-> f, todo |-> <<>>, left |-> 0]
             rec == [Free EXCEPT !.of = o, !.kind = "fresh"]
  <2>3. "bind" \in Calls /\ "fresh" \in Kinds \ {"free"}
    BY DEF Calls, ServerCalls, Kinds
  <2>4. /\ r \in CallRecords /\ at' = [at EXCEPT ![t] = r]
        /\ r.in = "bind" /\ r.obj = o /\ r.fd = f /\ r.todo = <<>>
    BY <1>0, <2>1, <2>2, <2>3, CallTyped DEF Go
  <2>5. rec \in FileRecords /\ rec.of = o /\ rec.kind = "fresh"
    BY <2>2, <2>3, OpenedRecord
  <2>6. /\ Lowest(f) /\ returned' = returned \ {<<o, f>>}
        /\ files' = [files EXCEPT ![f] = rec]
    BY <2>1 DEF Opened
  <2> HIDE DEF r, rec
  <2>7. /\ files' \in [Fds -> FileRecords] /\ files'[f] = rec
        /\ \A g \in Fds \ {f} : files'[g] = files[g]
    BY <1>0, <2>5, <2>6 DEF FilesTyped
  <2>8. /\ FilesTyped' /\ OthersElsewhere'
        /\ files[f].of = NoObject /\ files'[f].of = o
    BY <1>0, <2>2, <2>3, <2>5, <2>6, <2>7, OpenedFiles
  <2> QED
    BY <2>1, <2>2, <2>4, <2>6, <2>7, <2>8, OpeningStep
<1>6. CASE Bind(t)
  <2> DEFINE fd == at[t].fd
             bound == [in |-> "listening", obj |-> at[t].obj, fd |-> fd, todo |-> <<>>,
                       left |-> 0]
             failed == [in |-> "failing", obj |-> at[t].obj, fd |-> fd,
                        todo |-> <<"close">>, left |-> 0]
  <2>1. /\ at[t].in = "bind" /\ {"listening", "failing"} \subseteq Calls
        /\ at[t].obj \in Objects \cup {NoObject} /\ fd \in Fds \cup {NoFd}
        /\ UNCHANGED <<life, m_socket, returned, harmed, lost, serverVars>>
    BY <1>0, <1>6 DEF Bind, In, Calls, ServerCalls, CallRecords
  <2>2. CASE Kind(fd) = "fresh" /\ files' = [files EXCEPT ![fd].kind = "listening"]
             /\ Go(t, "listening", at[t].obj, fd, <<>>)
    <3>1. /\ bound \in CallRecords /\ at' = [at EXCEPT ![t] = bound]
          /\ bound.in = "listening" /\ bound.obj = at[t].obj /\ bound.fd = fd
          /\ bound.todo = <<>>
      BY <1>0, <2>1, <2>2, CallTyped DEF Go
    <3> HIDE DEF bound
    <3>2. fd \in Fds /\ files[fd].kind = "fresh"
      BY <2>2 DEF Kind
    <3>3. /\ files' \in [Fds -> FileRecords]
          /\ \A f \in Fds : files'[f].of = files[f].of
          /\ \A f \in Fds \ {fd} : files'[f].kind = files[f].kind
          /\ files'[fd].kind = "listening"
      <4>1. files[fd] \in FileRecords /\ files \in [Fds -> FileRecords]
        BY <1>0, <3>2 DEF FilesTyped
      <4> DEFINE rec == [files[fd] EXCEPT !.kind = "listening"]
      <4>2. rec \in FileRecords /\ rec.kind = "listening" /\ rec.of = files[fd].of
        BY ONLY <4>1 DEF FileRecords, Kinds
      <4>3. files' = [files EXCEPT ![fd] = rec]
        BY <2>2
      <4> HIDE DEF rec
      <4> QED
        BY ONLY <3>2, <4>1, <4>2, <4>3
    <3>4. FilesTyped' /\ OthersElsewhere'
      BY <1>0, <3>2, <3>3, SameOwnerFiles
    <3> QED
      BY <2>1, <3>1, <3>3, <3>4, BindStep
  <2>3. CASE files' = files /\ Go(t, "failing", at[t].obj, fd, <<"close">>)
    <3>1. /\ <<"close">> \in Seq({"shutdown", "close"}) /\ <<"close">> # <<>>
          /\ <<"close">>[Len(<<"close">>)] = "close"
      OBVIOUS
    <3>2. /\ failed \in CallRecords /\ at' = [at EXCEPT ![t] = failed]
          /\ failed.in = "failing" /\ failed.obj = at[t].obj /\ failed.fd = fd
          /\ failed.todo # <<>> /\ failed.todo[Len(failed.todo)] = "close"
      BY <1>0, <2>1, <2>3, <3>1, CallTyped DEF Go
    <3> HIDE DEF failed
    <3>3. FilesTyped' /\ OthersElsewhere'
      BY <1>0, <2>3 DEF FilesTyped, OthersElsewhere
    <3> QED
      BY <2>1, <2>3, <3>2, <3>3, BindStep
  <2> QED
    BY <1>6, <2>2, <2>3 DEF Bind
<1>7. CASE AcceptTakes(t)
  <2>1. PICK f \in Fds, o \in Objects :
               /\ life[o] = "unused"
               /\ life' = [life EXCEPT ![o] = "made"]
               /\ Lowest(f)
               /\ files' = [files EXCEPT
                              ![at[t].fd].backlog = @ - 1,
                              ![f] = [Free EXCEPT !.of = o, !.kind = "connected"]]
               /\ returned' = returned \ {<<o, f>>}
               /\ Wrap(t, o, f)
    BY <1>7 DEF AcceptTakes
  <2> DEFINE fd == at[t].fd
             r == [in |-> "accepted", obj |-> o, fd |-> f, todo |-> <<>>, left |-> 0]
             rec == [Free EXCEPT !.of = o, !.kind = "connected"]
  <2>2. /\ at[t].in = "accepting" /\ UNCHANGED <<m_socket, harmed, lost, serverVars>>
        /\ fd \in Fds /\ files[fd].kind = "listening" /\ files[fd].backlog > 0
        /\ o \in Objects \cup {NoObject} /\ f \in Fds \cup {NoFd}
        /\ o \in Objects \cup {Elsewhere}
    BY <1>7 DEF AcceptTakes, In, Kind
  <2>3. "accepted" \in Calls /\ "connected" \in Kinds \ {"free"}
    BY DEF Calls, ServerCalls, Kinds
  <2>4. /\ r \in CallRecords /\ at' = [at EXCEPT ![t] = r]
        /\ r.in = "accepted" /\ r.obj = o /\ r.fd = f /\ r.todo = <<>>
    BY <1>0, <2>1, <2>2, <2>3, CallTyped DEF Wrap, Go
  <2>5. rec \in FileRecords /\ rec.of = o /\ rec.kind = "connected"
    BY <2>2, <2>3, OpenedRecord
  <2>6. files[fd].backlog - 1 \in 0 .. MaxBacklog
    <3>1. files[fd].backlog \in 0 .. MaxBacklog
      BY <1>0, <2>2 DEF FilesTyped, FileRecords
    <3> QED
      BY <2>2, <3>1, SocketAssumption
  <2> DEFINE taken == [files EXCEPT ![fd].backlog = @ - 1]
  <2>7. /\ taken \in [Fds -> FileRecords]
        /\ \A g \in Fds : taken[g].of = files[g].of /\ taken[g].kind = files[g].kind
    BY <1>0, <2>2, <2>6 DEF FilesTyped, FileRecords
  <2>8. Lowest(f) /\ files' = [taken EXCEPT ![f] = rec]
    BY <2>1
  <2> HIDE DEF r, rec, taken
  <2>9. /\ files' \in [Fds -> FileRecords] /\ files'[f] = rec
        /\ \A g \in Fds \ {f} : files'[g].of = files[g].of /\ files'[g].kind = files[g].kind
    BY <2>5, <2>7, <2>8
  <2>10. /\ FilesTyped' /\ OthersElsewhere'
         /\ files[f].of = NoObject /\ files'[f].of = o
    BY <1>0, <2>2, <2>3, <2>5, <2>8, <2>9, OpenedFiles
  <2>11. /\ at[t].in = "accepting" /\ r.in = "accepted" /\ o \in Objects /\ f \in Fds
         /\ life[o] = "unused" /\ life' = [life EXCEPT ![o] = "made"]
         /\ UNCHANGED <<m_socket, harmed, lost, serverVars>>
         /\ returned' = returned \ {<<o, f>>}
         /\ \A g \in Fds \ {f} : files'[g].of = files[g].of
    BY <2>1, <2>2, <2>4, <2>9
  <2> QED
    BY ONLY t \in Threads, ServerInv, <2>4, <2>10, <2>11, OpeningStep
<1>8. CASE ListenDone(t) \/ AcceptDone(t)
  <2> DEFINE o == at[t].obj
             fd == at[t].fd
  <2>1. /\ at[t].in \in {"listening", "accepted"} /\ at[t].todo = <<>> /\ o \in Objects
        /\ Construct(o, fd) /\ at' = [at EXCEPT ![t] = Idle]
        /\ lost \subseteq lost'
        /\ lost' \subseteq {"overwritten", "descriptor 0", "connect failed",
                            "listen overtaken"}
        /\ UNCHANGED <<returned, harmed>>
        /\ \/ /\ at[t].in = "accepted" /\ UNCHANGED serverVars
              /\ life' = [life EXCEPT ![o] = "alive"]
           \/ /\ at[t].in = "listening" /\ lock = NoThread
              /\ life' = [life EXCEPT ![o] = "serving"]
              /\ m_pServerSocket' = o /\ UNCHANGED <<lock, gone>>
    BY <1>8 DEF ListenDone, AcceptDone, In, Returns, ServerInv, CallsOnTheLiving, TypedState
  <2>2. m_socket' = [m_socket EXCEPT ![o] = fd]
    BY <2>1 DEF Construct
  <2>3. \A g \in Fds : \/ files'[g] = files[g]
                       \/ files'[g] = [files[g] EXCEPT !.timed = TRUE]
    BY <2>1 DEF Construct
  <2>4. \A g \in Fds : /\ files'[g] \in FileRecords
                       /\ files'[g].of = files[g].of /\ files'[g].kind = files[g].kind
    <3> SUFFICES ASSUME NEW g \in Fds
                 PROVE  /\ files'[g] \in FileRecords
                        /\ files'[g].of = files[g].of /\ files'[g].kind = files[g].kind
      OBVIOUS
    <3>1. files[g] \in FileRecords
      BY ONLY <1>0, g \in Fds DEF FilesTyped
    <3>2. CASE files'[g] = files[g]
      BY ONLY <3>1, <3>2
    <3>3. CASE files'[g] = [files[g] EXCEPT !.timed = TRUE]
      BY ONLY <3>1, <3>3 DEF FileRecords
    <3> QED
      BY <2>3, <3>2, <3>3
  <2>5. files' \in [Fds -> FileRecords]
    BY <2>1, <2>4 DEF Construct
  <2>6. FilesTyped' /\ OthersElsewhere'
    BY <1>0, <2>4, <2>5, SameOwnerFiles
  <2>7. /\ at' = [at EXCEPT ![t] = Idle] /\ m_socket' = [m_socket EXCEPT ![o] = at[t].fd]
        /\ at[t].todo = <<>> /\ o \in Objects /\ o = at[t].obj
        /\ lost \subseteq lost'
        /\ lost' \subseteq {"overwritten", "descriptor 0", "connect failed",
                            "listen overtaken"}
        /\ \A g \in Fds : files'[g].of = files[g].of
        /\ UNCHANGED <<returned, harmed>>
    BY <2>1, <2>2, <2>4
  <2> HIDE DEF o, fd
  <2>8. CASE at[t].in = "accepted"
    <3>1. /\ at[t].in = "accepted" /\ UNCHANGED serverVars
          /\ life' = [life EXCEPT ![o] = "alive"]
      BY ONLY <2>1, <2>8
    <3> QED
      BY ONLY t \in Threads, ServerInv, <3>1, <2>6, <2>7, SettingStep, Zenon
  <2>9. CASE at[t].in = "listening"
    <3>1. /\ at[t].in = "listening" /\ lock = NoThread
          /\ life' = [life EXCEPT ![o] = "serving"]
          /\ m_pServerSocket' = o /\ UNCHANGED <<lock, gone>>
      BY ONLY <2>1, <2>9
    <3> QED
      BY ONLY t \in Threads, ServerInv, <3>1, <2>6, <2>7, SettingStep, Zenon
  <2> QED
    BY <2>1, <2>8, <2>9
<1> QED
  BY <1>1, <1>2, <1>3, <1>4, <1>5, <1>6, <1>7, <1>8, <1>9 DEF ServerStep

LEMMA ServerCallInv ==
  ASSUME ServerInv, NEW t \in Servers, ServerCall(t)
  PROVE  ServerInv'
<1>0. /\ t \in Threads /\ m_pServerSocket \in Objects \cup {NoObject}
      /\ m_socket \in [Objects -> Fds \cup {NoFd}]
      /\ <<>> \in Seq({"shutdown", "close"})
  BY ServerAssumption, EmptySeq DEF ServerInv, TypedState
<1>1. CASE Listen(t)
  <2> DEFINE r == [in |-> "listen", obj |-> NoObject, fd |-> NoFd, todo |-> <<>>, left |-> 0]
  <2>1. "listen" \in Calls
    BY DEF Calls, ServerCalls
  <2>2. /\ r \in CallRecords /\ at' = [at EXCEPT ![t] = r]
        /\ r.in = "listen" /\ r.fd = NoFd /\ r.todo = <<>>
    BY <1>0, <1>1, <2>1, CallTyped DEF Listen, Go
  <2>3. /\ at[t].in = "idle" /\ ~gone
        /\ UNCHANGED <<files, life, m_socket, returned, harmed, lost,
                       m_pServerSocket, lock, gone>>
    BY <1>1 DEF Listen, Callable, Ready, In, serverVars
  <2> HIDE DEF r
  <2> QED
    BY <1>0, <2>2, <2>3, CallBegins
<1>2. CASE Accept(t)
  <2> DEFINE o == m_pServerSocket
             r == [in |-> "select", obj |-> o, fd |-> m_socket[o], todo |-> <<>>, left |-> 0]
  <2>1. "select" \in Calls
    BY DEF Calls, ServerCalls
  <2>2. o \in Objects /\ m_socket[o] \in Fds \cup {NoFd}
    BY <1>0, <1>2 DEF Accept
  <2>3. /\ r \in CallRecords /\ at' = [at EXCEPT ![t] = r]
        /\ r.in = "select" /\ r.obj = o /\ r.fd = m_socket[o] /\ r.todo = <<>>
    BY <1>0, <1>2, <2>1, <2>2, CallTyped DEF Accept, Go
  <2>4. /\ at[t].in = "idle" /\ ~gone
        /\ UNCHANGED <<files, life, m_socket, returned, harmed, lost,
                       m_pServerSocket, lock, gone>>
    BY <1>2 DEF Accept, Callable, Ready, In, serverVars
  <2> HIDE DEF r
  <2> QED
    BY <1>0, <2>2, <2>3, <2>4, CallBegins
<1>3. CASE ServerClose(t)
  <2> DEFINE o == m_pServerSocket
             calls == CloseCalls \o DestructorCalls
             r == [in |-> "stopping", obj |-> o, fd |-> m_socket[o], todo |-> calls,
                   left |-> 0]
  <2>1. "stopping" \in Calls
    BY DEF Calls, ServerCalls
  <2>2. o \in Objects /\ m_socket[o] \in Fds \cup {NoFd}
    BY <1>0, <1>3 DEF ServerClose
  <2>3. /\ calls \in Seq({"shutdown", "close"}) /\ calls # <<>>
        /\ calls[Len(calls)] = "close"
    BY ClosingCalls
  <2>4. at' = [at EXCEPT ![t] = r]
    BY <1>3 DEF ServerClose, Go
  <2> HIDE DEF calls
  <2>5. /\ r \in CallRecords
        /\ r.in = "stopping" /\ r.obj = o /\ r.fd = m_socket[o] /\ r.todo = calls
    BY <2>1, <2>2, <2>3, CallTyped
  <2>6. /\ at[t].in = "idle" /\ ~gone /\ lock = NoThread /\ lock' = t
        /\ UNCHANGED <<files, life, m_socket, returned, harmed, lost,
                       m_pServerSocket, gone>>
    BY <1>3 DEF ServerClose, Callable, Ready, In
  <2> HIDE DEF r
  <2> QED
    BY <1>0, <2>2, <2>3, <2>4, <2>5, <2>6, CallBegins
<1>4. CASE ServerDestroyed(t) /\ m_pServerSocket = NoObject
  BY <1>4, DestroyedIdle DEF ServerDestroyed, socketVars
<1>5. CASE ServerDestroyed(t) /\ m_pServerSocket # NoObject
  <2> DEFINE o == m_pServerSocket
             r == [in |-> "deleting", obj |-> o, fd |-> m_socket[o],
                   todo |-> DestructorCalls, left |-> 0]
  <2>1. "deleting" \in Calls
    BY DEF Calls
  <2>2. o \in Objects /\ m_socket[o] \in Fds \cup {NoFd}
    BY <1>0, <1>5
  <2>3. /\ r \in CallRecords /\ at' = [at EXCEPT ![t] = r]
        /\ r.in = "deleting" /\ r.obj = o /\ r.fd = m_socket[o]
        /\ r.todo # <<>> /\ r.todo[Len(r.todo)] = "close"
    BY <1>5, <2>1, <2>2, CallTyped, ClosingCalls DEF ServerDestroyed, Go
  <2>4. /\ at[t].in = "idle" /\ ~gone /\ gone' = TRUE
        /\ \A u \in Threads : at[u].in \notin ServerCalls
        /\ life' = [life EXCEPT ![o] = "deleted"]
        /\ UNCHANGED <<files, m_socket, returned, harmed, lost, m_pServerSocket, lock>>
    BY <1>5 DEF ServerDestroyed, Callable, Ready, In
  <2> HIDE DEF r
  <2> QED
    BY <1>0, <2>2, <2>3, <2>4, DeletionBegins
<1> QED
  BY <1>1, <1>2, <1>3, <1>4, <1>5 DEF ServerCall

-----------------------------------------------------------------------------
LEMMA ServerInvStep == ServerInv /\ [Next]_vars => ServerInv'
<1> SUFFICES ASSUME ServerInv, [Next]_vars PROVE ServerInv'
  OBVIOUS
<1>1. ASSUME NEW t \in Threads, SocketStep(t), UNCHANGED serverVars PROVE ServerInv'
  BY <1>1, SocketStepInv
<1>2. ASSUME NEW o \in Objects, SocketCall(o), UNCHANGED serverVars PROVE ServerInv'
  BY <1>2, SocketCallInv
<1>3. ASSUME NEW t \in Servers, ServerStep(t) \/ ServerCall(t) PROVE ServerInv'
  BY <1>3, ServerStepInv, ServerCallInv, ServerAssumption
<1>4. CASE Surroundings /\ UNCHANGED serverVars
  BY <1>4, SurroundingsInv
<1>5. CASE UNCHANGED vars
  <2>1. UNCHANGED <<files, life, m_socket, at, returned, harmed, lost, serverVars>>
    BY <1>5 DEF vars, socketVars
  <2>2. FilesTyped' /\ OthersElsewhere'
    BY <2>1 DEF ServerInv, TypedState, FilesTyped, FileRecords, OthersElsewhere
  <2> QED
    BY <2>1, <2>2, FilesStep
<1> QED
  BY <1>1, <1>2, <1>3, <1>4, <1>5 DEF Next

(* A thread is in an ::accept() without timeout only while it is in one:   *)
(* the steps of the others leave it there, and its own two take it out.    *)
Waiting == untimed \subseteq {t \in Servers : at[t].in = "accepting"}

LEMMA WaitingStep ==
  ASSUME ServerInv, Waiting, [Next]_vars
  PROVE  Waiting'
<1>0. at \in [Threads -> CallRecords] /\ Servers \subseteq Threads
  BY ServerAssumption DEF ServerInv, TypedState, CallRecords
<1>1. ASSUME NEW t \in Threads, untimed' \subseteq untimed, t \notin untimed',
             NEW r, at' = [at EXCEPT ![t] = r]
      PROVE  Waiting'
  BY <1>0, <1>1 DEF Waiting
<1>2. ASSUME NEW t \in Threads, SocketStep(t), Wakes(t) PROVE Waiting'
  <2>1. untimed' \subseteq untimed
    BY <1>2 DEF Wakes
  <2>2. CASE SystemCall(t)
    BY <1>0, <2>1, <2>2 DEF SystemCall, Waiting, CallRecords
  <2>3. CASE ~SystemCall(t)
    <3>1. at[t].in # "accepting" /\ \E r : at' = [at EXCEPT ![t] = r]
      BY <1>2, <2>3
         DEF SocketStep, CloseReturn, DeleteReturn, ConnectOpen, ConnectDone,
             ConnectFails, TransferReturn, RecvNothing, RecvChar, RecvFails,
             AnotherRound, In, Go, Returns
    <3> QED
      BY <1>1, <2>1, <3>1 DEF Waiting
  <2> QED
    BY <2>2, <2>3
<1>3. ASSUME NEW o \in Objects, SocketCall(o), UNCHANGED untimed PROVE Waiting'
  <2>1. PICK t \in Users \cup Readers :
               at[t].in = "idle" /\ \E r : at' = [at EXCEPT ![t] = r]
    BY <1>3 DEF SocketCall, Close, Delete, Connect, Transfer, ReadLine,
                Usable, Ready, In, Go
  <2> QED
    BY <1>1, <1>3, <2>1, SocketAssumption DEF Waiting
<1>4. ASSUME NEW t \in Servers, ServerStep(t) PROVE Waiting'
  <2>1. CASE AcceptBegins(t)
    BY <1>0, <2>1 DEF AcceptBegins, Go, Waiting
  <2>2. CASE AcceptTakes(t) \/ AcceptFails(t)
    <3>1. untimed' = untimed \ {t} /\ \E r : at' = [at EXCEPT ![t] = r]
      BY <2>2 DEF AcceptTakes, AcceptFails, Wrap, Go, Returns
    <3> QED
      BY <1>0, <1>1, <3>1
  <2>3. CASE ~(AcceptBegins(t) \/ AcceptTakes(t) \/ AcceptFails(t))
    <3>1. /\ at[t].in # "accepting" /\ untimed' = untimed
          /\ \E r : at' = [at EXCEPT ![t] = r]
      BY <1>4, <2>3
         DEF ServerStep, ListenOpen, Bind, ListenFails, ListenDone, Select,
             AcceptDone, ServerClosed, In, Go, Returns
    <3> QED
      BY <1>0, <1>1, <3>1 DEF Waiting
  <2> QED
    BY <2>1, <2>2, <2>3
<1>5. ASSUME NEW t \in Servers, ServerCall(t) PROVE Waiting'
  <2>1. at[t].in = "idle" /\ untimed' = untimed
    BY <1>5 DEF ServerCall, Listen, Accept, ServerClose, ServerDestroyed,
                Callable, Ready, In
  <2>2. at' = at \/ \E r : at' = [at EXCEPT ![t] = r]
    BY <1>5 DEF ServerCall, Listen, Accept, ServerClose, ServerDestroyed, Go
  <2> QED
    BY <1>0, <1>1, <2>1, <2>2 DEF Waiting
<1>6. CASE UNCHANGED <<at, untimed>>
  BY <1>6 DEF Waiting
<1> QED
  BY <1>2, <1>3, <1>4, <1>5, <1>6
     DEF Next, vars, socketVars, Surroundings, PeerCloses, Arrives,
         OpenElsewhere, CloseElsewhere

LEMMA ServerInvAlways == Spec => []ServerInv
<1> QED
  BY ServerInvInit, ServerInvStep, PTL DEF Spec

(* Every descriptor, object, call and lock is always what its type says.   *)
THEOREM SocketsTyped == Spec => []TypeOK
<1>1. ServerInit => Waiting
  BY DEF ServerInit, Waiting
<1>2. ServerInv /\ Waiting /\ [Next]_vars => Waiting'
  BY WaitingStep
<1>3. ServerInv /\ Waiting => TypeOK
  BY DEF ServerInv, Waiting, TypeOK
<1> QED
  BY <1>1, <1>2, <1>3, ServerInvAlways, PTL DEF Spec

(* Until somebody has closed a descriptor of another object, every number  *)
(* that an object or a call keeps is that of a descriptor opened for the   *)
(* object, or one that the object itself has closed.                       *)
THEOREM FirstHarmByClose == Spec => []StrangersOnlyAfterClose
<1>1. ServerInv => StrangersOnlyAfterClose
  BY DEF ServerInv
<1> QED
  BY <1>1, ServerInvAlways, PTL

(* Whoever takes the server's socket under the lock takes one that has not *)
(* been deleted, and the thread that deletes it is the only one.           *)
THEOREM ServerSocketKept == Spec => []ServerSocketAlive
<1>1. ServerInv => ServerSocketAlive
  BY DEF ServerInv
<1> QED
  BY <1>1, ServerInvAlways, PTL

(* A descriptor opened for an object is in the m_socket of a living object *)
(* or in the hands of a call, until one of the four ways to forget it is   *)
(* taken.                                                                  *)
THEOREM DescriptorsKept == Spec => []NothingLost
<1>1. ServerInv => NothingLost
  BY DEF ServerInv, Claimed, NothingLost, KeptBy, CarriedBy
<1> QED
  BY <1>1, ServerInvAlways, PTL

=============================================================================
