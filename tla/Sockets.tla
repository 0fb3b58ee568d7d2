------------------------------ MODULE Sockets -------------------------------
(***************************************************************************)
(* Base/Socket: which Socket object holds which socket of the operating    *)
(* system, through the functions that create one (Connect, Bind, Listen,   *)
(* accept), the streams and servers of Network/ that keep it, moves, close *)
(* and destruction.  Socket has no destructor.  The calls into the         *)
(* operating system succeed or fail; opening a socket may fail too, which  *)
(* leaves everything as it was.  Socket options are left out.              *)
(***************************************************************************)
EXTENDS Integers, FiniteSets

CONSTANTS
  OsSocket,  \* sockets ZqSocketOpen and ZqSocketAccept hand out, each once
  Holder,    \* Socket objects: local ones, and the members of streams and servers
  Invalid,   \* ZQ_INVALID_SOCKET
  NotMade

VARIABLES
  platform,  \* whose Socket.c the program is linked with
  mSocket,   \* the member of each Socket object
  os,        \* the state of each socket of the operating system
  purpose,   \* history: the state its creator asked for
  leaked     \* history: sockets left open with no object to close them

vars == <<platform, mSocket, os, purpose, leaked>>

Alive == {"open", "bound", "listening", "connected"}

TypeOK ==
  /\ platform \in {"linux", "posix"}
  /\ mSocket \in [Holder -> OsSocket \cup {Invalid, NotMade}]
  /\ os \in [OsSocket -> Alive \cup {"none", "closed"}]
  /\ purpose \in [OsSocket -> Alive \cup {"none"}]
  /\ leaked \subseteq OsSocket

Init ==
  /\ platform \in {"linux", "posix"}
  /\ mSocket = [h \in Holder |-> NotMade]
  /\ os = [o \in OsSocket |-> "none"]
  /\ purpose = [o \in OsSocket |-> "none"]
  /\ leaked = {}

-----------------------------------------------------------------------------
\* What ZqSocketBind, ZqSocketConnect and ZqSocketListen return: the Linux
\* functions an error number, the Posix ones ZQ_TRUE or ZQ_FALSE.
LinuxResult(ok) == IF ok THEN 0 ELSE -1
PosixResult(ok) == IF ok THEN 1 ELSE 0

\* bind, connect and listen of Base/Socket.cpp compare it with ZQ_E_OK, zero.
Reported(ok) == (IF platform = "linux" THEN LinuxResult(ok) ELSE PosixResult(ok)) = 0

\* ZqSocketOpen
Open(o) == os[o] = "none"

\* A new socket o that got to a state, kept by h if its creator reports success.
Create(h, o, reached, asked, success) ==
  /\ mSocket[h] = NotMade /\ Open(o)
  /\ os' = [os EXCEPT ![o] = reached]
  /\ purpose' = [purpose EXCEPT ![o] = asked]
  /\ \/ success /\ mSocket' = [mSocket EXCEPT ![h] = o] /\ UNCHANGED leaked
     \/ ~success /\ leaked' = leaked \cup {o} /\ UNCHANGED mSocket
  /\ UNCHANGED platform

Connect(h, o, ok) == Create(h, o, IF ok THEN "connected" ELSE "open", "connected", Reported(ok))

Bind(h, o, ok) == Create(h, o, IF ok THEN "bound" ELSE "open", "bound", Reported(ok))

\* Listen: bind, and then listen if that was reported to succeed.
Listen(h, o, bound, listens) ==
  LET tried == Reported(bound) IN
  /\ tried \/ ~listens
  /\ Create(h, o, IF tried /\ listens THEN "listening" ELSE IF bound THEN "bound" ELSE "open",
            "listening", tried /\ Reported(listens))

\* Only Linux has ZqSocketAccept.
ZqSocketAccept(server) == platform = "linux" /\ server \in OsSocket /\ os[server] = "listening"

Accept(server, h, o) ==
  /\ ZqSocketAccept(mSocket[server])
  /\ Create(h, o, "connected", "connected", TRUE)

\* close() does nothing to an invalid socket.
Closed(o) == IF o \in OsSocket THEN [os EXCEPT ![o] = "closed"] ELSE os

Close(h) ==
  /\ mSocket[h] # NotMade
  /\ os' = Closed(mSocket[h])
  /\ mSocket' = [mSocket EXCEPT ![h] = Invalid]
  /\ UNCHANGED <<platform, purpose, leaked>>

KeepBoth(h, g) == [mSocket EXCEPT ![h] = mSocket[g]]
TakeSocket(h, g) == [mSocket EXCEPT ![h] = mSocket[g], ![g] = Invalid]

MoveSocket(h, g) ==
  /\ mSocket[h] = NotMade /\ mSocket[g] # NotMade
  /\ mSocket' = TakeSocket(h, g)
  /\ UNCHANGED <<platform, os, purpose, leaked>>

\* operator=: onto itself, it closes the socket.
AssignSocket(h, g) ==
  /\ mSocket[h] # NotMade /\ mSocket[g] # NotMade
  /\ os' = Closed(mSocket[h])
  /\ mSocket' = TakeSocket(h, g)
  /\ UNCHANGED <<platform, purpose, leaked>>

\* The object goes, and with it what would close the socket.
Destroy(h) ==
  /\ mSocket[h] # NotMade
  /\ mSocket' = [mSocket EXCEPT ![h] = NotMade]
  /\ leaked' = leaked \cup ({mSocket[h]} \cap OsSocket)
  /\ UNCHANGED <<platform, os, purpose>>

-----------------------------------------------------------------------------
(* The streams and servers over it.  Those that return an Expected move    *)
(* the socket into it: the object is another one, the socket the same.     *)

TcpConnect(h, o, ok) == Connect(h, o, ok)
UdpConnect(h, o, ok) == Connect(h, o, ok)
TcpListen(h, o, bound, listens) == Listen(h, o, bound, listens)
UdpListen(h, o, ok) == Bind(h, o, ok)
CreateFromStream(h, g) == MoveSocket(h, g)
AcceptClient(server, h, o) == Accept(server, h, o)

Next ==
  \/ \E h \in Holder, o \in OsSocket, ok \in BOOLEAN : TcpConnect(h, o, ok) \/ UdpConnect(h, o, ok)
  \/ \E h \in Holder, o \in OsSocket, ok \in BOOLEAN : UdpListen(h, o, ok)
  \/ \E h \in Holder, o \in OsSocket, bound, listens \in BOOLEAN : TcpListen(h, o, bound, listens)
  \/ \E h, server \in Holder, o \in OsSocket : AcceptClient(server, h, o)
  \/ \E h, g \in Holder : CreateFromStream(h, g) \/ AssignSocket(h, g)
  \/ \E h \in Holder : Close(h) \/ Destroy(h)

Spec == Init /\ [][Next]_vars

-----------------------------------------------------------------------------
Holders(o) == {h \in Holder : mSocket[h] = o}

\* An open socket has one Socket object to close it, or has none since its creation
\* failed half-way or its object was destroyed; a closed one has none, so no move,
\* close and assignment closes a socket twice or uses one that is closed
\* (Socket.hpp 132-145, Socket.cpp 32-91).
SocketHeldOnce ==
  \A o \in OsSocket :
    /\ os[o] \in Alive => Cardinality(Holders(o)) + Cardinality({o} \cap leaked) = 1
    /\ os[o] \notin Alive => Holders(o) = {}

\* A socket that an object holds is connected, bound or listening, as Connect, Bind
\* or Listen was asked for (Socket.hpp 153-189).
HeldIsReady == \A h \in Holder : mSocket[h] \in OsSocket => os[mSocket[h]] = purpose[mSocket[h]]

\* With the Linux functions it is; nothing is asked of the Posix ones, whose results
\* are the other way round (Socket.cpp 165-184; Linux/Socket.c 68-105).
ReadyOnLinux == platform = "linux" => HeldIsReady

\* Every socket that was created is one object's to close, and on Linux is what
\* that object was made for.
SocketsOwned == SocketHeldOnce /\ ReadyOnLinux
=============================================================================
