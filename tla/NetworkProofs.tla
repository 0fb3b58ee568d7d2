--------------------------- MODULE NetworkProofs ---------------------------
(***************************************************************************)
(* Proofs about the classes of MCNetwork: sockets, what is sent and        *)
(* received through them, the fields read from received segments, the      *)
(* fields written to the segments of a stream (OutInv), and the messages   *)
(* written and read back (MessageInv).                                     *)
(***************************************************************************)
EXTENDS MCNetwork, Integers, FiniteSetTheorems, SequenceTheorems, WellFoundedInduction, TLAPS

-----------------------------------------------------------------------------
(* Sockets.                                                                *)

\* A socket that is open has one object, or none and was leaked; a socket that
\* is not open has no object.
HeldOnce(o) ==
  IF os[o] \in S!Alive
  THEN \/ o \notin leaked /\ \E h \in Holder : S!Holders(o) = {h}
       \/ o \in leaked /\ S!Holders(o) = {}
  ELSE S!Holders(o) = {}

\* Nothing is known of a socket that was not opened.
SocketInv ==
  /\ S!TypeOK
  /\ \A o \in OsSocket : HeldOnce(o)
  /\ \A o \in leaked : os[o] \in S!Alive
  /\ S!ReadyOnLinux

\* The counts of the property, from the two cases of the invariant.
LEMMA SocketCounts == SocketInv => SocketsOwned
  <1> SUFFICES ASSUME SocketInv PROVE SocketsOwned
    OBVIOUS
  <1>1. ASSUME NEW o \in OsSocket, os[o] \in S!Alive
        PROVE  S!Cardinality(S!Holders(o)) + S!Cardinality({o} \cap leaked) = 1
    <2>1. \A X : S!Cardinality(X) = Cardinality(X)
      BY DEF S!Cardinality, Cardinality, S!IsFiniteSet, IsFiniteSet
    <2>2. Cardinality({}) = 0 /\ \A x : Cardinality({x}) = 1
      BY FS_EmptySet, FS_Singleton
    <2>3. CASE o \notin leaked /\ \E h \in Holder : S!Holders(o) = {h}
      <3>1. {o} \cap leaked = {} /\ Cardinality(S!Holders(o)) = 1
        BY <2>2, <2>3
      <3> QED
        BY <2>1, <2>2, <3>1
    <2>4. CASE o \in leaked /\ S!Holders(o) = {}
      <3>1. {o} \cap leaked = {o} /\ Cardinality(S!Holders(o)) = 0
        BY <2>2, <2>4
      <3>2. Cardinality({o} \cap leaked) = 1
        BY <2>2, <3>1
      <3> QED
        BY <2>1, <3>1, <3>2
    <2> QED
      BY <1>1, <2>3, <2>4 DEF SocketInv, HeldOnce
  <1>2. ASSUME NEW o \in OsSocket, os[o] \notin S!Alive PROVE S!Holders(o) = {}
    BY <1>2 DEF SocketInv, HeldOnce
  <1> QED
    BY <1>1, <1>2 DEF SocketInv, SocketsOwned, S!SocketsOwned, S!SocketHeldOnce

\* A new socket goes to its object, or is leaked at once.
LEMMA CreateInv ==
  ASSUME SocketInv, NEW h \in Holder, NEW o \in OsSocket, NEW reached \in S!Alive, NEW asked \in S!Alive,
         NEW success \in BOOLEAN,
         S!Create(h, o, reached, asked, success),
         success /\ platform = "linux" => reached = asked
  PROVE  SocketInv'
  <1> USE SocketAssumption
  <1>1. /\ mSocket[h] = NotMade /\ os[o] = "none"
        /\ os' = [os EXCEPT ![o] = reached] /\ purpose' = [purpose EXCEPT ![o] = asked]
        /\ platform' = platform
        /\ \/ success /\ mSocket' = [mSocket EXCEPT ![h] = o] /\ leaked' = leaked
           \/ ~success /\ leaked' = leaked \cup {o} /\ mSocket' = mSocket
    BY DEF S!Create, S!Open
  <1>2. S!TypeOK /\ S!Holders(o) = {} /\ o \notin leaked
    BY <1>1 DEF SocketInv, HeldOnce, S!Alive
  <1>3. S!TypeOK'
    BY <1>1, <1>2 DEF S!TypeOK
  <1>4. \A h2 \in Holder : mSocket[h2] # o
    BY <1>2 DEF S!Holders
  <1>5. CASE success
    <2>1. leaked' = leaked /\ mSocket' = [mSocket EXCEPT ![h] = o]
      BY <1>1, <1>5
    <2>2. S!Holders(o)' = {h}
      BY <1>2, <1>4, <2>1 DEF S!Holders, S!TypeOK
    <2>3. ASSUME NEW p \in OsSocket, p # o PROVE S!Holders(p)' = S!Holders(p) /\ os'[p] = os[p]
      BY <1>1, <1>2, <2>1, <2>3 DEF S!Holders, S!TypeOK
    <2>4. os'[o] \in S!Alive /\ os'[o] = reached /\ purpose'[o] = asked
      BY <1>1, <1>2 DEF S!TypeOK
    <2>5. ASSUME NEW p \in OsSocket PROVE HeldOnce(p)'
      BY <1>2, <2>1, <2>2, <2>3, <2>4 DEF HeldOnce, SocketInv
    <2>6. \A p \in leaked' : os'[p] \in S!Alive
      BY <1>2, <2>1, <2>3 DEF SocketInv, S!TypeOK
    <2>7. S!ReadyOnLinux'
      BY <1>1, <1>2, <1>5, <2>1, <2>4 DEF SocketInv, S!ReadyOnLinux, S!HeldIsReady, S!TypeOK
    <2> QED
      BY <1>3, <2>5, <2>6, <2>7 DEF SocketInv
  <1>6. CASE ~success
    <2>1. leaked' = leaked \cup {o} /\ mSocket' = mSocket
      BY <1>1, <1>6
    <2>2. \A p \in OsSocket : S!Holders(p)' = S!Holders(p)
      BY <2>1 DEF S!Holders
    <2>3. os'[o] \in S!Alive /\ \A p \in OsSocket : p # o => os'[p] = os[p]
      BY <1>1, <1>2 DEF S!TypeOK
    <2>4. ASSUME NEW p \in OsSocket PROVE HeldOnce(p)'
      BY <1>2, <2>1, <2>2, <2>3 DEF HeldOnce, SocketInv
    <2>5. \A p \in leaked' : os'[p] \in S!Alive
      BY <1>2, <2>1, <2>3 DEF SocketInv, S!TypeOK
    <2>6. S!ReadyOnLinux'
      BY <1>1, <1>2, <1>4, <2>1 DEF SocketInv, S!ReadyOnLinux, S!HeldIsReady, S!TypeOK
    <2> QED
      BY <1>3, <2>4, <2>5, <2>6 DEF SocketInv
  <1> QED
    BY <1>5, <1>6

\* The socket of an object is open, is nobody else's and was not leaked.
LEMMA HeldAlone ==
  ASSUME SocketInv, NEW h \in Holder, mSocket[h] \in OsSocket
  PROVE  /\ \A g \in Holder : mSocket[g] = mSocket[h] => g = h
         /\ os[mSocket[h]] \in S!Alive /\ mSocket[h] \notin leaked
  <1>1. HeldOnce(mSocket[h]) /\ h \in S!Holders(mSocket[h])
    BY DEF SocketInv, S!Holders
  <1> QED
    BY <1>1 DEF HeldOnce, S!Holders

\* close, and the assignment: the socket of h is closed, and h has that of g.
LEMMA CloseInv ==
  ASSUME SocketInv, NEW h \in Holder, NEW g \in Holder,
         mSocket[h] # NotMade, mSocket[g] # NotMade,
         os' = S!Closed(mSocket[h]),
         \/ mSocket' = [mSocket EXCEPT ![h] = Invalid]
         \/ mSocket' = S!TakeSocket(h, g),
         UNCHANGED <<platform, purpose, leaked>>
  PROVE  SocketInv'
  <1> USE SocketAssumption
  <1>1. S!TypeOK /\ Invalid \notin OsSocket
    BY DEF SocketInv
  <1>2. S!TypeOK'
    BY <1>1 DEF S!TypeOK, S!Closed, S!TakeSocket
  <1>3. \A p \in OsSocket : os'[p] = IF p = mSocket[h] THEN "closed" ELSE os[p]
    BY <1>1 DEF S!TypeOK, S!Closed
  <1>4. ASSUME NEW p \in OsSocket, p = mSocket[h] PROVE S!Holders(p)' = {}
    <2>1. \A f \in Holder : mSocket[f] = p => f = h
      BY <1>4, HeldAlone
    <2>2. \A f \in Holder : mSocket'[f] # p
      BY <1>1, <1>4, <2>1 DEF S!TypeOK, S!TakeSocket
    <2> QED
      BY <2>2 DEF S!Holders
  <1>5. ASSUME NEW p \in OsSocket, p # mSocket[h]
        PROVE  /\ HeldOnce(p)'
               /\ \A f \in Holder : mSocket'[f] = p => \E e \in Holder : mSocket[e] = p
    <2>1. os'[p] = os[p] /\ leaked' = leaked
      BY <1>3, <1>5
    <2>2. CASE mSocket' = [mSocket EXCEPT ![h] = Invalid]
      <3>1. S!Holders(p)' = S!Holders(p)
        BY <1>1, <1>5, <2>2 DEF S!Holders, S!TypeOK
      <3> QED
        BY <1>1, <1>5, <2>1, <2>2, <3>1 DEF SocketInv, HeldOnce, S!TypeOK
    <2>3. CASE mSocket' = S!TakeSocket(h, g) /\ mSocket[g] # p
      <3>1. S!Holders(p)' = S!Holders(p)
        BY <1>1, <1>5, <2>3 DEF S!Holders, S!TypeOK, S!TakeSocket
      <3> QED
        BY <1>1, <1>5, <2>1, <2>3, <3>1 DEF SocketInv, HeldOnce, S!TypeOK, S!TakeSocket
    <2>4. CASE mSocket' = S!TakeSocket(h, g) /\ mSocket[g] = p
      <3>1. /\ \A f \in Holder : mSocket[f] = p => f = g
            /\ os[p] \in S!Alive /\ p \notin leaked
        BY <2>4, HeldAlone
      <3>2. g # h
        BY <1>5, <2>4
      <3>3. S!Holders(p)' = {h}
        BY <1>1, <2>4, <3>1, <3>2 DEF S!Holders, S!TypeOK, S!TakeSocket
      <3> QED
        BY <2>1, <2>4, <3>1, <3>3 DEF HeldOnce
    <2> QED
      BY <2>2, <2>3, <2>4
  <1>6. \A p \in OsSocket : HeldOnce(p)'
    BY <1>3, <1>4, <1>5 DEF HeldOnce, S!Alive
  <1>7. \A p \in leaked' : os'[p] \in S!Alive
    <2>1. ASSUME NEW p \in leaked PROVE p # mSocket[h]
      BY <1>1, HeldAlone DEF S!TypeOK
    <2> QED
      BY <1>1, <1>3, <2>1 DEF SocketInv, S!TypeOK
  <1>8. S!ReadyOnLinux'
    <2>1. ASSUME NEW f \in Holder, mSocket'[f] \in OsSocket, platform' = "linux"
          PROVE  os'[mSocket'[f]] = purpose'[mSocket'[f]]
      <3>1. PICK p \in OsSocket : p = mSocket'[f]
        BY <2>1
      <3>2. p # mSocket[h]
        BY <1>4, <3>1 DEF S!Holders
      <3>3. PICK e \in Holder : mSocket[e] = p
        BY <1>5, <3>1, <3>2
      <3> QED
        BY <1>3, <2>1, <3>1, <3>2, <3>3 DEF SocketInv, S!ReadyOnLinux, S!HeldIsReady
    <2> QED
      BY <2>1 DEF S!ReadyOnLinux, S!HeldIsReady
  <1> QED
    BY <1>2, <1>6, <1>7, <1>8 DEF SocketInv

\* A move: h has the socket of g, which has none.
LEMMA MoveInv ==
  ASSUME SocketInv, NEW h \in Holder, NEW g \in Holder, S!MoveSocket(h, g)
  PROVE  SocketInv'
  <1> USE SocketAssumption
  <1>1. /\ S!TypeOK /\ mSocket[h] = NotMade /\ mSocket[g] # NotMade /\ h # g
        /\ mSocket' = [mSocket EXCEPT ![h] = mSocket[g], ![g] = Invalid]
        /\ UNCHANGED <<platform, os, purpose, leaked>>
    BY DEF SocketInv, S!MoveSocket, S!TakeSocket
  <1>2. S!TypeOK'
    BY <1>1 DEF S!TypeOK
  <1>3. ASSUME NEW p \in OsSocket PROVE HeldOnce(p)'
    <2>1. CASE p # mSocket[g]
      <3>1. S!Holders(p)' = S!Holders(p)
        BY <1>1, <2>1 DEF S!Holders, S!TypeOK
      <3> QED
        BY <1>1, <3>1 DEF SocketInv, HeldOnce
    <2>2. CASE p = mSocket[g]
      <3>1. /\ \A f \in Holder : mSocket[f] = p => f = g
            /\ os[p] \in S!Alive /\ p \notin leaked
        BY <2>2, HeldAlone
      <3>2. S!Holders(p)' = {h}
        BY <1>1, <2>2, <3>1 DEF S!Holders, S!TypeOK
      <3> QED
        BY <1>1, <3>1, <3>2 DEF HeldOnce
    <2> QED
      BY <2>1, <2>2
  <1>4. S!ReadyOnLinux'
    BY <1>1 DEF SocketInv, S!ReadyOnLinux, S!HeldIsReady, S!TypeOK
  <1> QED
    BY <1>1, <1>2, <1>3, <1>4 DEF SocketInv

\* The destruction of an object leaks its socket.
LEMMA DestroyInv ==
  ASSUME SocketInv, NEW h \in Holder, S!Destroy(h)
  PROVE  SocketInv'
  <1> USE SocketAssumption
  <1>1. /\ S!TypeOK /\ mSocket[h] # NotMade
        /\ mSocket' = [mSocket EXCEPT ![h] = NotMade]
        /\ leaked' = leaked \cup ({mSocket[h]} \cap OsSocket)
        /\ UNCHANGED <<platform, os, purpose>>
    BY DEF SocketInv, S!Destroy
  <1>2. S!TypeOK'
    BY <1>1 DEF S!TypeOK
  <1>3. ASSUME NEW p \in OsSocket PROVE HeldOnce(p)'
    <2>1. CASE p # mSocket[h]
      <3>1. S!Holders(p)' = S!Holders(p) /\ (p \in leaked' <=> p \in leaked)
        BY <1>1, <2>1 DEF S!Holders, S!TypeOK
      <3> QED
        BY <1>1, <3>1 DEF SocketInv, HeldOnce
    <2>2. CASE p = mSocket[h]
      <3>1. /\ \A f \in Holder : mSocket[f] = p => f = h
            /\ os[p] \in S!Alive
        BY <2>2, HeldAlone
      <3>2. S!Holders(p)' = {} /\ p \in leaked'
        BY <1>1, <2>2, <3>1 DEF S!Holders, S!TypeOK
      <3> QED
        BY <1>1, <3>1, <3>2 DEF HeldOnce
    <2> QED
      BY <2>1, <2>2
  <1>4. \A p \in leaked' : os'[p] \in S!Alive
    BY <1>1, HeldAlone DEF SocketInv
  <1>5. S!ReadyOnLinux'
    BY <1>1 DEF SocketInv, S!ReadyOnLinux, S!HeldIsReady, S!TypeOK
  <1> QED
    BY <1>2, <1>3, <1>4, <1>5 DEF SocketInv

\* Every call keeps the invariant; the functions that create a socket report
\* success when the C layer's result is read as zero.
LEMMA SocketInvNext == SocketInv /\ [S!Next]_(S!vars) => SocketInv'
  <1> SUFFICES ASSUME SocketInv, [S!Next]_(S!vars) PROVE SocketInv'
    OBVIOUS
  <1>0. platform \in {"linux", "posix"}
    BY DEF SocketInv, S!TypeOK
  <1>1. \A ok \in BOOLEAN : S!Reported(ok) \in BOOLEAN /\ (S!Reported(ok) <=> (ok <=> platform = "linux"))
    BY <1>0 DEF S!Reported, S!LinuxResult, S!PosixResult
  <1>2. ASSUME NEW h \in Holder, NEW o \in OsSocket, NEW ok \in BOOLEAN, S!Connect(h, o, ok)
        PROVE  SocketInv'
    <2>1. S!Create(h, o, IF ok THEN "connected" ELSE "open", "connected", S!Reported(ok))
      BY <1>2 DEF S!Connect
    <2>2. (IF ok THEN "connected" ELSE "open") \in S!Alive /\ "connected" \in S!Alive
      BY DEF S!Alive
    <2>3. S!Reported(ok) /\ platform = "linux" => (IF ok THEN "connected" ELSE "open") = "connected"
      BY <1>1
    <2> QED
      BY <1>1, <2>1, <2>2, <2>3, CreateInv
  <1>3. ASSUME NEW h \in Holder, NEW o \in OsSocket, NEW ok \in BOOLEAN, S!Bind(h, o, ok)
        PROVE  SocketInv'
    <2>1. S!Create(h, o, IF ok THEN "bound" ELSE "open", "bound", S!Reported(ok))
      BY <1>3 DEF S!Bind
    <2>2. (IF ok THEN "bound" ELSE "open") \in S!Alive /\ "bound" \in S!Alive
      BY DEF S!Alive
    <2>3. S!Reported(ok) /\ platform = "linux" => (IF ok THEN "bound" ELSE "open") = "bound"
      BY <1>1
    <2> QED
      BY <1>1, <2>1, <2>2, <2>3, CreateInv
  <1>4. ASSUME NEW h \in Holder, NEW o \in OsSocket, NEW bound \in BOOLEAN, NEW listens \in BOOLEAN,
               S!Listen(h, o, bound, listens)
        PROVE  SocketInv'
    <2> DEFINE tried == S!Reported(bound)
               reached == IF tried /\ listens THEN "listening" ELSE IF bound THEN "bound" ELSE "open"
               success == tried /\ S!Reported(listens)
    <2>1. S!Create(h, o, reached, "listening", success)
      BY <1>4 DEF S!Listen
    <2>2. reached \in S!Alive /\ "listening" \in S!Alive /\ success \in BOOLEAN
      BY <1>1 DEF S!Alive
    <2>3. success /\ platform = "linux" => reached = "listening"
      BY <1>1
    <2> HIDE DEF reached, success
    <2> QED
      BY <2>1, <2>2, <2>3, CreateInv
  <1>5. ASSUME NEW h \in Holder, NEW server \in Holder, NEW o \in OsSocket, S!Accept(server, h, o)
        PROVE  SocketInv'
    <2>1. S!Create(h, o, "connected", "connected", TRUE) /\ platform = "linux"
      BY <1>5 DEF S!Accept, S!ZqSocketAccept
    <2>2. "connected" \in S!Alive
      BY DEF S!Alive
    <2> QED
      BY <2>1, <2>2, CreateInv
  <1>6. ASSUME NEW h \in Holder, NEW g \in Holder, S!MoveSocket(h, g) PROVE SocketInv'
    BY <1>6, MoveInv
  <1>7. ASSUME NEW h \in Holder, NEW g \in Holder, S!AssignSocket(h, g) PROVE SocketInv'
    BY <1>7, CloseInv DEF S!AssignSocket
  <1>8. ASSUME NEW h \in Holder, S!Close(h) PROVE SocketInv'
    BY <1>8, CloseInv DEF S!Close
  <1>9. ASSUME NEW h \in Holder, S!Destroy(h) PROVE SocketInv'
    BY <1>9, DestroyInv
  <1>10. CASE UNCHANGED S!vars
    BY <1>10 DEF S!vars, SocketInv, S!TypeOK, HeldOnce, S!Holders, S!ReadyOnLinux, S!HeldIsReady
  <1> QED
    BY <1>2, <1>3, <1>4, <1>5, <1>6, <1>7, <1>8, <1>9, <1>10
       DEF S!Next, S!TcpConnect, S!UdpConnect, S!UdpListen, S!TcpListen, S!AcceptClient, S!CreateFromStream

\* Every socket of the operating system that is open has one Socket object that
\* will close it or was leaked, and no closed one is held, through any sequence
\* of creations, moves, assignments, closes and destructions; and on Linux a held
\* socket is connected, bound or listening as its creator was asked.
THEOREM SocketsAlwaysOwned == S!Spec => []SocketsOwned
  <1>1. S!Init => SocketInv
    <2> SUFFICES ASSUME S!Init PROVE SocketInv
      OBVIOUS
    <2>1. S!TypeOK
      BY DEF S!Init, S!TypeOK
    <2>2. \A o \in OsSocket : S!Holders(o) = {} /\ os[o] \notin S!Alive
      BY SocketAssumption DEF S!Init, S!Holders, S!Alive
    <2> QED
      BY <2>1, <2>2, SocketAssumption DEF S!Init, SocketInv, HeldOnce, S!ReadyOnLinux, S!HeldIsReady
  <1> QED
    BY <1>1, SocketInvNext, SocketCounts, PTL DEF S!Spec

-----------------------------------------------------------------------------
(* Sending.                                                                *)

Target == T!SocketAddress \cup {NoAddress}
SentByte == [byte : Nat, to : Target]

\* As long as no call of the loop has failed, and always outside of it, the
\* bytes that left are the first bytesSent ones.
SendInv ==
  /\ layer \in {"linux", "posix"} /\ loop \in BOOLEAN /\ target \in Target
  /\ bytesSent \in Nat /\ failed \in Nat /\ errors \in Nat /\ sends \in Nat
  /\ wire \in Seq(SentByte)
  /\ sends = 0 => wire = <<>> /\ bytesSent = 0 /\ failed = 0
  /\ \A i \in 1 .. Len(wire) : wire[i].to = target
  /\ ~loop \/ failed = 0 =>
       /\ Len(wire) = bytesSent /\ bytesSent <= DataSize
       /\ \A i \in 1 .. Len(wire) : wire[i].byte = i
  /\ (layer = "linux") # (loop /\ target = NoAddress) => errors = failed

\* A count smaller than a ZqSizeType's values is not wrapped, and one that is
\* wrapped is a count again.
LEMMA Wrapped ==
  ASSUME NEW n \in Nat \ {0}, NEW x \in Nat
  PROVE  x % n \in Nat /\ (x < n => x % n = x)
  OBVIOUS

\* A target has the length of its family: ZqSocketSendTo takes it.
LEMMA TargetIsName == \A a \in T!SocketAddress : T!IsName(a) /\ a # NoAddress
  BY TransferAssumption DEF T!SocketAddress, T!IsName, T!CreateIn6, T!CreateIn4

\* The kernel's answer is what *bytesSent holds; after an error it is what it
\* held before.
LEMMA LastBytes ==
  ASSUME SendInv, NEW ret \in Int, NEW before
  PROVE  T!LastBytesSent(ret, before) = IF ret < 0 THEN before ELSE ret
  <1>1. CASE target = NoAddress
    BY <1>1 DEF T!LastBytesSent, T!ZqSocketSend
  <1>2. CASE target # NoAddress
    <2>1. T!IsName(target)
      BY <1>2, TargetIsName DEF SendInv, Target
    <2> QED
      BY <1>2, <2>1 DEF T!LastBytesSent, T!ZqSocketSendTo
  <1> QED
    BY <1>1, <1>2

\* What ziqe_sendmsg puts on the wire.
LEMMA SendmsgIs ==
  ASSUME SendInv, NEW first \in Nat, NEW k \in Int, -1 <= k
  PROVE  /\ T!Sendmsg(first, k) \in Seq(SentByte)
         /\ Len(T!Sendmsg(first, k)) = IF k < 0 THEN 0 ELSE k
         /\ \A i \in 1 .. Len(T!Sendmsg(first, k)) :
              T!Sendmsg(first, k)[i].byte = first + i /\ T!Sendmsg(first, k)[i].to = target
  <1> DEFINE n == IF k < 0 THEN 0 ELSE k
             f == [i \in 1 .. n |-> [byte |-> first + i, to |-> target]]
  <1>1. 1 .. k = 1 .. n /\ n \in Nat
    OBVIOUS
  <1>2. T!Sendmsg(first, k) = f
    BY <1>1 DEF T!Sendmsg, T!RestFrom
  <1>3. target \in Target
    BY DEF SendInv
  <1>4. f \in [1 .. n -> SentByte]
    BY <1>1, <1>3 DEF SentByte
  <1>5. f \in Seq(SentByte) /\ Len(f) = n
    BY <1>1, <1>4
  <1>6. \A i \in 1 .. n : f[i].byte = first + i /\ f[i].to = target
    OBVIOUS
  <1> HIDE DEF f, n
  <1>7. n = IF k < 0 THEN 0 ELSE k
    BY DEF n
  <1> QED
    BY <1>2, <1>5, <1>6, <1>7

\* The assertion after a call logs an error exactly when the call failed, where
\* it fits the layer.
LEMMA CalledCounts ==
  ASSUME SendInv, NEW ret \in Int, -1 <= ret, T!Called(ret)
  PROVE  /\ failed' \in Nat /\ errors' \in Nat /\ failed' = failed + (IF ret < 0 THEN 1 ELSE 0)
         /\ (layer = "linux") # (loop /\ target = NoAddress) => errors' = failed'
  <1>1. /\ failed' = failed + (IF ret < 0 THEN 1 ELSE 0)
        /\ errors' = errors + (IF T!Asserted(T!Result(ret)) THEN 0 ELSE 1)
    BY DEF T!Called
  <1>2. failed \in Nat /\ errors \in Nat /\ layer \in {"linux", "posix"} /\ loop \in BOOLEAN
    BY DEF SendInv
  <1>3. (layer = "linux") # (loop /\ target = NoAddress) =>
          (T!Asserted(T!Result(ret)) <=> ret >= 0)
    <2>1. CASE layer = "linux"
      BY <1>2, <2>1 DEF T!Asserted, T!Result, T!LinuxResult
    <2>2. CASE layer = "posix"
      BY <1>2, <2>2 DEF T!Asserted, T!Result, T!PosixResult
    <2> QED
      BY <1>2, <2>1, <2>2
  <1> QED
    BY <1>1, <1>2, <1>3 DEF SendInv

\* An iteration of sendAll's loop.
LEMMA SendPartInv ==
  ASSUME SendInv, NEW ret \in -1 .. DataSize, NEW garbage \in Nat, T!SendPart(ret, garbage)
  PROVE  SendInv'
  <1>0. DataSize \in Nat \ {0}
    BY TransferAssumption
  <1>1. /\ loop /\ bytesSent < DataSize /\ ret <= DataSize - bytesSent
        /\ wire' = wire \o T!Sendmsg(bytesSent, ret)
        /\ bytesSent' = (bytesSent + T!LastBytesSent(ret, garbage)) % (2 * DataSize)
        /\ T!Called(ret) /\ sends' = sends + 1
        /\ layer' = layer /\ loop' = loop /\ target' = target
    BY DEF T!SendPart, T!Advance, T!Called
  <1>2. /\ bytesSent \in Nat /\ wire \in Seq(SentByte) /\ failed \in Nat /\ loop \in BOOLEAN
    BY DEF SendInv
  <1>3. /\ failed' \in Nat /\ errors' \in Nat /\ failed' = failed + (IF ret < 0 THEN 1 ELSE 0)
        /\ (layer = "linux") # (loop /\ target = NoAddress) => errors' = failed'
    BY <1>0, <1>1, CalledCounts
  <1>4. T!LastBytesSent(ret, garbage) = IF ret < 0 THEN garbage ELSE ret
    BY <1>0, LastBytes
  <1>5. bytesSent' \in Nat /\ (ret >= 0 => bytesSent' = bytesSent + ret)
    <2>1. 2 * DataSize \in Nat \ {0} /\ bytesSent + T!LastBytesSent(ret, garbage) \in Nat
      BY <1>0, <1>2, <1>4
    <2>2. ret >= 0 => bytesSent + T!LastBytesSent(ret, garbage) = bytesSent + ret
                      /\ bytesSent + ret < 2 * DataSize
      BY <1>0, <1>1, <1>2, <1>4
    <2> QED
      BY <1>1, <2>1, <2>2, Wrapped
  <1> DEFINE part == T!Sendmsg(bytesSent, ret)
  <1>6. /\ part \in Seq(SentByte) /\ Len(part) = IF ret < 0 THEN 0 ELSE ret
        /\ \A i \in 1 .. Len(part) : part[i].byte = bytesSent + i /\ part[i].to = target
    <2>1. ret \in Int /\ -1 <= ret
      BY <1>0
    <2> QED
      BY <1>2, <2>1, SendmsgIs
  <1>7. /\ wire' \in Seq(SentByte) /\ Len(wire') = Len(wire) + Len(part)
        /\ Len(wire) \in Nat /\ Len(part) \in Nat
        /\ \A i \in 1 .. Len(wire) + Len(part) :
             wire'[i] = IF i <= Len(wire) THEN wire[i] ELSE part[i - Len(wire)]
    <2> HIDE DEF part
    <2> QED
      BY <1>1, <1>2, <1>6, ConcatProperties, LenProperties DEF part
  <1> HIDE DEF part
  <1>8. \A i \in 1 .. Len(wire') : wire'[i].to = target'
    BY <1>1, <1>6, <1>7 DEF SendInv
  <1>9. ASSUME failed' = 0
        PROVE  /\ Len(wire') = bytesSent' /\ bytesSent' <= DataSize
               /\ \A i \in 1 .. Len(wire') : wire'[i].byte = i
    <2>1. failed = 0 /\ ret >= 0
      BY <1>2, <1>3, <1>9
    <2>2. Len(wire) = bytesSent /\ \A i \in 1 .. Len(wire) : wire[i].byte = i
      BY <2>1 DEF SendInv
    <2>3. Len(part) = ret /\ Len(wire') = bytesSent + ret /\ bytesSent' = bytesSent + ret
      BY <1>2, <1>5, <1>6, <1>7, <2>1, <2>2
    <2>4. ASSUME NEW i \in 1 .. Len(wire') PROVE wire'[i].byte = i
      <3>1. CASE i <= Len(wire)
        BY <1>7, <2>2, <3>1
      <3>2. CASE ~(i <= Len(wire))
        <4>1. i - Len(wire) \in 1 .. Len(part)
          BY <1>7, <3>2
        <4>2. wire'[i].byte = bytesSent + (i - Len(wire))
          BY <1>6, <1>7, <3>2, <4>1
        <4> QED
          BY <1>2, <2>2, <4>2
      <3> QED
        BY <3>1, <3>2
    <2>5. bytesSent + ret <= DataSize
      BY <1>0, <1>1, <1>2
    <2> QED
      BY <2>3, <2>4, <2>5
  <1>10. sends' # 0
    BY <1>1 DEF SendInv
  <1> QED
    <2>1. ~loop' \/ failed' = 0 => failed' = 0
      BY <1>1
    <2>2. sends' \in Nat /\ layer' \in {"linux", "posix"} /\ loop' \in BOOLEAN /\ target' \in Target
      BY <1>1 DEF SendInv
    <2>3. (layer' = "linux") # (loop' /\ target' = NoAddress) => errors' = failed'
      BY <1>1, <1>3
    <2> QED
      BY <1>3, <1>5, <1>7, <1>8, <1>9, <1>10, <2>1, <2>2, <2>3 DEF SendInv

\* The one call of send and sendToAddress.
LEMMA SendOnceInv ==
  ASSUME SendInv, NEW ret \in -1 .. DataSize, T!Send(ret)
  PROVE  SendInv'
  <1>0. DataSize \in Nat \ {0} /\ ret \in Int /\ -1 <= ret /\ ret <= DataSize
    BY TransferAssumption
  <1>1. /\ ~loop /\ sends = 0
        /\ wire' = T!Sendmsg(0, ret)
        /\ bytesSent' = T!LastBytesSent(ret, 0)
        /\ T!Called(ret) /\ sends' = sends + 1
        /\ layer' = layer /\ loop' = loop /\ target' = target
    BY DEF T!Send, T!Called
  <1>2. /\ failed' \in Nat /\ errors' \in Nat
        /\ (layer = "linux") # (loop /\ target = NoAddress) => errors' = failed'
    BY <1>0, <1>1, CalledCounts
  <1>3. bytesSent' = IF ret < 0 THEN 0 ELSE ret
    BY <1>0, <1>1, LastBytes
  <1>4. /\ wire' \in Seq(SentByte) /\ Len(wire') = IF ret < 0 THEN 0 ELSE ret
        /\ \A i \in 1 .. Len(wire') : wire'[i].byte = 0 + i /\ wire'[i].to = target
    BY <1>0, <1>1, SendmsgIs
  <1>5. \A i \in 1 .. Len(wire') : wire'[i].byte = i
    BY <1>0, <1>4
  <1>6. Len(wire') = bytesSent' /\ bytesSent' <= DataSize /\ bytesSent' \in Nat
    BY <1>0, <1>3, <1>4
  <1> QED
    BY <1>1, <1>2, <1>4, <1>5, <1>6 DEF SendInv

\* Every step keeps the invariant of the sending side.
LEMMA SendInvNext == SendInv /\ [T!Next]_(T!vars) => SendInv'
  <1> SUFFICES ASSUME SendInv, [T!Next]_(T!vars) PROVE SendInv'
    OBVIOUS
  <1>0. DataSize \in Nat \ {0}
    BY TransferAssumption
  <1>1. ASSUME NEW ret \in 0 .. DataSize, T!SendPart(ret, 0) PROVE SendInv'
    BY <1>0, <1>1, SendPartInv
  <1>2. ASSUME NEW garbage \in 0 .. 2 * DataSize - 1, T!SendPart(-1, garbage) PROVE SendInv'
    BY <1>0, <1>2, SendPartInv
  <1>3. ASSUME NEW ret \in -1 .. DataSize, T!Send(ret) PROVE SendInv'
    BY <1>3, SendOnceInv
  <1>4. ASSUME UNCHANGED T!sending PROVE SendInv'
    BY <1>4 DEF T!sending, SendInv
  <1>5. ASSUME \/ \E n \in 0 .. MaxPacket, from \in T!Sender : T!Arrive(n, from)
               \/ T!PeerCloses \/ T!AskSize \/ T!ReceivePacket
               \/ \E e \in {"Timeout", "Other"} : T!ReceiveError(e)
               \/ UNCHANGED T!vars
        PROVE  UNCHANGED T!sending
    BY <1>5 DEF T!Arrive, T!PeerCloses, T!AskSize, T!ReceivePacket, T!ReceiveError, T!vars
  <1> QED
    BY <1>1, <1>2, <1>3, <1>4, <1>5 DEF T!Next

\* sendAll hands every byte to the kernel once and in order, however the kernel
\* splits them, unless a call failed; send reports what left; and the assertions
\* log each failed call and no other where they fit the layer's codes.
THEOREM AlwaysSendsAll == T!Spec => []SendsAll
  <1>1. T!Init => SendInv
    <2> SUFFICES ASSUME T!Init PROVE SendInv
      OBVIOUS
    <2>1. <<>> \in Seq(SentByte) /\ Len(<<>>) = 0
      OBVIOUS
    <2> QED
      BY <2>1, TransferAssumption DEF T!Init, SendInv, Target
  <1>2. SendInv => SendsAll
    <2> SUFFICES ASSUME SendInv PROVE SendsAll
      OBVIOUS
    <2>1. DOMAIN wire = 1 .. Len(wire) /\ bytesSent \in Nat
      BY LenProperties DEF SendInv
    <2>2. ASSUME ~loop \/ failed = 0
          PROVE  [i \in DOMAIN wire |-> wire[i].byte] = T!RestFrom(0, bytesSent) /\ bytesSent <= DataSize
      <3>1. /\ Len(wire) = bytesSent /\ bytesSent <= DataSize
            /\ \A i \in 1 .. Len(wire) : wire[i].byte = i
        BY <2>2 DEF SendInv
      <3>2. [i \in 1 .. Len(wire) |-> wire[i].byte] = [i \in 1 .. Len(wire) |-> 0 + i]
        BY <3>1
      <3> QED
        BY <2>1, <3>1, <3>2 DEF T!RestFrom
    <2> QED
      BY <2>1, <2>2 DEF SendInv, SendsAll, T!SendsAll
  <1> QED
    BY <1>1, <1>2, SendInvNext, PTL DEF T!Spec

-----------------------------------------------------------------------------
(* Receiving a packet in two calls.                                        *)

Packet == [number : Nat, size : Nat, from : T!SocketAddress]
Error == {"Timeout", "Other", "Disconnected", "none"}
ReceiveRecord ==
  [after : Nat, packets : Seq(Packet), asked : Nat, data : Nat,
   from : T!SocketAddress \cup {NoAddress}, error : Error]

\* How many packets the calls so far have taken.
TakenSoFar == IF results = <<>> THEN 0 ELSE results[Len(results)].after + Len(results[Len(results)].packets)

\* The property of one result.
Whole(i) ==
  LET r == results[i] IN
  /\ r.after = IF i = 1 THEN 0 ELSE results[i - 1].after + Len(results[i - 1].packets)
  /\ \A k \in 1 .. Len(r.packets) : r.packets[k].number = r.after + k
  /\ r.asked > 0 /\ r.packets # <<>> => r.data > 0
  /\ r.data > 0 => T!HoldsAll(r)

\* The packets that wait follow those that were taken.
Queued ==
  /\ packets \in Nat /\ pending \in Seq(Packet) /\ packets - Len(pending) \in Nat
  /\ \A k \in 1 .. Len(pending) : pending[k].number = packets - Len(pending) + k

\* The buffer has room for nothing, for the first datagram, or for bytes that a
\* stream has queued.
BufferFits ==
  bufferSize # -1 =>
    /\ bufferSize \in Nat
    /\ IF T!Stream THEN bufferSize <= Len(pending)
       ELSE bufferSize = 0 \/ (pending # <<>> /\ bufferSize = pending[1].size)

PacketInv ==
  /\ Queued /\ BufferFits
  /\ results \in Seq(ReceiveRecord) /\ packets - Len(pending) = TakenSoFar
  /\ \A i \in 1 .. Len(results) : Whole(i)

\* A result is added.
LEMMA ResultAdded ==
  ASSUME PacketInv, NEW r \in ReceiveRecord, results' = Append(results, r), how' = how,
         r.after = packets - Len(pending),
         \A k \in 1 .. Len(r.packets) : r.packets[k].number = r.after + k,
         r.asked > 0 /\ r.packets # <<>> => r.data > 0,
         r.data > 0 => T!HoldsAll(r)
  PROVE  /\ results' \in Seq(ReceiveRecord) /\ TakenSoFar' = r.after + Len(r.packets)
         /\ (\A i \in 1 .. Len(results) : Whole(i))'
  <1>1. PICK n \in Nat : n = Len(results)
    BY LenProperties DEF PacketInv
  <1>2. /\ results' \in Seq(ReceiveRecord) /\ Len(results') = n + 1 /\ results'[n + 1] = r
        /\ \A i \in 1 .. n : results'[i] = results[i]
    BY <1>1, AppendProperties DEF PacketInv
  <1>3. results' # <<>>
    BY <1>1, <1>2
  <1>4. r.after = IF n + 1 = 1 THEN 0 ELSE results'[n].after + Len(results'[n].packets)
    <2>1. r.after = TakenSoFar
      BY DEF PacketInv
    <2>2. CASE n = 0
      <3>1. results = <<>>
        BY <1>1, <2>2, EmptySeq DEF PacketInv
      <3> QED
        BY <2>1, <2>2, <3>1 DEF TakenSoFar
    <2>3. CASE n # 0
      <3>1. results # <<>> /\ n \in 1 .. n /\ n + 1 # 1
        BY <1>1, <2>3
      <3> QED
        BY <1>1, <1>2, <2>1, <3>1 DEF TakenSoFar
    <2> QED
      BY <2>2, <2>3
  <1>5. ASSUME NEW i \in 1 .. n + 1 PROVE Whole(i)'
    <2>1. CASE i = n + 1
      <3>1. results'[i] = r /\ i - 1 = n /\ (i = 1 <=> n + 1 = 1)
        BY <1>1, <1>2, <2>1
      <3>2. T!HoldsAll(r)' <=> T!HoldsAll(r)
        BY DEF T!HoldsAll, T!Stream
      <3> QED
        BY <1>4, <3>1, <3>2 DEF Whole, T!HoldsAll, T!Stream
    <2>2. CASE i # n + 1
      <3>1. i \in 1 .. n /\ (i = 1 \/ i - 1 \in 1 .. n)
        BY <1>1, <2>2
      <3>2. Whole(i)
        BY <1>1, <3>1 DEF PacketInv
      <3>3. results'[i] = results[i] /\ (i = 1 \/ results'[i - 1] = results[i - 1])
        BY <1>2, <3>1
      <3> QED
        BY <3>2, <3>3 DEF Whole, T!HoldsAll, T!Stream
    <2> QED
      BY <2>1, <2>2
  <1>6. TakenSoFar' = r.after + Len(r.packets)
    BY <1>2, <1>3 DEF TakenSoFar
  <1> QED
    BY <1>2, <1>5, <1>6

\* A datagram, or bytes of a stream, arrive behind the others.
LEMMA ArriveInv ==
  ASSUME PacketInv, NEW n \in Nat, NEW from \in T!SocketAddress, T!Arrive(n, from)
  PROVE  PacketInv'
  <1>1. PICK q : q = T!Incoming(n, from)
    OBVIOUS
  <1>2. /\ packets' = packets + Len(q) /\ pending' = pending \o q
        /\ how' = how /\ bufferSize' = bufferSize /\ results' = results
    BY <1>1 DEF T!Arrive
  <1>3. q \in Seq(Packet) /\ Len(q) \in Nat /\ \A k \in 1 .. Len(q) : q[k].number = packets + k
    <2>1. packets \in Nat
      BY DEF PacketInv, Queued
    <2>2. CASE T!Stream
      <3>1. q = [i \in 1 .. n |-> [number |-> packets + i, size |-> 1, from |-> from]]
        BY <1>1, <2>2 DEF T!Incoming
      <3>2. \A i \in 1 .. n : [number |-> packets + i, size |-> 1, from |-> from] \in Packet
        BY <2>1 DEF Packet
      <3>3. q \in [1 .. n -> Packet]
        BY <3>1, <3>2
      <3>4. q \in Seq(Packet) /\ Len(q) = n
        BY <3>3
      <3> QED
        BY <3>1, <3>4
    <2>3. CASE ~T!Stream
      <3>1. q = <<[number |-> packets + 1, size |-> n, from |-> from]>>
        BY <1>1, <2>3 DEF T!Incoming
      <3>2. [number |-> packets + 1, size |-> n, from |-> from] \in Packet
        BY <2>1 DEF Packet
      <3> QED
        BY <3>1, <3>2
    <2> QED
      BY <2>2, <2>3
  <1>4. PICK m \in Nat, l \in Nat : m = Len(pending) /\ l = Len(q)
    BY <1>3, LenProperties DEF PacketInv, Queued
  <1>5. /\ pending' \in Seq(Packet) /\ Len(pending') = m + l
        /\ \A k \in 1 .. m + l : pending'[k] = IF k <= m THEN pending[k] ELSE q[k - m]
    BY <1>2, <1>3, <1>4, ConcatProperties DEF PacketInv, Queued
  <1>6. Queued'
    <2>1. packets \in Nat /\ packets - m \in Nat /\ packets' = packets + l
      BY <1>2, <1>4 DEF PacketInv, Queued
    <2>2. packets' - (m + l) = packets - m
      BY <2>1
    <2>3. ASSUME NEW k \in 1 .. m + l PROVE pending'[k].number = packets - m + k
      <3>1. CASE k <= m
        BY <1>4, <1>5, <3>1 DEF PacketInv, Queued
      <3>2. CASE ~(k <= m)
        <4>1. k - m \in 1 .. l /\ packets + (k - m) = packets - m + k
          BY <2>1, <3>2
        <4>2. pending'[k] = q[k - m]
          BY <1>5, <3>2
        <4> QED
          BY <1>3, <1>4, <4>1, <4>2
      <3> QED
        BY <3>1, <3>2
    <2> QED
      BY <1>5, <2>1, <2>2, <2>3 DEF Queued
  <1>7. BufferFits'
    <2>1. CASE bufferSize = -1
      BY <1>2, <2>1 DEF BufferFits
    <2>2. CASE bufferSize # -1 /\ T!Stream
      <3>1. bufferSize \in Nat /\ bufferSize <= m
        BY <1>4, <2>2 DEF PacketInv, BufferFits
      <3>2. bufferSize' <= Len(pending')
        BY <1>2, <1>5, <3>1
      <3> QED
        BY <1>2, <2>2, <3>1, <3>2 DEF BufferFits, T!Stream
    <2>3. CASE bufferSize # -1 /\ ~T!Stream
      <3>1. bufferSize \in Nat /\ (bufferSize = 0 \/ (pending # <<>> /\ bufferSize = pending[1].size))
        BY <2>3 DEF PacketInv, BufferFits
      <3>2. ASSUME pending # <<>> PROVE pending' # <<>> /\ pending'[1] = pending[1]
        <4>1. m > 0
          BY <1>4, <3>2, EmptySeq DEF PacketInv, Queued
        <4>2. 1 \in 1 .. m + l /\ 1 <= m /\ m + l # 0
          BY <4>1
        <4> QED
          BY <1>5, <4>2
      <3> QED
        BY <1>2, <2>3, <3>1, <3>2 DEF BufferFits, T!Stream
    <2> QED
      BY <2>1, <2>2, <2>3
  <1>8. packets' - Len(pending') = packets - Len(pending)
    <2>1. packets \in Nat
      BY DEF PacketInv, Queued
    <2> QED
      BY <1>2, <1>4, <1>5, <2>1
  <1>9. /\ results' \in Seq(ReceiveRecord) /\ TakenSoFar' = TakenSoFar
        /\ (\A i \in 1 .. Len(results) : Whole(i))'
    BY <1>2 DEF PacketInv, TakenSoFar, Whole, T!HoldsAll, T!Stream
  <1> QED
    BY <1>6, <1>7, <1>8, <1>9 DEF PacketInv

\* What recvmsg takes is the beginning of the queue.
LEMMA RecvmsgIs ==
  ASSUME PacketInv, bufferSize # -1, pending # <<>> \/ ended, ~T!Stream => pending # <<>>
  PROVE  \E p \in Seq(Packet), d \in Nat :
           /\ p = T!Recvmsg /\ d = T!BytesReceived(p)
           /\ Len(p) <= Len(pending) /\ \A k \in 1 .. Len(p) : p[k] = pending[k]
           /\ IF T!Stream THEN d = Len(p) /\ d = bufferSize
              ELSE /\ p # <<>> /\ d \in {0, p[1].size} /\ (bufferSize > 0 => d = bufferSize)
  <1>1. PICK b \in Nat, m \in Nat : b = bufferSize /\ m = Len(pending) /\ pending \in Seq(Packet)
    BY LenProperties DEF PacketInv, Queued, BufferFits
  <1>2. CASE T!Stream
    <2>1. b <= m
      BY <1>1, <1>2 DEF PacketInv, BufferFits
    <2>2. T!Smaller(b, m) = b
      BY <2>1 DEF T!Smaller
    <2>3. T!Recvmsg = SubSeq(pending, 1, b)
      BY <1>1, <1>2, <2>2 DEF T!Recvmsg
    <2>4. \A k \in 1 .. b : pending[k] \in Packet
      BY <1>1, <2>1, ElementOfSeq
    <2>5. SubSeq(pending, 1, b) \in Seq(Packet) /\ Len(SubSeq(pending, 1, b)) = b
          /\ \A k \in 1 .. b : SubSeq(pending, 1, b)[k] = pending[k]
      BY <1>1, <2>1, <2>4, SubSeqProperties
    <2>6. T!BytesReceived(SubSeq(pending, 1, b)) = b
      BY <1>2, <2>5 DEF T!BytesReceived
    <2> QED
      BY <1>1, <1>2, <2>1, <2>3, <2>5, <2>6
  <1>3. CASE ~T!Stream
    <2>1. pending # <<>> /\ m >= 1 /\ pending[1] \in Packet
      BY <1>1, <1>3, EmptySeq, ElementOfSeq
    <2>2. T!Recvmsg = <<pending[1]>> /\ <<pending[1]>> \in Seq(Packet)
      BY <1>3, <2>1 DEF T!Recvmsg
    <2>3. b = 0 \/ b = pending[1].size
      BY <1>1, <1>3 DEF PacketInv, BufferFits
    <2>4. T!BytesReceived(<<pending[1]>>) = T!Smaller(b, pending[1].size) /\ pending[1].size \in Nat
      BY <1>1, <1>3, <2>1 DEF T!BytesReceived, Packet
    <2>5. T!Smaller(b, pending[1].size) = b
      BY <2>3, <2>4 DEF T!Smaller
    <2>6. Len(<<pending[1]>>) = 1 /\ <<pending[1]>>[1] = pending[1] /\ <<pending[1]>> # <<>>
      OBVIOUS
    <2>7. PICK p : p = <<pending[1]>>
      OBVIOUS
    <2>8. /\ p = T!Recvmsg /\ b = T!BytesReceived(p) /\ p \in Seq(Packet) /\ Len(p) <= m /\ p # <<>>
          /\ \A k \in 1 .. Len(p) : p[k] = pending[k]
      BY <2>1, <2>2, <2>4, <2>5, <2>6, <2>7
    <2>9. b \in {0, p[1].size} /\ (bufferSize > 0 => b = bufferSize)
      BY <1>1, <2>3, <2>6, <2>7
    <2> QED
      BY <1>1, <1>3, <2>8, <2>9
  <1> QED
    BY <1>2, <1>3

\* The number of bytes that wait.
LEMMA WaitingIs == PacketInv => T!NextPacketSize \in Nat
  <1> SUFFICES ASSUME PacketInv PROVE T!NextPacketSize \in Nat
    OBVIOUS
  <1>1. pending \in Seq(Packet) /\ Len(pending) \in Nat
    BY LenProperties DEF PacketInv, Queued
  <1>2. pending # <<>> => Head(pending) \in Packet
    BY <1>1, HeadTailProperties
  <1>3. pending # <<>> => Head(pending).size \in Nat
    BY <1>2 DEF Packet
  <1> QED
    BY <1>1, <1>3 DEF T!NextPacketSize

\* A call takes the first packets and returns their bytes.
LEMMA ReceivePacketInv ==
  ASSUME PacketInv, T!ReceivePacket, ~T!Stream => ~ended
  PROVE  PacketInv'
  <1>1. /\ bufferSize # -1 /\ (pending # <<>> \/ ended) /\ bufferSize' = -1
        /\ how' = how /\ packets' = packets
    BY DEF T!ReceivePacket
  <1>2. PICK p \in Seq(Packet), d \in Nat :
          /\ p = T!Recvmsg /\ d = T!BytesReceived(p)
          /\ Len(p) <= Len(pending) /\ \A k \in 1 .. Len(p) : p[k] = pending[k]
          /\ IF T!Stream THEN d = Len(p) /\ d = bufferSize
             ELSE /\ p # <<>> /\ d \in {0, p[1].size} /\ (bufferSize > 0 => d = bufferSize)
    BY <1>1, RecvmsgIs
  <1>3. PICK r : r = T!Received(p)
    OBVIOUS
  <1>4. results' = Append(results, r) /\ pending' = SubSeq(pending, Len(p) + 1, Len(pending))
    BY <1>2, <1>3 DEF T!ReceivePacket
  <1>5. PICK l \in Nat, m \in Nat, t \in Nat :
          l = Len(p) /\ m = Len(pending) /\ t = packets - m /\ l <= m /\ pending \in Seq(Packet) /\ packets \in Nat
    BY <1>2, LenProperties DEF PacketInv, Queued
  <1>6. bufferSize \in Nat /\ T!NextPacketSize \in Nat
    BY <1>1, WaitingIs DEF PacketInv, BufferFits
  <1>7. T!AddressOf(p) \in T!SocketAddress \cup {NoAddress} \/ d = 0
    <2>1. ASSUME how = "withAddress" PROVE p[1].from \in T!SocketAddress
      <3>1. p # <<>>
        BY <1>2, <2>1 DEF T!Stream
      <3>2. p[1] \in Packet
        BY <1>2, <3>1, EmptySeq, ElementOfSeq, LenProperties
      <3> QED
        BY <3>2 DEF Packet
    <2> QED
      BY <2>1 DEF T!AddressOf
  <1>8. r = [after |-> t, packets |-> p, asked |-> bufferSize,
             data |-> d, from |-> IF d = 0 THEN NoAddress ELSE T!AddressOf(p),
             error |-> IF d = 0 THEN T!ReceiveRawPacket("Disconnected") ELSE "none"]
    BY <1>2, <1>3, <1>5 DEF T!Received, T!ReceiveResult
  <1>9. T!ReceiveRawPacket("Disconnected") \in Error /\ "none" \in Error
    BY DEF Error, T!ReceiveRawPacket, T!SocketReceiveErrorToError
  <1>10. r \in ReceiveRecord
    BY <1>5, <1>6, <1>7, <1>8, <1>9 DEF ReceiveRecord
  <1>11. ASSUME NEW k \in 1 .. l PROVE p[k].number = t + k
    <2>1. k \in 1 .. m
      BY <1>5
    <2> QED
      BY <1>2, <1>5, <2>1 DEF PacketInv, Queued
  <1>12. bufferSize > 0 /\ p # <<>> => d > 0
    BY <1>2, <1>6
  <1>13. d > 0 => T!HoldsAll(r)
    <2> SUFFICES ASSUME d > 0 PROVE T!HoldsAll(r)
      OBVIOUS
    <2>1. r.data = d /\ r.packets = p /\ r.from = T!AddressOf(p)
      BY <1>8
    <2>2. d = (IF T!Stream THEN Len(p) ELSE p[1].size)
      BY <1>2
    <2>3. how = "withAddress" => T!AddressOf(p) = p[1].from
      BY DEF T!AddressOf
    <2> QED
      BY <2>1, <2>2, <2>3 DEF T!HoldsAll
  <1>14. /\ results' \in Seq(ReceiveRecord) /\ TakenSoFar' = t + l
         /\ (\A i \in 1 .. Len(results) : Whole(i))'
    <2>1. r.after = t /\ r.packets = p /\ r.asked = bufferSize /\ r.data = d
      BY <1>8
    <2>2. /\ r.after = packets - Len(pending) /\ (\A k \in 1 .. Len(r.packets) : r.packets[k].number = r.after + k)
          /\ (r.asked > 0 /\ r.packets # <<>> => r.data > 0) /\ (r.data > 0 => T!HoldsAll(r))
      BY <1>5, <1>11, <1>12, <1>13, <2>1
    <2>3. /\ results' \in Seq(ReceiveRecord) /\ TakenSoFar' = r.after + Len(r.packets)
          /\ (\A i \in 1 .. Len(results) : Whole(i))'
      BY <1>1, <1>4, <1>10, <2>2, ResultAdded
    <2> QED
      BY <1>5, <2>1, <2>3
  <1>15. /\ pending' \in Seq(Packet) /\ Len(pending') = m - l
         /\ \A k \in 1 .. m - l : pending'[k] = pending[l + k]
    <2>1. \A k \in l + 1 .. m : pending[k] \in Packet
      BY <1>5, ElementOfSeq
    <2>2. l + 1 \in 1 .. m + 1 /\ m \in l .. m
      BY <1>5
    <2>3. pending' = SubSeq(pending, l + 1, m)
      BY <1>4, <1>5
    <2>4. m - (l + 1) + 1 = m - l /\ \A k \in 1 .. m - l : (l + 1) + k - 1 = l + k
      BY <1>5
    <2> QED
      BY <1>5, <2>1, <2>2, <2>3, <2>4, SubSeqProperties
  <1>16. Queued' /\ packets' - Len(pending') = t + l
    <2>1. packets - (m - l) = t + l /\ t + l \in Nat
      BY <1>5
    <2>2. ASSUME NEW k \in 1 .. m - l PROVE pending'[k].number = (t + l) + k
      <3>1. l + k \in 1 .. m /\ t + (l + k) = (t + l) + k
        BY <1>5
      <3>2. pending[l + k].number = t + (l + k)
        BY <1>5, <3>1 DEF PacketInv, Queued
      <3> QED
        BY <1>15, <3>1, <3>2
    <2> QED
      BY <1>1, <1>5, <1>15, <2>1, <2>2 DEF Queued
  <1>17. BufferFits'
    BY <1>1 DEF BufferFits
  <1> QED
    BY <1>14, <1>16, <1>17 DEF PacketInv

\* The call fails and the packets stay.
LEMMA ReceiveErrorInv ==
  ASSUME PacketInv, NEW e \in {"Timeout", "Other"}, T!ReceiveError(e)
  PROVE  PacketInv'
  <1>1. PICK r : r = T!ReceiveResult(<<>>, 0, NoAddress, T!ReceiveRawPacket(e))
    OBVIOUS
  <1>2. /\ results' = Append(results, r) /\ bufferSize' = -1 /\ bufferSize # -1
        /\ how' = how /\ pending' = pending /\ packets' = packets
    BY <1>1 DEF T!ReceiveError
  <1>3. r = [after |-> packets - Len(pending), packets |-> <<>>, asked |-> bufferSize,
             data |-> 0, from |-> NoAddress, error |-> T!ReceiveRawPacket(e)]
    BY <1>1 DEF T!ReceiveResult
  <1>4. T!ReceiveRawPacket(e) \in Error
    BY DEF Error, T!ReceiveRawPacket, T!SocketReceiveErrorToError
  <1>5. packets - Len(pending) \in Nat /\ bufferSize \in Nat
    BY <1>2 DEF PacketInv, Queued, BufferFits
  <1>6. <<>> \in Seq(Packet) /\ Len(<<>>) = 0
    OBVIOUS
  <1>7. r \in ReceiveRecord
    BY <1>3, <1>4, <1>5, <1>6 DEF ReceiveRecord
  <1>8. /\ r.after = packets - Len(pending) /\ r.packets = <<>> /\ r.data = 0
    BY <1>3
  <1>9. /\ (\A k \in 1 .. Len(r.packets) : r.packets[k].number = r.after + k)
        /\ (r.asked > 0 /\ r.packets # <<>> => r.data > 0) /\ (r.data > 0 => T!HoldsAll(r))
    BY <1>6, <1>8
  <1>10. /\ results' \in Seq(ReceiveRecord) /\ TakenSoFar' = r.after + Len(r.packets)
         /\ (\A i \in 1 .. Len(results) : Whole(i))'
    BY <1>2, <1>7, <1>8, <1>9, ResultAdded
  <1>11. Queued' /\ BufferFits'
    BY <1>2 DEF PacketInv, Queued, BufferFits
  <1>12. packets' - Len(pending') = TakenSoFar'
    BY <1>2, <1>5, <1>6, <1>8, <1>10
  <1> QED
    BY <1>10, <1>11, <1>12 DEF PacketInv

\* Nothing about the packets changes but the size of the buffer.
LEMMA PacketUnchanged ==
  ASSUME PacketInv, how' = how, pending' = pending, packets' = packets, results' = results, BufferFits'
  PROVE  PacketInv'
  BY DEF PacketInv, Queued, TakenSoFar, Whole, T!HoldsAll, T!Stream

\* A sender has an address.
LEMMA SenderIs == T!Sender \subseteq T!SocketAddress
  <1>1. \E a : a \in T!SocketAddress
    BY TransferAssumption DEF T!SocketAddress
  <1>2. (CHOOSE a \in T!SocketAddress : TRUE) \in T!SocketAddress
    BY <1>1, Zenon
  <1> QED
    BY <1>2 DEF T!Sender

\* Only a stream ends.
OnlyStreamsEnd == ended => T!Stream

\* Every step keeps the packets in order and the buffer within them.
LEMMA PacketInvNext == PacketInv /\ OnlyStreamsEnd /\ [T!Next]_(T!vars) => PacketInv' /\ OnlyStreamsEnd'
  <1> SUFFICES ASSUME PacketInv, OnlyStreamsEnd, [T!Next]_(T!vars) PROVE PacketInv' /\ OnlyStreamsEnd'
    OBVIOUS
  <1>1. ASSUME NEW n \in 0 .. MaxPacket, NEW from \in T!Sender, T!Arrive(n, from)
        PROVE  PacketInv' /\ OnlyStreamsEnd'
    <2>1. n \in Nat
      BY TransferAssumption
    <2>2. PacketInv'
      BY <1>1, <2>1, ArriveInv, SenderIs
    <2> QED
      BY <1>1, <2>2 DEF T!Arrive, OnlyStreamsEnd, T!Stream
  <1>2. ASSUME T!AskSize PROVE PacketInv' /\ OnlyStreamsEnd'
    <2>1. /\ bufferSize' = T!NextPacketSize
          /\ how' = how /\ pending' = pending /\ packets' = packets /\ results' = results /\ ended' = ended
      BY <1>2 DEF T!AskSize
    <2>2. BufferFits'
      <3>1. T!NextPacketSize \in Nat /\ Len(pending) \in Nat
        BY WaitingIs, LenProperties DEF PacketInv, Queued
      <3>2. pending # <<>> => Head(pending) = pending[1]
        BY HeadTailProperties DEF PacketInv, Queued
      <3>3. CASE T!Stream
        <4>1. T!NextPacketSize = Len(pending)
          BY <3>3 DEF T!NextPacketSize
        <4> QED
          BY <2>1, <3>1, <3>3, <4>1 DEF BufferFits, T!Stream
      <3>4. CASE ~T!Stream
        <4>1. T!NextPacketSize = 0 \/ (pending # <<>> /\ T!NextPacketSize = pending[1].size)
          BY <3>2, <3>4 DEF T!NextPacketSize
        <4> QED
          BY <2>1, <3>1, <3>4, <4>1 DEF BufferFits, T!Stream
      <3> QED
        BY <3>3, <3>4
    <2> QED
      BY <2>1, <2>2, PacketUnchanged DEF OnlyStreamsEnd, T!Stream
  <1>3. ASSUME UNCHANGED T!receiving PROVE PacketInv' /\ OnlyStreamsEnd'
    <2>1. /\ how' = how /\ pending' = pending /\ packets' = packets /\ results' = results /\ ended' = ended
          /\ bufferSize' = bufferSize
      BY <1>3 DEF T!receiving
    <2>2. BufferFits'
      BY <2>1 DEF PacketInv, BufferFits, T!Stream
    <2> QED
      BY <2>1, <2>2, PacketUnchanged DEF OnlyStreamsEnd, T!Stream
  <1>4. ASSUME \/ \E ret \in 0 .. DataSize : T!SendPart(ret, 0)
               \/ \E garbage \in 0 .. 2 * DataSize - 1 : T!SendPart(-1, garbage)
               \/ \E ret \in -1 .. DataSize : T!Send(ret)
               \/ UNCHANGED T!vars
        PROVE  UNCHANGED T!receiving
    BY <1>4 DEF T!SendPart, T!Send, T!Called, T!vars
  <1>5. ASSUME T!PeerCloses PROVE PacketInv' /\ OnlyStreamsEnd'
    <2>1. /\ how' = how /\ pending' = pending /\ packets' = packets /\ results' = results /\ T!Stream
          /\ bufferSize' = bufferSize
      BY <1>5 DEF T!PeerCloses
    <2>2. BufferFits'
      BY <2>1 DEF PacketInv, BufferFits, T!Stream
    <2> QED
      BY <2>1, <2>2, PacketUnchanged DEF OnlyStreamsEnd, T!Stream
  <1>6. ASSUME T!ReceivePacket PROVE PacketInv' /\ OnlyStreamsEnd'
    <2>1. PacketInv'
      BY <1>6, ReceivePacketInv DEF OnlyStreamsEnd
    <2> QED
      BY <1>6, <2>1 DEF T!ReceivePacket, OnlyStreamsEnd, T!Stream
  <1>7. ASSUME NEW e \in {"Timeout", "Other"}, T!ReceiveError(e) PROVE PacketInv' /\ OnlyStreamsEnd'
    <2>1. PacketInv'
      BY <1>7, ReceiveErrorInv
    <2> QED
      BY <1>7, <2>1 DEF T!ReceiveError, OnlyStreamsEnd, T!Stream
  <1> QED
    BY <1>1, <1>2, <1>3, <1>4, <1>5, <1>6, <1>7 DEF T!Next

\* receive, receiveWithAddress and receiveRawPacket get the packets that arrived from
\* the kernel once each and in order, through failing calls and whatever arrives
\* between the question for the size and the receipt, and what they return is a whole
\* datagram with its own sender or all the bytes they took from a stream.
THEOREM PacketsAlwaysWhole == T!Spec => []PacketsWhole
  <1>1. T!Init => PacketInv /\ OnlyStreamsEnd
    <2> SUFFICES ASSUME T!Init PROVE PacketInv /\ OnlyStreamsEnd
      OBVIOUS
    <2>1. packets = 0 /\ pending = <<>> /\ bufferSize = -1 /\ results = <<>> /\ ended = FALSE
      BY DEF T!Init
    <2>2. /\ pending \in Seq(Packet) /\ Len(pending) = 0 /\ results \in Seq(ReceiveRecord) /\ Len(results) = 0
      BY <2>1
    <2>3. Queued /\ BufferFits
      BY <2>1, <2>2 DEF Queued, BufferFits
    <2>4. TakenSoFar = 0 /\ packets - Len(pending) = TakenSoFar
      <3>1. TakenSoFar = 0
        BY <2>1, Zenon DEF TakenSoFar
      <3>2. packets = 0 /\ Len(pending) = 0
        BY <2>1, <2>2, Zenon
      <3>3. packets - Len(pending) = 0
        BY ONLY <3>2
      <3> QED
        BY <3>1, <3>3, Zenon
    <2>5. \A i \in 1 .. Len(results) : Whole(i)
      BY <2>2
    <2> QED
      BY <2>1, <2>2, <2>3, <2>4, <2>5 DEF PacketInv, OnlyStreamsEnd
  <1>2. PacketInv => PacketsWhole
    <2> SUFFICES ASSUME PacketInv PROVE PacketsWhole
      OBVIOUS
    <2>1. DOMAIN results = 1 .. Len(results)
      BY LenProperties DEF PacketInv
    <2>2. ASSUME NEW i \in 1 .. Len(results)
          PROVE  DOMAIN results[i].packets = 1 .. Len(results[i].packets)
      <3>1. results[i] \in ReceiveRecord
        BY ElementOfSeq, <2>2 DEF PacketInv
      <3> QED
        BY <3>1, LenProperties DEF ReceiveRecord
    <2> QED
      BY <2>1, <2>2 DEF PacketInv, Whole, PacketsWhole, T!PacketsWhole
  <1> QED
    BY <1>1, <1>2, PacketInvNext, PTL DEF T!Spec

-----------------------------------------------------------------------------
(* Reading fields from the segments of a stream.                           *)

\* Every set of naturals that is not empty has a least element.
LEMMA LeastNatural ==
  ASSUME NEW X \in SUBSET Nat, X # {}
  PROVE  \E x \in X : \A y \in X : x <= y
  <1> DEFINE R == {ss \in Nat \X Nat : ss[1] < ss[2]}
  <1>1. IsWellFoundedOn(R, Nat)
    BY NatLessThanWellFounded, Zenon DEF OpToRel
  <1>2. PICK x \in X : \A y \in X : ~(<<y, x>> \in R)
    <2> HIDE DEF R
    <2> QED
      BY <1>1, WFMin
  <1>3. ASSUME NEW y \in X PROVE x <= y
    <2>1. <<y, x>> \in Nat \X Nat /\ ~(<<y, x>> \in R)
      BY <1>2
    <2>2. x \in Nat /\ y \in Nat /\ ~(y < x)
      BY <2>1
    <2> QED
      BY <2>2
  <1> QED
    BY <1>3

\* The n bytes that arrived after the first ones.
Bytes(first, n) == [i \in 1 .. n |-> first + i]

\* They are a sequence.
LEMMA BytesAre ==
  ASSUME NEW first \in Nat, NEW n \in Nat
  PROVE  /\ Bytes(first, n) \in Seq(Nat) /\ Len(Bytes(first, n)) = n
         /\ DOMAIN Bytes(first, n) = 1 .. n
         /\ \A i \in 1 .. n : Bytes(first, n)[i] = first + i
         /\ n = 0 => Bytes(first, n) = <<>>
  BY DEF Bytes

\* Bytes that follow each other, put together.
LEMMA BytesConcat ==
  ASSUME NEW a \in Nat, NEW b \in Nat, NEW c \in Nat, a <= b, b <= c
  PROVE  Bytes(a, b - a) \o Bytes(b, c - b) = Bytes(a, c - a)
  <1> DEFINE x == Bytes(a, b - a)
             y == Bytes(b, c - b)
             z == Bytes(a, c - a)
  <1>1. b - a \in Nat /\ c - b \in Nat /\ c - a \in Nat
    OBVIOUS
  <1>2. /\ x \in Seq(Nat) /\ Len(x) = b - a /\ \A i \in 1 .. b - a : x[i] = a + i
        /\ y \in Seq(Nat) /\ Len(y) = c - b /\ \A i \in 1 .. c - b : y[i] = b + i
        /\ z \in Seq(Nat) /\ Len(z) = c - a /\ \A i \in 1 .. c - a : z[i] = a + i
    BY <1>1, BytesAre
  <1> HIDE DEF x, y, z
  <1>3. /\ x \o y \in Seq(Nat) /\ Len(x \o y) = Len(x) + Len(y)
        /\ \A i \in 1 .. Len(x) + Len(y) : (x \o y)[i] = IF i <= Len(x) THEN x[i] ELSE y[i - Len(x)]
    BY <1>2, ConcatProperties
  <1>4. Len(x \o y) = Len(z)
    BY <1>2, <1>3
  <1>5. ASSUME NEW i \in 1 .. Len(z) PROVE (x \o y)[i] = z[i]
    <2>1. CASE i <= b - a
      BY <1>2, <1>3, <2>1
    <2>2. CASE ~(i <= b - a)
      <3>1. i - (b - a) \in 1 .. c - b
        BY <1>2, <2>2
      <3>2. i \in 1 .. Len(x) + Len(y) /\ ~(i <= Len(x)) /\ i - Len(x) = i - (b - a) /\ i \in 1 .. c - a
        BY <1>2, <2>2
      <3>3. (x \o y)[i] = y[i - (b - a)]
        BY <1>3, <3>2, Zenon
      <3>4. y[i - (b - a)] = b + (i - (b - a)) /\ z[i] = a + i
        BY <1>2, <3>1, <3>2, Zenon
      <3>5. b + (i - (b - a)) = a + i
        BY <3>2
      <3> QED
        BY <3>3, <3>4, <3>5, Zenon
    <2> QED
      BY <2>1, <2>2
  <1>6. x \o y = z
    BY <1>2, <1>3, <1>4, <1>5, SeqEqual
  <1> QED
    BY <1>6 DEF x, y, z

\* The bytes of a segment from an offset on are the ones that arrived last.
LEMMA SubBytes ==
  ASSUME NEW a \in Nat, NEW b \in Nat, NEW c \in Nat, a <= b, b < c
  PROVE  SubSeq(Bytes(a, c - a), (b - a) + 1, c - a) = Bytes(b, c - b)
  <1> DEFINE x == Bytes(a, c - a)
             y == Bytes(b, c - b)
             m == (b - a) + 1
             n == c - a
             t == SubSeq(x, m, n)
  <1>1. /\ c - a \in Nat /\ c - b \in Nat /\ m \in Int /\ n \in Int /\ m <= n /\ n - m + 1 = c - b
        /\ \A i \in m .. n : i \in 1 .. n
        /\ \A i \in 1 .. c - b : m + i - 1 \in 1 .. n /\ a + (m + i - 1) = b + i
    OBVIOUS
  <1>2. /\ x \in Seq(Nat) /\ Len(x) = n /\ \A i \in 1 .. n : x[i] = a + i
        /\ y \in Seq(Nat) /\ Len(y) = c - b /\ \A i \in 1 .. c - b : y[i] = b + i
    BY <1>1, BytesAre
  <1> HIDE DEF x, y, m, n
  <1>3. ASSUME NEW i \in m .. n PROVE x[i] \in Nat
    <2>1. i \in 1 .. n
      BY <1>1
    <2>2. x[i] = a + i /\ i \in Nat
      BY <1>1, <1>2, <2>1
    <2> QED
      BY <2>2
  <1>4. /\ t \in Seq(Nat) /\ Len(t) = IF m <= n THEN n - m + 1 ELSE 0
        /\ \A i \in 1 .. n - m + 1 : t[i] = x[m + i - 1]
    BY <1>1, <1>3, SubSeqProperties
  <1> HIDE DEF t
  <1>5. Len(t) = Len(y)
    BY <1>1, <1>2, <1>4
  <1>6. ASSUME NEW i \in 1 .. Len(t) PROVE t[i] = y[i]
    <2>1. i \in 1 .. c - b /\ i \in 1 .. n - m + 1
      BY <1>1, <1>2, <1>5
    <2>2. t[i] = x[m + i - 1] /\ y[i] = b + i
      BY <1>2, <1>4, <2>1
    <2>3. m + i - 1 \in 1 .. n /\ a + (m + i - 1) = b + i
      BY <1>1, <2>1
    <2>4. x[m + i - 1] = a + (m + i - 1)
      BY <1>2, <2>3
    <2> QED
      BY <2>2, <2>3, <2>4
  <1>7. t = y
    BY <1>2, <1>4, <1>5, <1>6, SeqEqual
  <1> QED
    BY <1>7 DEF t, x, y, m, n

\* Dropping a whole segment of len bytes leaves the field that much shorter and
\* the reader at the segment's end.
LEMMA DropArithmetic ==
  ASSUME NEW c \in Nat, NEW h \in Nat, NEW z \in Nat, NEW r \in Nat, NEW len,
         h <= c, len = z - (c - h), len <= h, c - h <= z
  PROVE  /\ h - len \in Nat /\ h - len <= c /\ c - (h - len) = z
         /\ (r - (c - h)) - len = r - z /\ z <= c
  OBVIOUS

\* The segments hold the bytes between their offsets.
Segments(vectors, off) ==
  /\ off \in [0 .. Len(vectors) -> Nat]
  /\ \A i, j \in 0 .. Len(vectors) : i <= j => off[i] <= off[j]
  /\ \A i \in 1 .. Len(vectors) : vectors[i] = Bytes(off[i - 1], off[i] - off[i - 1])

\* FlattenSeq of segments that follow each other is the bytes of all of them.
LEMMA FlattenSegments ==
  ASSUME NEW vectors \in Seq(Seq(Nat)), NEW off, Segments(vectors, off)
  PROVE  FlattenSeq(vectors) = Bytes(off[0], off[Len(vectors)] - off[0])
  <1> DEFINE n == Len(vectors)
             g == [i \in 1 .. n |-> Bytes(off[0], off[i] - off[0])]
             Eq(f) == f = [i \in 1 .. n |-> IF i = 1 THEN vectors[i] ELSE f[i - 1] \o vectors[i]]
             flatten == CHOOSE f : Eq(f)
  <1>1. n \in Nat
    BY LenProperties
  <1>2. CASE n = 0
    <2>1. FlattenSeq(vectors) = vectors /\ vectors = <<>>
      BY <1>2, EmptySeq DEF FlattenSeq
    <2>2. off[0] \in Nat /\ off[n] - off[0] = 0
      BY <1>2 DEF Segments
    <2> QED
      BY <2>1, <2>2, BytesAre
  <1>3. CASE n # 0
    <2>1. ASSUME NEW i \in 1 .. n
          PROVE  Bytes(off[0], off[i] - off[0]) =
                   IF i = 1 THEN vectors[i] ELSE Bytes(off[0], off[i - 1] - off[0]) \o vectors[i]
      <3>0. /\ 0 \in 0 .. n /\ i \in 0 .. n /\ i - 1 \in 0 .. n /\ 0 <= i - 1 /\ i - 1 <= i
            /\ i = 1 => i - 1 = 0
        BY <1>1
      <3> HIDE DEF n
      <3>1. /\ off[0] \in Nat /\ off[i] \in Nat /\ off[i - 1] \in Nat
            /\ off[0] <= off[i - 1] /\ off[i - 1] <= off[i]
            /\ vectors[i] = Bytes(off[i - 1], off[i] - off[i - 1])
        BY <3>0 DEF Segments, n
      <3>2. CASE i = 1
        BY <3>0, <3>1, <3>2
      <3>3. CASE i # 1
        <4>1. Bytes(off[0], off[i - 1] - off[0]) \o Bytes(off[i - 1], off[i] - off[i - 1])
              = Bytes(off[0], off[i] - off[0])
          BY <3>1, BytesConcat
        <4> QED
          BY <3>1, <3>3, <4>1, Zenon
      <3> QED
        BY <3>2, <3>3
    <2>2. Eq(g)
      <3>1. \A i \in 1 .. n : i # 1 => i - 1 \in 1 .. n
        BY <1>1
      <3> QED
        BY <2>1, <3>1
    <2>3. Eq(flatten)
      BY <2>2, Zenon
    <2>4. FlattenSeq(vectors) = flatten[n]
      BY <1>3 DEF FlattenSeq
    <2> HIDE DEF flatten
    <2>5. ASSUME NEW X, X = {i \in 1 .. n : flatten[i] # g[i]}, X # {} PROVE FALSE
      <3>0. X \in SUBSET Nat
        BY <1>1, <2>5
      <3>1. PICK i \in X : \A j \in X : i <= j
        BY <2>5, <3>0, LeastNatural
      <3>2. i \in 1 .. n /\ flatten[i] # g[i]
        BY <2>5, <3>1
      <3>3. CASE i = 1
        BY <2>1, <2>3, <3>2, <3>3
      <3>4. CASE i # 1
        <4>1. i - 1 \in 1 .. n /\ i - 1 \notin X
          BY <1>1, <2>5, <3>1, <3>2, <3>4
        <4>2. flatten[i - 1] = g[i - 1]
          BY <2>5, <4>1
        <4>3. flatten[i] = flatten[i - 1] \o vectors[i] /\ g[i] = g[i - 1] \o vectors[i]
          BY <2>2, <2>3, <3>2, <3>4
        <4> QED
          BY <3>2, <4>2, <4>3
      <3> QED
        BY <3>3, <3>4
    <2>6. flatten[n] = g[n]
      <3>1. {i \in 1 .. n : flatten[i] # g[i]} = {}
        BY <2>5, Zenon
      <3>2. n \in 1 .. n
        BY <1>1, <1>3
      <3> HIDE DEF g, n
      <3> QED
        BY <3>1, <3>2
    <2> QED
      BY <1>1, <1>3, <2>4, <2>6
  <1> QED
    BY <1>2, <1>3

\* The segments hold the bytes that arrived, from the first one that is not
\* dropped on; the field being dropped is counted by howMuch.
InputInv ==
  /\ pc \in {"idle", "hasLength", "increaseBegin", "crashed"}
  /\ {length, howMuch, arrived, consumed} \subseteq Nat
  /\ howMuch <= consumed /\ consumed <= arrived
  /\ mVectors \in Seq(Seq(Nat))
  /\ pc \in {"idle", "hasLength"} => howMuch = 0
  /\ pc = "increaseBegin" =>
       \E n \in Nat : n <= consumed /\ result = Bytes(consumed - n, n)
  /\ pc = "crashed" => consumed = arrived
  /\ pc # "crashed" =>
       /\ mVectorsSize = arrived - (consumed - howMuch)
       /\ \E off : /\ Segments(mVectors, off) /\ off[Len(mVectors)] = arrived
                   /\ consumed - howMuch <= off[0]
                   /\ mCurrentVector = Bytes(consumed - howMuch, off[0] - (consumed - howMuch))

\* What the invariant says of a state that has not crashed, with its offsets.
LEMMA InputOffsets ==
  ASSUME InputInv, pc # "crashed"
  PROVE  \E off :
           /\ Segments(mVectors, off) /\ off[Len(mVectors)] = arrived
           /\ off[0] \in Nat /\ consumed - howMuch \in Nat /\ consumed - howMuch <= off[0] /\ off[0] <= arrived
           /\ mCurrentVector = Bytes(consumed - howMuch, off[0] - (consumed - howMuch))
           /\ Len(mCurrentVector) = off[0] - (consumed - howMuch)
           /\ FlattenSeq(mVectors) = Bytes(off[0], arrived - off[0])
  <1>1. PICK off : /\ Segments(mVectors, off) /\ off[Len(mVectors)] = arrived
                   /\ consumed - howMuch <= off[0]
                   /\ mCurrentVector = Bytes(consumed - howMuch, off[0] - (consumed - howMuch))
    BY DEF InputInv
  <1>2. mVectors \in Seq(Seq(Nat)) /\ Len(mVectors) \in Nat /\ consumed - howMuch \in Nat /\ arrived \in Nat
    BY LenProperties DEF InputInv
  <1>3. off[0] \in Nat /\ off[0] <= arrived
    BY <1>1, <1>2 DEF Segments
  <1>4. FlattenSeq(mVectors) = Bytes(off[0], arrived - off[0])
    BY <1>1, <1>2, FlattenSegments
  <1>5. Len(mCurrentVector) = off[0] - (consumed - howMuch)
    <2>1. off[0] - (consumed - howMuch) \in Nat
      BY <1>1, <1>2, <1>3
    <2> QED
      BY <1>1, <1>2, <2>1, BytesAre
  <1> QED
    BY <1>1, <1>2, <1>3, <1>4, <1>5

\* operator[] gives the bytes that are not read, in the order of their arrival.
LEMMA ByteAtIs ==
  ASSUME InputInv, pc # "crashed", NEW i \in Nat, i < arrived - (consumed - howMuch)
  PROVE  ByteAt(i) = (consumed - howMuch) + i + 1
  <1> DEFINE begin == consumed - howMuch
  <1>1. PICK off :
           /\ off[0] \in Nat /\ begin \in Nat /\ begin <= off[0] /\ off[0] <= arrived
           /\ mCurrentVector = Bytes(begin, off[0] - begin)
           /\ Len(mCurrentVector) = off[0] - begin
           /\ FlattenSeq(mVectors) = Bytes(off[0], arrived - off[0])
    BY InputOffsets
  <1>2. arrived \in Nat
    BY DEF InputInv
  <1> HIDE DEF begin
  <1>3. i < arrived - begin
    BY DEF begin
  <1>4. CASE Len(mCurrentVector) <= i
    <2>1. ByteAt(i) = Bytes(off[0], arrived - off[0])[i - Len(mCurrentVector) + 1]
      BY <1>1, <1>4 DEF ByteAt
    <2>2. arrived - off[0] \in Nat /\ i - Len(mCurrentVector) + 1 \in 1 .. arrived - off[0]
      BY <1>1, <1>2, <1>3, <1>4
    <2>3. ByteAt(i) = off[0] + (i - Len(mCurrentVector) + 1)
      BY <1>1, <2>1, <2>2, BytesAre
    <2> QED
      BY <1>1, <1>2, <2>3, SMTT(30) DEF begin
  <1>5. CASE ~(Len(mCurrentVector) <= i)
    <2>1. ByteAt(i) = Bytes(begin, off[0] - begin)[i + 1]
      BY <1>1, <1>5 DEF ByteAt
    <2>2. off[0] - begin \in Nat /\ i + 1 \in 1 .. off[0] - begin
      BY <1>1, <1>5
    <2>3. ByteAt(i) = begin + (i + 1)
      BY <1>1, <2>1, <2>2, BytesAre
    <2> QED
      BY <1>1, <2>3 DEF begin
  <1> QED
    BY <1>4, <1>5

\* The invariant is the property: nothing is lost, repeated or moved.
LEMMA InputInOrder == InputInv => BytesInOrder /\ CrashOnlyWhenDrained
  <1> SUFFICES ASSUME InputInv PROVE BytesInOrder /\ CrashOnlyWhenDrained
    OBVIOUS
  <1>1. ASSUME pc \in {"idle", "hasLength"}
        PROVE  Unread = [i \in 1 .. (arrived - consumed) |-> consumed + i] /\ mVectorsSize = arrived - consumed
    <2>0. howMuch = 0 /\ pc # "crashed" /\ consumed \in Nat /\ arrived \in Nat
      BY <1>1 DEF InputInv
    <2>1. PICK off :
           /\ off[0] \in Nat /\ consumed - howMuch <= off[0] /\ off[0] <= arrived
           /\ mCurrentVector = Bytes(consumed - howMuch, off[0] - (consumed - howMuch))
           /\ FlattenSeq(mVectors) = Bytes(off[0], arrived - off[0])
      BY <2>0, InputOffsets
    <2>2. consumed - howMuch = consumed
      BY <2>0
    <2>3. Bytes(consumed, off[0] - consumed) \o Bytes(off[0], arrived - off[0]) = Bytes(consumed, arrived - consumed)
      BY <2>0, <2>1, <2>2, BytesConcat
    <2>4. Unread = Bytes(consumed, arrived - consumed)
      BY <2>1, <2>2, <2>3 DEF Unread
    <2>5. mVectorsSize = arrived - consumed
      BY <2>0, <2>2 DEF InputInv
    <2> QED
      BY <2>4, <2>5 DEF Bytes
  <1>2. ASSUME pc = "increaseBegin"
        PROVE  result = [i \in 1 .. Len(result) |-> consumed - Len(result) + i]
    <2>1. PICK n \in Nat : n <= consumed /\ result = Bytes(consumed - n, n)
      BY <1>2 DEF InputInv
    <2>2. consumed \in Nat /\ consumed - n \in Nat
      BY <2>1 DEF InputInv
    <2>3. Len(result) = n
      BY <2>1, <2>2, BytesAre
    <2> QED
      BY <2>1, <2>3 DEF Bytes
  <1> QED
    BY <1>1, <1>2 DEF BytesInOrder, UnreadInOrder, FieldInOrder, CrashOnlyWhenDrained, InputInv

\* A segment that arrives is put after the others.
LEMMA ReceiveInv ==
  ASSUME InputInv, NEW n \in Nat, ReceiveNewData(n)
  PROVE  InputInv'
  <1>1. /\ pc = "hasLength" /\ arrived' = arrived + n /\ mVectorsSize' = mVectorsSize + n
        /\ mVectors' = Append(mVectors, Bytes(arrived, n))
        /\ UNCHANGED <<mCurrentVector, pc, length, howMuch, result, consumed>>
    BY DEF ReceiveNewData, QueueLast, Bytes
  <1>2. PICK off :
           /\ Segments(mVectors, off) /\ off[Len(mVectors)] = arrived
           /\ off[0] \in Nat /\ consumed - howMuch \in Nat /\ consumed - howMuch <= off[0] /\ off[0] <= arrived
           /\ mCurrentVector = Bytes(consumed - howMuch, off[0] - (consumed - howMuch))
    BY <1>1, InputOffsets
  <1>3. /\ mVectors \in Seq(Seq(Nat)) /\ arrived \in Nat /\ consumed \in Nat /\ howMuch \in Nat
        /\ consumed <= arrived /\ mVectorsSize = arrived - (consumed - howMuch) /\ howMuch = 0
    BY <1>1 DEF InputInv
  <1> DEFINE last == Len(mVectors)
             more == [i \in 0 .. last + 1 |-> IF i = last + 1 THEN arrived + n ELSE off[i]]
  <1>4. /\ last \in Nat /\ Bytes(arrived, n) \in Seq(Nat)
        /\ mVectors' \in Seq(Seq(Nat)) /\ Len(mVectors') = last + 1
        /\ \A i \in 1 .. last : mVectors'[i] = mVectors[i]
        /\ mVectors'[last + 1] = Bytes(arrived, n)
    <2>1. last \in Nat /\ Bytes(arrived, n) \in Seq(Nat)
      BY <1>3, BytesAre, LenProperties
    <2> QED
      BY <1>1, <1>3, <2>1, AppendProperties
  <1>5. off \in [0 .. last -> Nat] /\ \A i, j \in 0 .. last : i <= j => off[i] <= off[j]
    BY <1>2 DEF Segments
  <1>6. ASSUME NEW i \in 0 .. last PROVE off[i] <= arrived /\ off[i] \in Nat
    <2>1. last \in 0 .. last /\ i <= last /\ off[last] = arrived
      BY <1>2, <1>4
    <2> QED
      BY <1>5, <2>1
  <1>7. Segments(mVectors', more)
    <2>1. more \in [0 .. last + 1 -> Nat]
      BY <1>3, <1>4, <1>6
    <2>2. ASSUME NEW i \in 0 .. last + 1, NEW j \in 0 .. last + 1, i <= j PROVE more[i] <= more[j]
      <3>1. CASE j = last + 1 /\ i = last + 1
        BY <1>3, <3>1
      <3>2. CASE j = last + 1 /\ i # last + 1
        <4>1. i \in 0 .. last
          BY <1>4, <3>2
        <4> QED
          BY <1>3, <1>4, <1>6, <3>2, <4>1
      <3>3. CASE j # last + 1
        <4>1. i \in 0 .. last /\ j \in 0 .. last /\ i # last + 1
          BY <1>4, <2>2, <3>3
        <4> QED
          BY <1>5, <2>2, <3>3, <4>1
      <3> QED
        BY <3>1, <3>2, <3>3
    <2>3. ASSUME NEW i \in 1 .. last + 1 PROVE mVectors'[i] = Bytes(more[i - 1], more[i] - more[i - 1])
      <3>1. CASE i = last + 1
        <4>1. i - 1 \in 0 .. last + 1 /\ i - 1 = last /\ i - 1 # last + 1 /\ i \in 0 .. last + 1
          BY <1>4, <3>1
        <4>2. more[i - 1] = arrived /\ more[i] = arrived + n
          BY <1>2, <3>1, <4>1
        <4>3. more[i] - more[i - 1] = n
          BY <1>3, <4>2
        <4> QED
          BY <1>4, <3>1, <4>2, <4>3
      <3>2. CASE i # last + 1
        <4>1. i \in 1 .. last /\ i \in 0 .. last + 1 /\ i - 1 \in 0 .. last + 1 /\ i - 1 # last + 1
          BY <1>4, <3>2
        <4>2. more[i] = off[i] /\ more[i - 1] = off[i - 1]
          BY <3>2, <4>1
        <4> QED
          BY <1>2, <1>4, <4>1, <4>2 DEF Segments
      <3> QED
        BY <3>1, <3>2
    <2> HIDE DEF more
    <2> QED
      BY <1>4, <2>1, <2>2, <2>3 DEF Segments
  <1>8. more[0] = off[0] /\ more[Len(mVectors')] = arrived'
    BY <1>1, <1>4
  <1> HIDE DEF more
  <1>9. \E o : /\ Segments(mVectors', o) /\ o[Len(mVectors')] = arrived'
               /\ consumed' - howMuch' <= o[0]
               /\ mCurrentVector' = Bytes(consumed' - howMuch', o[0] - (consumed' - howMuch'))
    BY <1>1, <1>2, <1>7, <1>8
  <1>10. mVectorsSize' = arrived' - (consumed' - howMuch') /\ arrived' \in Nat /\ consumed' <= arrived'
    BY <1>1, <1>3
  <1> QED
    BY <1>1, <1>3, <1>4, <1>9, <1>10 DEF InputInv

\* A whole segment is dropped; without a next one every byte has been read.
LEMMA SwitchInv ==
  ASSUME InputInv, SwitchToNextVector
  PROVE  InputInv'
  <1>1. /\ pc = "increaseBegin" /\ howMuch >= Len(mCurrentVector)
        /\ mVectorsSize' = mVectorsSize - Len(mCurrentVector)
        /\ howMuch' = howMuch - Len(mCurrentVector)
        /\ UNCHANGED <<length, result, arrived, consumed>>
    BY DEF SwitchToNextVector, CurrentUsedUp, SizeLessCurrent, HowMuchLeft
  <1>2. PICK off :
           /\ Segments(mVectors, off) /\ off[Len(mVectors)] = arrived
           /\ off[0] \in Nat /\ consumed - howMuch \in Nat /\ consumed - howMuch <= off[0] /\ off[0] <= arrived
           /\ Len(mCurrentVector) = off[0] - (consumed - howMuch)
    BY <1>1, InputOffsets
  <1>3. /\ mVectors \in Seq(Seq(Nat)) /\ arrived \in Nat /\ consumed \in Nat /\ howMuch \in Nat
        /\ howMuch <= consumed /\ consumed <= arrived /\ mVectorsSize = arrived - (consumed - howMuch)
    BY <1>1 DEF InputInv
  <1>4. /\ howMuch' \in Nat /\ howMuch' <= consumed /\ consumed - howMuch' = off[0]
        /\ mVectorsSize' = arrived - off[0] /\ off[0] <= consumed
    <2> DEFINE len == Len(mCurrentVector)
    <2>1. len = off[0] - (consumed - howMuch) /\ howMuch >= len
      BY <1>1, <1>2
    <2> HIDE DEF len
    <2>2. /\ howMuch - len \in Nat /\ howMuch - len <= consumed /\ consumed - (howMuch - len) = off[0]
          /\ (arrived - (consumed - howMuch)) - len = arrived - off[0] /\ off[0] <= consumed
      <3>1. PICK z \in Nat : z = off[0]
        BY <1>2
      <3>2. /\ consumed \in Nat /\ howMuch \in Nat /\ arrived \in Nat /\ howMuch <= consumed
            /\ len = z - (consumed - howMuch) /\ len <= howMuch /\ consumed - howMuch <= z
        BY <1>2, <1>3, <2>1, <3>1
      <3>3. /\ howMuch - len \in Nat /\ howMuch - len <= consumed /\ consumed - (howMuch - len) = z
            /\ (arrived - (consumed - howMuch)) - len = arrived - z /\ z <= consumed
        BY <3>2, DropArithmetic
      <3> QED
        BY <3>1, <3>3
    <2>3. howMuch' = howMuch - len /\ mVectorsSize' = (arrived - (consumed - howMuch)) - len
      BY <1>1, <1>3 DEF len
    <2> QED
      BY <2>2, <2>3
  <1>5. CASE mVectors = <<>>
    <2>1. pc' = "crashed" /\ mVectors' = mVectors
      BY <1>5 DEF SwitchToNextVector
    <2>2. off[0] = arrived
      BY <1>2, <1>5
    <2>3. consumed = arrived
      BY <1>2, <1>3, <1>4, <2>2
    <2> QED
      BY <1>1, <1>3, <1>4, <2>1, <2>3 DEF InputInv
  <1>6. CASE mVectors # <<>>
    <2>1. mCurrentVector' = Head(mVectors) /\ mVectors' = Tail(mVectors) /\ pc' = pc
      BY <1>6 DEF SwitchToNextVector
    <2> DEFINE last == Len(mVectors)
               less == [i \in 0 .. last - 1 |-> off[i + 1]]
    <2>2. /\ last \in Nat \ {0} /\ Head(mVectors) = mVectors[1]
          /\ mVectors' \in Seq(Seq(Nat)) /\ Len(mVectors') = last - 1
          /\ \A i \in 1 .. last - 1 : mVectors'[i] = mVectors[i + 1]
      BY <1>3, <1>6, <2>1, HeadTailProperties, EmptySeq
    <2>3. /\ off \in [0 .. last -> Nat] /\ \A i, j \in 0 .. last : i <= j => off[i] <= off[j]
          /\ \A i \in 1 .. last : mVectors[i] = Bytes(off[i - 1], off[i] - off[i - 1])
      BY <1>2 DEF Segments
    <2>4. Segments(mVectors', less)
      <3>1. less \in [0 .. last - 1 -> Nat]
        BY <2>2, <2>3
      <3>2. ASSUME NEW i \in 0 .. last - 1, NEW j \in 0 .. last - 1, i <= j PROVE less[i] <= less[j]
        BY <2>2, <2>3, <3>2
      <3>3. ASSUME NEW i \in 1 .. last - 1 PROVE mVectors'[i] = Bytes(less[i - 1], less[i] - less[i - 1])
        <4>1. i + 1 \in 1 .. last /\ i \in 0 .. last - 1 /\ i - 1 \in 0 .. last - 1 /\ (i - 1) + 1 = i
              /\ (i + 1) - 1 = i
          BY <2>2
        <4>2. less[i] = off[i + 1] /\ less[i - 1] = off[i]
          BY <4>1
        <4>3. mVectors[i + 1] = Bytes(off[i], off[i + 1] - off[i])
          BY <2>3, <4>1
        <4> QED
          BY <2>2, <4>2, <4>3
      <3> HIDE DEF less
      <3> QED
        BY <2>2, <3>1, <3>2, <3>3 DEF Segments
    <2>5. less[0] = off[1] /\ less[Len(mVectors')] = arrived /\ off[0] <= off[1]
      BY <1>2, <2>2, <2>3
    <2>6. mCurrentVector' = Bytes(off[0], off[1] - off[0])
      <3>1. 1 \in 1 .. last
        BY <2>2
      <3> QED
        BY <2>1, <2>2, <2>3, <3>1
    <2> HIDE DEF less
    <2>7. \E o : /\ Segments(mVectors', o) /\ o[Len(mVectors')] = arrived'
                 /\ consumed' - howMuch' <= o[0]
                 /\ mCurrentVector' = Bytes(consumed' - howMuch', o[0] - (consumed' - howMuch'))
      BY <1>1, <1>4, <2>4, <2>5, <2>6
    <2>8. mVectorsSize' = arrived' - (consumed' - howMuch')
      BY <1>1, <1>4
    <2>9. \E n \in Nat : n <= consumed' /\ result' = Bytes(consumed' - n, n)
      BY <1>1 DEF InputInv
    <2> QED
      BY <1>1, <1>3, <1>4, <2>1, <2>2, <2>7, <2>8, <2>9 DEF InputInv
  <1> QED
    BY <1>5, <1>6

\* The rest of the field is an offset into the current segment.
LEMMA IncreaseBeginInv ==
  ASSUME InputInv, IncreaseBegin
  PROVE  InputInv'
  <1>1. /\ pc = "increaseBegin" /\ ~(howMuch >= Len(mCurrentVector))
        /\ mCurrentVector' = SubSeq(mCurrentVector, howMuch + 1, Len(mCurrentVector))
        /\ mVectorsSize' = mVectorsSize - howMuch
        /\ pc' = "idle" /\ howMuch' = 0
        /\ UNCHANGED <<mVectors, length, result, arrived, consumed>>
    BY DEF IncreaseBegin, CurrentUsedUp
  <1>2. PICK off :
           /\ Segments(mVectors, off) /\ off[Len(mVectors)] = arrived
           /\ off[0] \in Nat /\ consumed - howMuch \in Nat /\ consumed - howMuch <= off[0] /\ off[0] <= arrived
           /\ mCurrentVector = Bytes(consumed - howMuch, off[0] - (consumed - howMuch))
           /\ Len(mCurrentVector) = off[0] - (consumed - howMuch)
    BY <1>1, InputOffsets
  <1>3. /\ mVectors \in Seq(Seq(Nat)) /\ arrived \in Nat /\ consumed \in Nat /\ howMuch \in Nat
        /\ consumed <= arrived /\ mVectorsSize = arrived - (consumed - howMuch)
    BY <1>1 DEF InputInv
  <1>4. consumed < off[0] /\ off[0] - consumed \in Nat /\ mVectorsSize' = arrived - consumed
    BY <1>1, <1>2, <1>3
  <1>5. mCurrentVector' = Bytes(consumed, off[0] - consumed)
    <2> DEFINE a == consumed - howMuch
    <2>1. a \in Nat /\ a <= consumed /\ (consumed - a) + 1 = howMuch + 1
      BY <1>2, <1>3
    <2>2. SubSeq(Bytes(a, off[0] - a), (consumed - a) + 1, off[0] - a) = Bytes(consumed, off[0] - consumed)
      <3> HIDE DEF a
      <3>1. a \in Nat /\ consumed \in Nat /\ off[0] \in Nat /\ a <= consumed /\ consumed < off[0]
        BY <1>2, <1>3, <1>4, <2>1, Zenon
      <3> QED
        BY ONLY <3>1, SubBytes, Zenon
    <2>3. mCurrentVector' = SubSeq(Bytes(a, off[0] - a), howMuch + 1, off[0] - a)
      BY <1>1, <1>2
    <2> HIDE DEF a
    <2> QED
      BY <2>1, <2>2, <2>3
  <1>6. \E o : /\ Segments(mVectors', o) /\ o[Len(mVectors')] = arrived'
               /\ consumed' - howMuch' <= o[0]
               /\ mCurrentVector' = Bytes(consumed' - howMuch', o[0] - (consumed' - howMuch'))
    <2>1. consumed' - howMuch' = consumed /\ consumed <= off[0]
      BY <1>1, <1>2, <1>3, <1>4
    <2> QED
      BY <1>1, <1>2, <1>5, <2>1
  <1>7. mVectorsSize' = arrived' - (consumed' - howMuch') /\ howMuch' <= consumed'
    BY <1>1, <1>3, <1>4
  <1> QED
    BY <1>1, <1>3, <1>6, <1>7 DEF InputInv

\* readT: the field is the bytes that follow the one before it, and there are
\* that many, because hasLength said so.
LEMMA ReadInv ==
  ASSUME InputInv, ReadT
  PROVE  InputInv'
  <1>1. /\ pc = "hasLength" /\ mVectorsSize >= length
        /\ result' = [i \in 1 .. length |-> ByteAt(i - 1)]
        /\ consumed' = consumed + length /\ pc' = "increaseBegin" /\ howMuch' = length /\ length' = 0
        /\ UNCHANGED <<mCurrentVector, mVectors, mVectorsSize, arrived>>
    BY DEF ReadT, segments
  <1>2. /\ mVectors \in Seq(Seq(Nat)) /\ {length, arrived, consumed} \subseteq Nat /\ howMuch = 0
        /\ consumed <= arrived /\ mVectorsSize = arrived - (consumed - howMuch)
    BY <1>1 DEF InputInv
  <1>3. /\ consumed - howMuch = consumed /\ consumed + length <= arrived
        /\ consumed' - howMuch' = consumed /\ consumed' \in Nat /\ howMuch' <= consumed'
    BY <1>1, <1>2
  <1>4. result' = Bytes(consumed, length)
    <2>1. ASSUME NEW i \in 1 .. length PROVE ByteAt(i - 1) = consumed + i
      <3>1. i - 1 \in Nat /\ i - 1 < arrived - (consumed - howMuch) /\ pc # "crashed"
        BY <1>1, <1>2, <1>3
      <3>2. ByteAt(i - 1) = (consumed - howMuch) + (i - 1) + 1
        BY <3>1, ByteAtIs
      <3> QED
        BY <1>2, <1>3, <3>2
    <2> QED
      BY <1>1, <2>1 DEF Bytes
  <1>5. \E n \in Nat : n <= consumed' /\ result' = Bytes(consumed' - n, n)
    <2>1. length \in Nat /\ length <= consumed' /\ consumed' - length = consumed
      BY <1>1, <1>2
    <2> QED
      BY <1>4, <2>1
  <1>6. \E o : /\ Segments(mVectors', o) /\ o[Len(mVectors')] = arrived'
               /\ consumed' - howMuch' <= o[0]
               /\ mCurrentVector' = Bytes(consumed' - howMuch', o[0] - (consumed' - howMuch'))
    BY <1>1, <1>3 DEF InputInv
  <1>7. mVectorsSize' = arrived' - (consumed' - howMuch')
    BY <1>1, <1>2, <1>3
  <1> QED
    BY <1>1, <1>2, <1>3, <1>5, <1>6, <1>7 DEF InputInv

\* Every step keeps the segments the bytes that arrived and are not dropped.
LEMMA InputInvNext == InputInv /\ [Next]_vars => InputInv'
  <1> SUFFICES ASSUME InputInv, [Next]_vars PROVE InputInv'
    OBVIOUS
  <1>0. 1 .. MaxField \subseteq Nat /\ 0 .. MaxSegment \subseteq Nat
    BY BoundsAssumption
  <1>1. ASSUME NEW n \in 1 .. MaxField, TryReadT(n) PROVE InputInv'
    BY <1>0, <1>1 DEF TryReadT, segments, InputInv
  <1>2. ASSUME NEW n \in 0 .. MaxSegment, ReceiveNewData(n) PROVE InputInv'
    BY <1>0, <1>2, ReceiveInv
  <1>3. ASSUME ReceiveFails PROVE InputInv'
    BY <1>3 DEF ReceiveFails, segments, InputInv
  <1>4. ASSUME UNCHANGED vars PROVE InputInv'
    BY <1>4 DEF vars, segments, InputInv
  <1> QED
    BY <1>1, <1>2, <1>3, <1>4, ReadInv, SwitchInv, IncreaseBeginInv DEF Next

\* A stream that has received nothing holds no bytes.
LEMMA InputInvInit == Init => InputInv
  <1> SUFFICES ASSUME Init PROVE InputInv
    OBVIOUS
  <1> DEFINE off == [i \in 0 .. 0 |-> 0]
  <1>1. /\ mCurrentVector = <<>> /\ mVectors = <<>> /\ mVectorsSize = 0 /\ pc = "idle"
        /\ length = 0 /\ howMuch = 0 /\ result = <<>> /\ arrived = 0 /\ consumed = 0
    BY DEF Init
  <1>2. Len(mVectors) = 0 /\ mVectors \in Seq(Seq(Nat))
    BY <1>1
  <1>3. Segments(mVectors, off) /\ off[0] = 0
    BY <1>2 DEF Segments
  <1>4. Bytes(0, 0) = <<>>
    BY BytesAre
  <1>5. \E o : /\ Segments(mVectors, o) /\ o[Len(mVectors)] = arrived
               /\ consumed - howMuch <= o[0]
               /\ mCurrentVector = Bytes(consumed - howMuch, o[0] - (consumed - howMuch))
    <2> HIDE DEF off
    <2> QED
      BY <1>1, <1>2, <1>3, <1>4
  <1> QED
    BY <1>1, <1>2, <1>5 DEF InputInv

\* What tryReadT returns and what is left to read are the bytes that arrived,
\* once each and in order, however fields and segments overlap.
THEOREM BytesAlwaysInOrder == Spec => []BytesInOrder
  <1>1. InputInv => BytesInOrder
    BY InputInOrder
  <1> QED
    BY <1>1, InputInvInit, InputInvNext, PTL DEF Spec

\* increaseBegin takes the front of no vector only after every byte received
\* was read.
THEOREM CrashAlwaysDrained == Spec => []CrashOnlyWhenDrained
  <1>1. InputInv => CrashOnlyWhenDrained
    BY InputInOrder
  <1> QED
    BY <1>1, InputInvInit, InputInvNext, PTL DEF Spec

-----------------------------------------------------------------------------
(* Writing fields to the segments of a stream.                             *)

\* The bytes writers make.
OutByte ==
  {0} \cup {(x \div ByteValues ^ k) % ByteValues : x \in {f.value : f \in Fields} \cup Nat, k \in Nat}

\* The two fields of a header have two bytes each.
OutNumber == 0 .. ByteValues * ByteValues - 1
OutMessage == [flags : OutNumber, messageNumber : OutNumber]
HeaderOf(m) ==
  <<(m.flags \div ByteValues) % ByteValues, m.flags % ByteValues,
    (m.messageNumber \div ByteValues) % ByteValues, m.messageNumber % ByteValues>>

\* The variables of an output stream: mIndexEnd is in the vector, mIndexBegin may
\* be beyond it.
OutType ==
  /\ kind \in {"udp", "tcp"} /\ mAutoSendDataSize \in Nat
  /\ mVector \in Seq(OutByte) /\ Len(mVector) <= MaxVector
  /\ mIndexBegin \in Nat /\ mIndexBegin <= MaxVector /\ mIndexEnd \in 0 .. Len(mVector)
  /\ written \in Seq(OutByte) /\ mNextMessage \in OutMessage /\ header \in OutMessage
  /\ sent \in Seq([data : Seq(OutByte), message : OutMessage])

\* What was written to the segment is at the start of the vector.
OutHolds ==
  ~overran =>
    /\ mIndexBegin = Len(written) /\ Len(written) <= Len(mVector)
    /\ \A i \in 1 .. Len(written) : mVector[i] = written[i]

\* A datagram never grows beyond its header: behind it the indexes have crossed,
\* size() is huge, and nothing expands the vector.
OutUdp ==
  kind = "udp" =>
    /\ Len(mVector) = 4 /\ mIndexEnd = 0 /\ mIndexBegin >= 4
    /\ \A i \in 1 .. Len(sent) : Len(sent[i].data) = 4

\* When every segment is full, they are numbered in the order they are sent.
OutNumbers ==
  kind = "udp" /\ mAutoSendDataSize <= 4 =>
    /\ Len(sent) < O!MaxNumber =>
         /\ header.messageNumber = Len(sent)
         /\ \A i \in 1 .. Len(sent) : sent[i].message.messageNumber = i - 1
    /\ Len(sent) + 1 < O!MaxNumber => mNextMessage.messageNumber = Len(sent) + 1

\* The vector of a datagram stream is the header of its segment, and so is every
\* datagram; what receiveData returned is a datagram, or an error.
OutHeaders ==
  kind = "udp" =>
    /\ mVector = HeaderOf(header)
    /\ \A i \in 1 .. Len(sent) : sent[i].data = HeaderOf(sent[i].message)
OutReceived ==
  /\ received \in Seq(Seq(OutByte) \cup {<<"ParseError">>})
  /\ kind = "udp" =>
       \A i \in 1 .. Len(received) :
         received[i] = <<"ParseError">> \/ \E j \in 1 .. Len(sent) : received[i] = sent[j].data

OutInv == OutType /\ OutHolds /\ WritesInBounds /\ OutUdp /\ OutNumbers /\ OutHeaders /\ OutReceived

\* A view of a vector with its indexes.
OutView == [vector : Seq(OutByte), begin : Nat, end : Nat]

LEMMA SmallerOf ==
  ASSUME NEW x \in Nat, NEW y \in Nat
  PROVE  O!Min({x, y}) = IF x <= y THEN x ELSE y
  BY DEF O!Min

\* size() counts modulo a SizeType's values.
LEMMA SizeIs ==
  ASSUME NEW v \in OutView, v.begin < WordValues, v.end < WordValues
  PROVE  /\ v.begin <= v.end => O!Size(v) = v.end - v.begin
         /\ v.begin > v.end => O!Size(v) = WordValues - (v.begin - v.end)
         /\ O!Size(v) \in Nat
  <1>1. PICK n \in Nat, b \in Nat, e \in Nat : n = WordValues /\ b = v.begin /\ e = v.end /\ b < n /\ e < n
    BY OutputAssumption DEF OutView
  <1>2. O!Size(v) = (e - b) % n
    BY <1>1 DEF O!Size
  <1>3. b <= e => (e - b) % n = e - b
    BY <1>1
  <1>4. b > e => (e - b) % n = n - (b - e)
    <2> SUFFICES ASSUME b > e PROVE (e - b) % n = n - (b - e)
      OBVIOUS
    <2>1. PICK d \in Nat : d = b - e /\ 0 < d /\ d <= n
      BY <1>1
    <2>2. (0 - d) % n = n - d
      BY <1>1, <2>1
    <2>3. e - b = 0 - d
      BY <1>1, <2>1
    <2> QED
      BY <2>1, <2>2, <2>3
  <1> QED
    BY <1>1, <1>2, <1>3, <1>4

\* The bytes of a field, and of a header.
LEMMA WriterIs ==
  ASSUME NEW n \in Nat, NEW x \in {f.value : f \in Fields} \cup Nat, NEW field,
         field.size = n, field.value = x
  PROVE  O!BigEndianWriter(field) \in Seq(OutByte) /\ Len(O!BigEndianWriter(field)) = n
  <1>1. O!BigEndianWriter(field) = [i \in 1 .. n |-> (x \div ByteValues ^ (n - i)) % ByteValues]
    BY DEF O!BigEndianWriter
  <1>2. ASSUME NEW i \in 1 .. n PROVE (x \div ByteValues ^ (n - i)) % ByteValues \in OutByte
    <2>1. n - i \in Nat
      OBVIOUS
    <2> QED
      BY <2>1 DEF OutByte
  <1>3. PICK g : g = O!BigEndianWriter(field)
    OBVIOUS
  <1>4. g \in [1 .. n -> OutByte]
    BY <1>1, <1>2, <1>3
  <1> QED
    BY <1>3, <1>4

\* A concatenation by its elements.
LEMMA JoinIs ==
  ASSUME NEW D, NEW x \in Seq(D), NEW z \in Seq(D), NEW n \in Nat, Len(x) = n
  PROVE  /\ x \o z \in Seq(D) /\ Len(x \o z) = n + Len(z)
         /\ \A i \in 1 .. n + Len(z) : (x \o z)[i] = IF i <= n THEN x[i] ELSE z[i - n]
  BY ConcatProperties

\* The two bytes of a header's field.
LEMMA FieldOfHeader ==
  ASSUME NEW n \in Nat
  PROVE  LET x == O!BigEndianWriter([size |-> 2, value |-> n]) IN
         x \in Seq(OutByte) /\ Len(x) = 2 /\ x[1] = (n \div ByteValues) % ByteValues /\ x[2] = n % ByteValues
  <1>1. PICK x : x = O!BigEndianWriter([size |-> 2, value |-> n])
    OBVIOUS
  <1>2. x \in Seq(OutByte) /\ Len(x) = 2
    BY <1>1, WriterIs
  <1>3. x = [i \in 1 .. 2 |-> (n \div ByteValues ^ (2 - i)) % ByteValues]
    BY <1>1 DEF O!BigEndianWriter
  <1>4. 1 \in 1 .. 2 /\ 2 \in 1 .. 2 /\ 2 - 1 = 1 /\ 2 - 2 = 0
    OBVIOUS
  <1>5. x[1] = (n \div ByteValues ^ 1) % ByteValues /\ x[2] = (n \div ByteValues ^ 0) % ByteValues
    BY <1>3, <1>4, Zenon
  <1>6. n \div 1 = n
    OBVIOUS
  <1>7. x[1] = (n \div ByteValues) % ByteValues /\ x[2] = n % ByteValues
    BY <1>5, <1>6, HeaderAssumption, Zenon
  <1> QED
    BY <1>1, <1>2, <1>7

\* A header's four bytes.
LEMMA HeaderBytesAre ==
  ASSUME NEW m \in OutMessage
  PROVE  O!HeaderBytes(m) \in Seq(OutByte) /\ Len(O!HeaderBytes(m)) = 4 /\ O!HeaderBytes(m) = HeaderOf(m)
  <1>0. m.flags \in Nat /\ m.messageNumber \in Nat
    BY DEF OutMessage, OutNumber
  <1>1. PICK x : x = O!BigEndianWriter([size |-> 2, value |-> m.flags])
    OBVIOUS
  <1>2. PICK z : z = O!BigEndianWriter([size |-> 2, value |-> m.messageNumber])
    OBVIOUS
  <1>3. /\ x \in Seq(OutByte) /\ Len(x) = 2
        /\ x[1] = (m.flags \div ByteValues) % ByteValues /\ x[2] = m.flags % ByteValues
    BY <1>0, <1>1, FieldOfHeader
  <1>4. /\ z \in Seq(OutByte) /\ Len(z) = 2
        /\ z[1] = (m.messageNumber \div ByteValues) % ByteValues /\ z[2] = m.messageNumber % ByteValues
    BY <1>0, <1>2, FieldOfHeader
  <1>5. PICK u : u = x \o z
    OBVIOUS
  <1>6. O!HeaderBytes(m) = u
    BY <1>1, <1>2, <1>5 DEF O!HeaderBytes
  <1>7. PICK k \in Nat : k = 2
    OBVIOUS
  <1>8. /\ u \in Seq(OutByte) /\ Len(u) = k + Len(z)
        /\ \A i \in 1 .. k + Len(z) : u[i] = IF i <= k THEN x[i] ELSE z[i - k]
    <2>1. x \in Seq(OutByte) /\ z \in Seq(OutByte) /\ Len(x) = k /\ k \in Nat
      BY <1>3, <1>4, <1>7
    <2> QED
      BY <1>5, <2>1, JoinIs
  <1>9. u \in Seq(OutByte) /\ Len(u) = 4 /\ u[1] = x[1] /\ u[2] = x[2] /\ u[3] = z[1] /\ u[4] = z[2]
    <2>1. k + Len(z) = 4
      BY <1>4, <1>7
    <2>2. \A i \in 1 .. 4 : u[i] = IF i <= 2 THEN x[i] ELSE z[i - 2]
      BY <1>7, <1>8, <2>1
    <2> QED
      BY <1>8, <2>1, <2>2
  <1>10. u = <<u[1], u[2], u[3], u[4]>>
    BY <1>9
  <1>11. u = HeaderOf(m)
    BY <1>3, <1>4, <1>9, <1>10, Zenon DEF HeaderOf
  <1> QED
    BY <1>6, <1>9, <1>11

\* operator[] and increaseBegin write what is inside of the vector.
LEMMA StoreIs ==
  ASSUME NEW v \in OutView, NEW s \in Seq(OutByte)
  PROVE  LET r == O!Store(v, s) IN
         /\ r \in OutView /\ r.begin = v.begin + Len(s) /\ r.end = v.end /\ Len(r.vector) = Len(v.vector)
         /\ \A i \in 1 .. Len(v.vector) :
              r.vector[i] = IF i - v.begin \in 1 .. Len(s) THEN s[i - v.begin] ELSE v.vector[i]
  <1>1. v.vector \in Seq(OutByte) /\ v.begin \in Nat /\ v.end \in Nat /\ Len(v.vector) \in Nat
    BY DEF OutView
  <1>2. PICK t : t = [i \in 1 .. Len(v.vector) |->
                        IF i - v.begin \in 1 .. Len(s) THEN s[i - v.begin] ELSE v.vector[i]]
    OBVIOUS
  <1>3. \A i \in 1 .. Len(v.vector) :
          (IF i - v.begin \in 1 .. Len(s) THEN s[i - v.begin] ELSE v.vector[i]) \in OutByte
    BY <1>1, ElementOfSeq
  <1>4. t \in Seq(OutByte) /\ Len(t) = Len(v.vector)
    <2>1. t \in [1 .. Len(v.vector) -> OutByte]
      BY <1>2, <1>3
    <2> QED
      BY <1>1, <2>1
  <1>5. O!Store(v, s) = [vector |-> t, begin |-> v.begin + Len(s), end |-> v.end]
    <2>1. O!Store(v, s) = [v EXCEPT !.vector = t, !.begin = v.begin + Len(s)]
      BY <1>2, Zenon DEF O!Store
    <2> QED
      BY <2>1 DEF OutView
  <1>6. PICK r : r = O!Store(v, s)
    OBVIOUS
  <1>7. r.vector = t /\ r.begin = v.begin + Len(s) /\ r.end = v.end /\ r \in OutView
    BY <1>1, <1>4, <1>5, <1>6 DEF OutView
  <1>8. \A i \in 1 .. Len(v.vector) :
              r.vector[i] = IF i - v.begin \in 1 .. Len(s) THEN s[i - v.begin] ELSE v.vector[i]
    BY <1>2, <1>7
  <1> QED
    BY <1>4, <1>6, <1>7, <1>8

\* A vector that has grown is as before in front.
LEMMA GrownIs ==
  ASSUME NEW v \in OutView, NEW n \in Nat
  PROVE  LET r == O!Grown(v, n) IN
         /\ r \in OutView /\ r.begin = v.begin /\ r.end = v.end /\ Len(r.vector) = Len(v.vector) + n
         /\ \A i \in 1 .. Len(v.vector) : r.vector[i] = v.vector[i]
  <1>1. PICK t \in Seq(OutByte) : t = v.vector
    BY DEF OutView
  <1>2. PICK z : z = [i \in 1 .. n |-> 0]
    OBVIOUS
  <1>3. 0 \in OutByte
    BY DEF OutByte
  <1>4. z \in Seq(OutByte) /\ Len(z) = n
    BY <1>2, <1>3
  <1>5. PICK u : u = t \o z
    OBVIOUS
  <1>6. u \in Seq(OutByte) /\ Len(u) = Len(t) + n /\ \A i \in 1 .. Len(t) : u[i] = t[i]
    <2>1. PICK k \in Nat : k = Len(t)
      BY <1>1
    <2>2. /\ t \o z \in Seq(OutByte) /\ Len(t \o z) = k + Len(z)
          /\ \A i \in 1 .. k + Len(z) : (t \o z)[i] = IF i <= k THEN t[i] ELSE z[i - k]
      BY <1>1, <1>4, <2>1, JoinIs
    <2>3. u \in Seq(OutByte) /\ Len(u) = k + n /\ \A i \in 1 .. k + n : u[i] = IF i <= k THEN t[i] ELSE z[i - k]
      BY <1>4, <1>5, <2>2, Zenon
    <2> QED
      BY <2>1, <2>3
  <1>7. O!Grown(v, n) = [vector |-> u, begin |-> v.begin, end |-> v.end]
    <2>1. O!Grown(v, n) = [v EXCEPT !.vector = u]
      BY <1>1, <1>2, <1>5, Zenon DEF O!Grown
    <2> QED
      BY <2>1 DEF OutView
  <1>8. v.begin \in Nat /\ v.end \in Nat
    BY DEF OutView
  <1> QED
    BY <1>1, <1>6, <1>7, <1>8 DEF OutView

\* expand: where the end goes, and whether the vector grows.
LEMMA ExpandIs ==
  ASSUME NEW v \in OutView, v.begin < WordValues, v.end < WordValues, v.end <= Len(v.vector), NEW h \in Nat,
         O!Size(v) + h < WordValues
  PROVE  LET r == O!Expand(v, h)
             available == Len(v.vector) - v.end
             virtual == IF h <= available THEN h ELSE available
             grows == O!Size(v) + h - virtual > 0
         IN /\ r \in OutView /\ r.begin = v.begin
            /\ r.end = (IF v.end # Len(v.vector) THEN available - virtual ELSE v.end)
            /\ Len(r.vector) = (IF grows THEN Len(v.vector) + h ELSE Len(v.vector))
            /\ \A i \in 1 .. Len(v.vector) : r.vector[i] = v.vector[i]
  <1>1. PICK a \in Nat, size \in Nat, e \in Nat :
          a = Len(v.vector) - v.end /\ size = O!Size(v) /\ e = v.end /\ (e = Len(v.vector) <=> a = 0)
    BY SizeIs DEF OutView
  <1>2. PICK n \in Nat : n = (IF h <= a THEN h ELSE a) /\ n <= h /\ n <= a
    BY <1>1
  <1>3. O!Min({h, a}) = n
    BY <1>1, <1>2, SmallerOf
  <1>4. PICK m : m = IF v.end # Len(v.vector) THEN [v EXCEPT !.end = a - n] ELSE v
    OBVIOUS
  <1>5. /\ m \in OutView /\ m.begin = v.begin /\ m.vector = v.vector
        /\ m.end = IF v.end # Len(v.vector) THEN a - n ELSE v.end
    BY <1>2, <1>4 DEF OutView
  <1>6. PICK s \in Nat : s = size + h - n
    BY <1>1, <1>2
  <1>7. (size + h - (IF v.end # Len(v.vector) THEN n ELSE 0)) % WordValues = s
    <2>1. size + h - (IF v.end # Len(v.vector) THEN n ELSE 0) = s
      BY <1>1, <1>2, <1>6
    <2>2. s < WordValues /\ WordValues \in Nat
      BY <1>1, <1>2, <1>6, OutputAssumption
    <2>3. s % WordValues = s
      BY <1>6, <2>2
    <2> QED
      BY <2>1, <2>3
  <1>8. PICK r : r = O!Expand(v, h)
    OBVIOUS
  <1>9. r = IF s > 0 THEN O!Grown(m, h) ELSE m
    <2>1. r = (IF (size + h - (IF v.end # Len(v.vector) THEN n ELSE 0)) % WordValues > 0
               THEN O!Grown(m, h) ELSE m)
      BY <1>1, <1>3, <1>4, <1>8, Zenon DEF O!Expand
    <2> QED
      BY <1>7, <2>1
  <1>10. CASE s > 0
    <2>1. PICK g : g = O!Grown(m, h)
      OBVIOUS
    <2>2. /\ g \in OutView /\ g.begin = m.begin /\ g.end = m.end /\ Len(g.vector) = Len(m.vector) + h
          /\ \A i \in 1 .. Len(m.vector) : g.vector[i] = m.vector[i]
      BY <1>5, <2>1, GrownIs
    <2> QED
      BY <1>1, <1>2, <1>5, <1>6, <1>8, <1>9, <1>10, <2>1, <2>2
  <1>11. CASE s = 0
    BY <1>1, <1>2, <1>5, <1>6, <1>8, <1>9, <1>11
  <1> QED
    BY <1>6, <1>10, <1>11

\* A header written to the start of a vector, with both indexes at its start: there
\* is room for it, and a vector that was empty or a header's has its size.
LEMMA HeaderWritten ==
  ASSUME NEW v \in OutView, v.begin = 0, v.end = 0, NEW m \in OutMessage
  PROVE  LET r == O!WriteT(v, O!HeaderBytes(m)) IN
         /\ r \in OutView /\ r.begin = 4 /\ r.end <= Len(r.vector) /\ 4 <= Len(r.vector)
         /\ \A i \in 1 .. 4 : r.vector[i] = O!HeaderBytes(m)[i]
         /\ Len(v.vector) \in {0, 4} => Len(r.vector) = 4 /\ r.end = 0 /\ r.vector = HeaderOf(m)
  <1>1. PICK s \in Seq(OutByte) : s = O!HeaderBytes(m) /\ Len(s) = 4
    BY HeaderBytesAre
  <1>2. WordValues \in Nat /\ 4 < WordValues
    BY OutputAssumption
  <1>3. O!Size(v) = 0
    BY <1>2, SizeIs
  <1>4. PICK e : e = O!Expand(v, 4)
    OBVIOUS
  <1>5. PICK n \in Nat : n = Len(v.vector)
    BY DEF OutView
  <1>6. /\ e \in OutView /\ e.begin = 0
        /\ n < 4 => e.end = 0 /\ Len(e.vector) = n + 4
        /\ n >= 4 => e.end = n - 4 /\ Len(e.vector) = n
    <2>1. PICK h \in Nat : h = 4
      OBVIOUS
    <2>2. v.begin < WordValues /\ v.end < WordValues /\ v.end <= Len(v.vector) /\ O!Size(v) + h < WordValues
      BY <1>2, <1>3, <1>5, <2>1
    <2>3. /\ O!Expand(v, h) \in OutView /\ O!Expand(v, h).begin = v.begin
          /\ O!Expand(v, h).end =
               (IF v.end # Len(v.vector)
                THEN (Len(v.vector) - v.end)
                       - (IF h <= Len(v.vector) - v.end THEN h ELSE Len(v.vector) - v.end) ELSE v.end)
          /\ Len(O!Expand(v, h).vector) =
               (IF O!Size(v) + h - (IF h <= Len(v.vector) - v.end THEN h ELSE Len(v.vector) - v.end) > 0
                THEN Len(v.vector) + h ELSE Len(v.vector))
      BY <2>2, ExpandIs
    <2>4. e = O!Expand(v, h)
      BY <1>4, <2>1
    <2>5. PICK x \in Nat, y \in Nat : x = e.end /\ y = Len(e.vector)
      BY <2>3, <2>4 DEF OutView
    <2>6. /\ x = (IF 0 # n THEN (n - 0) - (IF h <= n - 0 THEN h ELSE n - 0) ELSE 0)
          /\ y = (IF 0 + h - (IF h <= n - 0 THEN h ELSE n - 0) > 0 THEN n + h ELSE n)
      BY <1>3, <1>5, <2>3, <2>4, <2>5, Zenon
    <2>7. (n < 4 => x = 0 /\ y = n + 4) /\ (n >= 4 => x = n - 4 /\ y = n)
      BY ONLY <2>1, <2>6, n \in Nat, h \in Nat
    <2>8. e \in OutView /\ e.begin = 0
      BY <2>3, <2>4
    <2> QED
      BY <2>5, <2>7, <2>8
  <1>7. PICK r : r = O!Store(e, s)
    OBVIOUS
  <1>8. /\ r \in OutView /\ r.begin = e.begin + Len(s) /\ r.end = e.end /\ Len(r.vector) = Len(e.vector)
        /\ \A i \in 1 .. Len(e.vector) :
             r.vector[i] = IF i - e.begin \in 1 .. Len(s) THEN s[i - e.begin] ELSE e.vector[i]
    BY <1>1, <1>6, <1>7, StoreIs
  <1>9. O!WriteT(v, O!HeaderBytes(m)) = r
    <2>1. O!Size(v) < Len(s) /\ Len(s) - O!Size(v) = 4
      BY <1>1, <1>3
    <2> QED
      BY <1>1, <1>4, <1>7, <2>1 DEF O!WriteT
  <1>10. 4 <= Len(e.vector) /\ Len(e.vector) \in Nat /\ e.end <= Len(e.vector)
    BY <1>5, <1>6
  <1>11. \A i \in 1 .. 4 : r.vector[i] = s[i]
    <2> SUFFICES ASSUME NEW i \in 1 .. 4 PROVE r.vector[i] = s[i]
      OBVIOUS
    <2>1. i \in 1 .. Len(e.vector) /\ i - e.begin = i /\ i \in 1 .. Len(s)
      BY <1>1, <1>6, <1>10
    <2> QED
      BY <1>8, <2>1
  <1>12. n \in {0, 4} => Len(e.vector) = 4 /\ e.end = 0
    <2>1. CASE n = 0
      BY <1>6, <2>1
    <2>2. CASE n = 4
      BY <1>6, <2>2
    <2> QED
      BY <2>1, <2>2, Zenon
  <1>13. r \in OutView /\ r.begin = 4 /\ r.end <= Len(r.vector) /\ 4 <= Len(r.vector)
    BY <1>1, <1>6, <1>8, <1>10
  <1>14. Len(v.vector) \in {0, 4} => Len(r.vector) = 4 /\ r.end = 0
    BY <1>5, <1>8, <1>12
  <1>15. \A i \in 1 .. 4 : r.vector[i] = O!HeaderBytes(m)[i]
    BY <1>1, <1>11
  <1>16. ASSUME Len(r.vector) = 4 PROVE r.vector = HeaderOf(m)
    <2>1. PICK y : y = r.vector
      OBVIOUS
    <2>2. y \in Seq(OutByte) /\ Len(y) = 4 /\ \A i \in 1 .. 4 : y[i] = s[i]
      BY <1>11, <1>13, <1>16, <2>1 DEF OutView
    <2>3. y = s
      BY <1>1, <2>2
    <2> QED
      BY <1>1, <2>1, <2>3, HeaderBytesAre
  <1>17. Len(v.vector) \in {0, 4} => Len(r.vector) = 4 /\ r.end = 0 /\ r.vector = HeaderOf(m)
    BY <1>14, <1>16, Zenon
  <1> QED
    BY <1>9, <1>13, <1>15, <1>17

\* A number of 16 bits.
LEMMA NumberedIs ==
  ASSUME NEW m \in OutMessage, NEW n \in Int
  PROVE  LET r == O!Numbered(m, n) IN
         r \in OutMessage /\ (n \in 0 .. O!MaxNumber - 1 => r.messageNumber = n)
  <1>1. PICK k \in Nat \ {0} : k = O!MaxNumber /\ k = ByteValues * ByteValues
    <2>1. PICK b \in Nat \ {0} : b = ByteValues
      BY OutputAssumption
    <2>2. b * b \in Nat \ {0}
      OBVIOUS
    <2>3. O!MaxNumber \in Nat \ {0} /\ O!MaxNumber = ByteValues * ByteValues
      BY <2>1, <2>2 DEF O!MaxNumber
    <2> QED
      BY <2>3
  <1>2. n % k \in OutNumber
    <2>1. n % k \in 0 .. k - 1
      BY <1>1
    <2> QED
      BY <1>1, <2>1, Zenon DEF OutNumber
  <1>3. n \in 0 .. k - 1 => n % k = n
    BY <1>1
  <1>4. O!Numbered(m, n) = [flags |-> m.flags, messageNumber |-> n % k]
    BY <1>1 DEF O!Numbered, OutMessage
  <1>5. PICK r : r = O!Numbered(m, n)
    OBVIOUS
  <1>6. r.messageNumber = n % k /\ r \in OutMessage
    BY <1>2, <1>4, <1>5 DEF OutMessage
  <1> QED
    BY <1>1, <1>3, <1>5, <1>6

\* createNewSegment.
LEMMA NewSegmentIs ==
  ASSUME NEW v \in OutView, NEW m \in OutMessage
  PROVE  LET r == O!CreateNewSegment(v, m) IN
         /\ r.view \in OutView /\ r.view.begin = 4 /\ r.view.end <= Len(r.view.vector) /\ 4 <= Len(r.view.vector)
         /\ \A i \in 1 .. 4 : r.view.vector[i] = O!HeaderBytes(m)[i]
         /\ Len(v.vector) \in {0, 4} =>
              Len(r.view.vector) = 4 /\ r.view.end = 0 /\ r.view.vector = HeaderOf(m)
         /\ r.header = m /\ r.message \in OutMessage
         /\ m.messageNumber + 1 < O!MaxNumber => r.message.messageNumber = m.messageNumber + 1
  <1>1. PICK z : z = [v EXCEPT !.end = 0, !.begin = 0]
    OBVIOUS
  <1>2. z \in OutView /\ z.begin = 0 /\ z.end = 0 /\ z.vector = v.vector
    BY <1>1 DEF OutView
  <1>3. PICK w : w = O!WriteT(z, O!HeaderBytes(m))
    OBVIOUS
  <1>4. /\ w \in OutView /\ w.begin = 4 /\ w.end <= Len(w.vector) /\ 4 <= Len(w.vector)
        /\ \A i \in 1 .. 4 : w.vector[i] = O!HeaderBytes(m)[i]
        /\ Len(v.vector) \in {0, 4} => Len(w.vector) = 4 /\ w.end = 0 /\ w.vector = HeaderOf(m)
    BY <1>2, <1>3, HeaderWritten
  <1>5. PICK n \in Nat : n = m.messageNumber
    BY DEF OutMessage, OutNumber
  <1>6. PICK next : next = O!Numbered(m, n + 1)
    OBVIOUS
  <1>7. next \in OutMessage /\ (n + 1 < O!MaxNumber => next.messageNumber = n + 1)
    <2>1. O!MaxNumber \in Int
      BY OutputAssumption DEF O!MaxNumber
    <2>2. n + 1 < O!MaxNumber => n + 1 \in 0 .. O!MaxNumber - 1
      BY <1>5, <2>1
    <2> QED
      BY <1>5, <1>6, <2>2, NumberedIs
  <1>8. O!CreateNewSegment(v, m) = [view |-> w, message |-> next, header |-> m]
    BY <1>1, <1>3, <1>5, <1>6 DEF O!CreateNewSegment
  <1>9. PICK r : r = O!CreateNewSegment(v, m)
    OBVIOUS
  <1>10. r.view = w /\ r.message = next /\ r.header = m
    BY <1>8, <1>9
  <1> QED
    BY <1>4, <1>5, <1>7, <1>9, <1>10

\* The view of the stream.
LEMMA ViewIs ==
  ASSUME OutType
  PROVE  /\ O!View \in OutView /\ O!View.vector = mVector /\ O!View.begin = mIndexBegin /\ O!View.end = mIndexEnd
         /\ mIndexBegin < WordValues /\ mIndexEnd < WordValues /\ mIndexEnd <= Len(mVector)
         /\ O!Size(O!View) \in Nat
         /\ mIndexBegin <= mIndexEnd => O!Size(O!View) = mIndexEnd - mIndexBegin
         /\ mIndexBegin > mIndexEnd => O!Size(O!View) = WordValues - (mIndexBegin - mIndexEnd)
  <1>1. PICK v : v = O!View
    OBVIOUS
  <1>2. v = [vector |-> mVector, begin |-> mIndexBegin, end |-> mIndexEnd]
    BY <1>1 DEF O!View
  <1>3. /\ mVector \in Seq(OutByte) /\ Len(mVector) \in Nat /\ Len(mVector) <= MaxVector
        /\ mIndexBegin \in Nat /\ mIndexBegin <= MaxVector
        /\ mIndexEnd \in Nat /\ mIndexEnd <= Len(mVector)
    BY DEF OutType
  <1>4. v \in OutView /\ v.vector = mVector /\ v.begin = mIndexBegin /\ v.end = mIndexEnd
    BY <1>2, <1>3 DEF OutView
  <1>5. mIndexBegin < WordValues /\ mIndexEnd < WordValues
    BY <1>3, OutputAssumption
  <1>6. v.begin < WordValues /\ v.end < WordValues
    BY <1>4, <1>5
  <1>7. /\ v.begin <= v.end => O!Size(v) = v.end - v.begin
        /\ v.begin > v.end => O!Size(v) = WordValues - (v.begin - v.end)
        /\ O!Size(v) \in Nat
    BY <1>4, <1>6, SizeIs
  <1> QED
    BY <1>1, <1>3, <1>4, <1>5, <1>7

\* setFlag leaves a number.
LEMMA FlagIs == ASSUME NEW n, NEW on PROVE O!SetFlag(n, O!IsLastFragment, on) \in OutNumber
  <1>1. 0 \in OutNumber /\ 4 \in OutNumber
    <2>1. PICK k \in Int : k = ByteValues * ByteValues /\ 4 < k
      BY OutputAssumption, HeaderAssumption DEF O!MaxNumber, O!IsLastFragment
    <2>2. 0 \in 0 .. k - 1 /\ 4 \in 0 .. k - 1
      BY <2>1
    <2> QED
      BY <2>1, <2>2, Zenon DEF OutNumber
  <1> QED
    BY <1>1, Zenon DEF O!SetFlag, O!None, O!IsLastFragment

\* What sendCurrentSegment of a datagram stream makes of the vector v, the message
\* m and the header h.
UdpSent(r, v, m, h) ==
  LET s == r.segment
  IN /\ s.view \in OutView /\ s.view.begin = 4 /\ s.view.end = 0 /\ Len(s.view.vector) = 4
     /\ s.header \in OutMessage /\ s.message \in OutMessage
     /\ \A i \in 1 .. 4 : s.view.vector[i] = O!HeaderBytes(s.header)[i]
     /\ s.view.vector = HeaderOf(s.header)
     /\ r.datagram \in [data : Seq(OutByte), message : OutMessage] /\ Len(r.datagram.data) = 4
     /\ v.vector = HeaderOf(h) => r.datagram.data = HeaderOf(r.datagram.message)
     /\ mAutoSendDataSize <= 4 =>
          /\ r.datagram.message = h /\ s.header = m
          /\ m.messageNumber + 1 < O!MaxNumber => s.message.messageNumber = m.messageNumber + 1

LEMMA UdpSendIs ==
  ASSUME NEW v \in OutView, Len(v.vector) = 4, v.end = 0, NEW m \in OutMessage, NEW h \in OutMessage,
         mAutoSendDataSize \in Nat
  PROVE  UdpSent(O!UdpSend(v, m, h), v, m, h)
  <1>1. PICK r : r = O!UdpSend(v, m, h)
    OBVIOUS
  <1>2. CASE mAutoSendDataSize > 4
    <2>1. PICK last : last = O!LastMessage(m)
      OBVIOUS
    <2>2. last \in OutMessage
      <3>1. PICK f \in OutMessage : f = [m EXCEPT !.flags = O!SetFlag(@, O!IsLastFragment, TRUE)]
        <4>1. O!SetFlag(m.flags, O!IsLastFragment, TRUE) \in OutNumber
          BY FlagIs
        <4> QED
          BY <4>1 DEF OutMessage
      <3>2. m.messageNumber - 1 \in Int
        BY DEF OutMessage, OutNumber
      <3>3. O!Numbered(f, m.messageNumber - 1) \in OutMessage
        BY <3>1, <3>2, NumberedIs
      <3> QED
        BY <2>1, <3>1, <3>3 DEF O!LastMessage
    <2>3. PICK next : next = [last EXCEPT !.flags = O!SetFlag(@, O!IsLastFragment, FALSE)]
      OBVIOUS
    <2>4. next \in OutMessage
      <3>1. O!SetFlag(last.flags, O!IsLastFragment, FALSE) \in OutNumber
        BY FlagIs
      <3> QED
        BY <2>2, <2>3, <3>1 DEF OutMessage
    <2>5. PICK z : z = [v EXCEPT !.begin = 0]
      OBVIOUS
    <2>6. z \in OutView /\ z.begin = 0 /\ z.end = 0 /\ z.vector = v.vector
      BY <2>5 DEF OutView
    <2>7. PICK w : w = O!WriteT(z, O!HeaderBytes(last))
      OBVIOUS
    <2>8. w \in OutView /\ (Len(z.vector) \in {0, 4} => Len(w.vector) = 4 /\ w.end = 0 /\ w.vector = HeaderOf(last))
      BY <2>2, <2>6, <2>7, HeaderWritten
    <2>9. PICK g : g = O!RewrittenHeader(v, last)
      OBVIOUS
    <2>10. g \in OutView /\ g.vector = HeaderOf(last) /\ Len(g.vector) = 4
      <3>1. g = [w EXCEPT !.begin = v.begin]
        BY <2>5, <2>7, <2>9 DEF O!RewrittenHeader
      <3> QED
        BY <2>6, <2>8, <3>1 DEF OutView
    <2>11. PICK s : s = O!CreateNewSegment(g, next)
      OBVIOUS
    <2>12. /\ s.view \in OutView /\ s.view.begin = 4
           /\ \A i \in 1 .. 4 : s.view.vector[i] = O!HeaderBytes(next)[i]
           /\ Len(g.vector) \in {0, 4} => Len(s.view.vector) = 4 /\ s.view.end = 0 /\ s.view.vector = HeaderOf(next)
           /\ s.header = next /\ s.message \in OutMessage
      BY <2>4, <2>10, <2>11, NewSegmentIs
    <2>13. r = [segment |-> s, datagram |-> [data |-> g.vector, message |-> last]]
      <3>1. mAutoSendDataSize > Len(v.vector)
        BY <1>2
      <3> QED
        BY <1>1, <2>1, <2>3, <2>9, <2>11, <3>1, Zenon DEF O!UdpSend
    <2>14. r.segment = s /\ r.datagram = [data |-> g.vector, message |-> last]
      BY <2>13
    <2>15. /\ r.datagram \in [data : Seq(OutByte), message : OutMessage] /\ Len(r.datagram.data) = 4
           /\ r.datagram.data = HeaderOf(r.datagram.message)
      BY <2>2, <2>10, <2>14 DEF OutView
    <2>16. ~(mAutoSendDataSize <= 4)
      BY <1>2
    <2>17. Len(s.view.vector) = 4 /\ s.view.end = 0 /\ s.view.vector = HeaderOf(s.header)
      BY <2>10, <2>12
    <2>18. s.header \in OutMessage /\ \A i \in 1 .. 4 : s.view.vector[i] = O!HeaderBytes(s.header)[i]
      BY <2>4, <2>12
    <2> QED
      BY <1>1, <2>12, <2>14, <2>15, <2>16, <2>17, <2>18 DEF UdpSent
  <1>3. CASE mAutoSendDataSize <= 4
    <2>1. PICK s : s = O!CreateNewSegment(v, m)
      OBVIOUS
    <2>2. /\ s.view \in OutView /\ s.view.begin = 4
          /\ \A i \in 1 .. 4 : s.view.vector[i] = O!HeaderBytes(m)[i]
          /\ Len(v.vector) \in {0, 4} => Len(s.view.vector) = 4 /\ s.view.end = 0 /\ s.view.vector = HeaderOf(m)
          /\ s.header = m /\ s.message \in OutMessage
          /\ m.messageNumber + 1 < O!MaxNumber => s.message.messageNumber = m.messageNumber + 1
      BY <2>1, NewSegmentIs
    <2>3. r = [segment |-> s, datagram |-> [data |-> v.vector, message |-> h]]
      <3>1. ~(mAutoSendDataSize > Len(v.vector))
        BY <1>3
      <3> QED
        BY <1>1, <2>1, <3>1, Zenon DEF O!UdpSend
    <2>4. r.segment = s /\ r.datagram = [data |-> v.vector, message |-> h]
      BY <2>3
    <2>5. /\ r.datagram \in [data : Seq(OutByte), message : OutMessage] /\ Len(r.datagram.data) = 4
          /\ v.vector = HeaderOf(h) => r.datagram.data = HeaderOf(r.datagram.message)
      BY <2>4 DEF OutView
    <2>6. Len(s.view.vector) = 4 /\ s.view.end = 0 /\ s.view.vector = HeaderOf(s.header)
      BY <2>2
    <2> QED
      BY <1>1, <2>2, <2>4, <2>5, <2>6 DEF UdpSent
  <1> QED
    BY <1>2, <1>3

\* A field written to a view of the current segment that has the bytes of the
\* vector, and room for the field unless the indexes have crossed.
LEMMA PutKeeps ==
  ASSUME OutInv, NEW v \in OutView, NEW s \in Seq(OutByte), v.end <= Len(v.vector), v.begin = mIndexBegin,
         Len(mVector) <= Len(v.vector), \A i \in 1 .. Len(mVector) : v.vector[i] = mVector[i],
         mIndexBegin <= mIndexEnd => ~O!Outside(v, Len(s)),
         kind = "udp" => Len(v.vector) = 4 /\ v.end = 0,
         O!PutField(v, s), kind' = kind, mAutoSendDataSize' = mAutoSendDataSize, received' = received
  PROVE  OutInv'
  <1>1. OutType /\ OutHolds /\ WritesInBounds /\ OutUdp /\ OutNumbers /\ OutHeaders /\ OutReceived
    BY DEF OutInv
  <1>2. PICK r : r = O!Store(v, s)
    OBVIOUS
  <1>3. /\ r \in OutView /\ r.begin = v.begin + Len(s) /\ r.end = v.end /\ Len(r.vector) = Len(v.vector)
        /\ \A i \in 1 .. Len(v.vector) :
             r.vector[i] = IF i - v.begin \in 1 .. Len(s) THEN s[i - v.begin] ELSE v.vector[i]
    BY <1>2, StoreIs
  <1>4. /\ mVector' = r.vector /\ mIndexBegin' = r.begin /\ mIndexEnd' = r.end
        /\ Len(r.vector) <= MaxVector /\ r.begin <= MaxVector
        /\ mNextMessage' = mNextMessage /\ sent' = sent /\ header' = header /\ flushed' = flushed
    BY <1>2 DEF O!PutField, O!BecomesView, O!Bounded
  <1>5. /\ overran' <=> (overran \/ O!Outside(v, Len(s)))
        /\ crossed' <=> (crossed \/ mIndexBegin > mIndexEnd)
        /\ overran' => written' = <<>>
        /\ ~overran' => written' = written \o s
    BY Zenon DEF O!PutField
  <1>6. PICK n \in Nat, b \in Nat, e \in Nat : n = Len(v.vector) /\ b = mIndexBegin /\ e = mIndexEnd
    BY <1>1 DEF OutType, OutView
  <1>7. O!Outside(v, Len(s)) <=> b + Len(s) > n
    BY <1>6 DEF O!Outside
  <1>8. written \in Seq(OutByte)
    BY <1>1 DEF OutType
  <1>9. written' \in Seq(OutByte) /\ OutHolds'
    <2>1. CASE overran'
      BY <1>5, <2>1 DEF OutHolds
    <2>2. CASE ~overran'
      <3>1. ~overran /\ b + Len(s) <= n /\ written' = written \o s
        BY <1>5, <1>6, <1>7, <2>2
      <3>2. b = Len(written) /\ Len(written) <= Len(mVector) /\ \A i \in 1 .. Len(written) : mVector[i] = written[i]
        BY <1>1, <1>6, <3>1 DEF OutHolds
      <3>3. PICK u : u = written \o s
        OBVIOUS
      <3>4. /\ u \in Seq(OutByte) /\ Len(u) = b + Len(s)
            /\ \A i \in 1 .. b + Len(s) : u[i] = IF i <= b THEN written[i] ELSE s[i - b]
        <4>1. written \in Seq(OutByte) /\ s \in Seq(OutByte) /\ b \in Nat /\ Len(written) = b
          BY <1>8, <3>2
        <4> QED
          BY <3>3, <4>1, JoinIs
      <3>5. ASSUME NEW i \in 1 .. b + Len(s) PROVE r.vector[i] = u[i]
        <4>1. i \in 1 .. n
          BY <1>6, <3>1
        <4>2. r.vector[i] = IF i - b \in 1 .. Len(s) THEN s[i - b] ELSE v.vector[i]
          BY <1>3, <1>6, <4>1
        <4>3. CASE i <= b
          <5>1. ~(i - b \in 1 .. Len(s)) /\ i \in 1 .. Len(written) /\ i \in 1 .. Len(mVector)
            BY <1>1, <1>6, <3>2, <4>3 DEF OutType
          <5>2. v.vector[i] = mVector[i] /\ mVector[i] = written[i]
            BY <3>2, <5>1
          <5> QED
            BY <3>4, <4>2, <4>3, <5>1, <5>2
        <4>4. CASE i > b
          <5>1. i - b \in 1 .. Len(s)
            BY <4>4
          <5> QED
            BY <3>4, <4>2, <4>4, <5>1
        <4> QED
          BY <4>3, <4>4
      <3>6. mIndexBegin' = Len(u) /\ Len(u) <= Len(mVector')
        BY <1>3, <1>4, <1>6, <3>1, <3>4
      <3>7. written' = u /\ \A i \in 1 .. Len(u) : mVector'[i] = u[i]
        BY <1>4, <3>1, <3>3, <3>4, <3>5
      <3> QED
        BY <3>4, <3>6, <3>7 DEF OutHolds
    <2> QED
      BY <2>1, <2>2
  <1>10. OutType'
    <2>1. r.vector \in Seq(OutByte) /\ r.begin \in Nat /\ r.end \in 0 .. Len(r.vector)
      BY <1>3 DEF OutView
    <2> QED
      BY <1>1, <1>4, <1>9, <2>1 DEF OutType
  <1>11. WritesInBounds'
    <2> SUFFICES ASSUME overran' PROVE crossed' \/ flushed'
      BY DEF WritesInBounds, O!WritesInBounds
    <2>1. CASE overran
      BY <1>1, <1>4, <1>5, <2>1, Zenon DEF WritesInBounds, O!WritesInBounds
    <2>2. CASE ~overran
      <3>1. ~(mIndexBegin <= mIndexEnd)
        BY <1>5, <2>2
      <3>2. mIndexBegin > mIndexEnd
        BY <1>6, <3>1
      <3> QED
        BY <1>5, <3>2
    <2> QED
      BY <2>1, <2>2
  <1>12. OutUdp'
    <2> SUFFICES ASSUME kind = "udp"
                 PROVE  /\ Len(mVector') = 4 /\ mIndexEnd' = 0 /\ mIndexBegin' >= 4
                        /\ \A i \in 1 .. Len(sent) : Len(sent[i].data) = 4
      BY <1>4 DEF OutUdp
    <2>1. mIndexBegin >= 4 /\ \A i \in 1 .. Len(sent) : Len(sent[i].data) = 4
      BY <1>1 DEF OutUdp
    <2>2. mIndexBegin' >= 4
      BY <1>3, <1>4, <1>6, <2>1
    <2> QED
      BY <1>3, <1>4, <2>1, <2>2
  <1>13. OutNumbers'
    BY <1>1, <1>4 DEF OutNumbers, O!MaxNumber
  <1>14. OutHeaders'
    <2> SUFFICES ASSUME kind = "udp"
                 PROVE  mVector' = HeaderOf(header) /\ \A i \in 1 .. Len(sent) : sent[i].data = HeaderOf(sent[i].message)
      BY <1>4 DEF OutHeaders
    <2>1. mVector = HeaderOf(header) /\ \A i \in 1 .. Len(sent) : sent[i].data = HeaderOf(sent[i].message)
      BY <1>1 DEF OutHeaders
    <2>2. Len(mVector) = 4 /\ mVector \in Seq(OutByte) /\ n = 4 /\ b >= 4
      BY <1>1, <1>6 DEF OutUdp, OutType
    <2>3. \A i \in 1 .. 4 : r.vector[i] = mVector[i]
      <3> SUFFICES ASSUME NEW i \in 1 .. 4 PROVE r.vector[i] = mVector[i]
        OBVIOUS
      <3>1. ~(i - b \in 1 .. Len(s))
        BY <2>2
      <3>2. r.vector[i] = IF i - b \in 1 .. Len(s) THEN s[i - b] ELSE v.vector[i]
        BY <1>3, <1>6, <2>2
      <3> QED
        BY <2>2, <3>1, <3>2
    <2>4. PICK y : y = r.vector
      OBVIOUS
    <2>5. y \in Seq(OutByte) /\ Len(y) = 4
      BY <1>3, <1>6, <2>2, <2>4 DEF OutView
    <2>6. y = mVector
      BY <2>2, <2>3, <2>4, <2>5
    <2> QED
      BY <1>4, <2>1, <2>4, <2>6
  <1>15. OutReceived'
    BY <1>1, <1>4 DEF OutReceived
  <1> QED
    BY <1>9, <1>10, <1>11, <1>12, <1>13, <1>14, <1>15 DEF OutInv

\* A segment that was just started: its header is written, and nothing else.
Started(x) ==
  /\ x.segment.view \in OutView /\ x.segment.view.end <= Len(x.segment.view.vector)
  /\ x.segment.message \in OutMessage /\ x.segment.header \in OutMessage
  /\ x.datagram \in [data : Seq(OutByte), message : OutMessage]
  /\ O!InHeader(x.segment.header) \in Seq(OutByte)
  /\ x.segment.view.begin = Len(O!InHeader(x.segment.header))
  /\ x.segment.view.begin <= Len(x.segment.view.vector)
  /\ \A i \in 1 .. x.segment.view.begin : x.segment.view.vector[i] = O!InHeader(x.segment.header)[i]

LEMMA SendStarts ==
  ASSUME OutInv, NEW x, x = O!SendCurrentSegment(O!View, mNextMessage, header)
  PROVE  /\ Started(x)
         /\ kind = "udp" =>
              /\ Len(x.segment.view.vector) = 4 /\ x.segment.view.end = 0 /\ x.segment.view.begin = 4
              /\ Len(x.datagram.data) = 4
              /\ x.segment.view.vector = HeaderOf(x.segment.header)
              /\ x.datagram.data = HeaderOf(x.datagram.message)
              /\ mAutoSendDataSize <= 4 =>
                   /\ x.datagram.message = header /\ x.segment.header = mNextMessage
                   /\ mNextMessage.messageNumber + 1 < O!MaxNumber =>
                        x.segment.message.messageNumber = mNextMessage.messageNumber + 1
  <1>1. OutType /\ OutUdp /\ OutHeaders
    BY DEF OutInv
  <1>2. PICK v \in OutView : v = O!View /\ v.vector = mVector /\ v.begin = mIndexBegin /\ v.end = mIndexEnd
    BY <1>1, ViewIs
  <1>3. mNextMessage \in OutMessage /\ header \in OutMessage /\ mAutoSendDataSize \in Nat /\ kind \in {"udp", "tcp"}
    BY <1>1 DEF OutType
  <1>4. CASE kind = "udp"
    <2>1. x = O!UdpSend(v, mNextMessage, header)
      BY <1>2, <1>4 DEF O!SendCurrentSegment
    <2>2. Len(v.vector) = 4 /\ v.end = 0 /\ v.vector = HeaderOf(header)
      BY <1>1, <1>2, <1>4 DEF OutUdp, OutHeaders
    <2>3. /\ x.segment.view \in OutView /\ x.segment.view.begin = 4 /\ x.segment.view.end = 0
          /\ Len(x.segment.view.vector) = 4
          /\ x.segment.header \in OutMessage /\ x.segment.message \in OutMessage
          /\ \A i \in 1 .. 4 : x.segment.view.vector[i] = O!HeaderBytes(x.segment.header)[i]
          /\ x.segment.view.vector = HeaderOf(x.segment.header)
          /\ x.datagram \in [data : Seq(OutByte), message : OutMessage] /\ Len(x.datagram.data) = 4
          /\ v.vector = HeaderOf(header) => x.datagram.data = HeaderOf(x.datagram.message)
          /\ mAutoSendDataSize <= 4 =>
               /\ x.datagram.message = header /\ x.segment.header = mNextMessage
               /\ mNextMessage.messageNumber + 1 < O!MaxNumber =>
                    x.segment.message.messageNumber = mNextMessage.messageNumber + 1
      <3>1. UdpSent(x, v, mNextMessage, header)
        BY <1>3, <2>1, <2>2, UdpSendIs
      <3> QED
        BY <3>1, Zenon DEF UdpSent
    <2>4. O!InHeader(x.segment.header) = O!HeaderBytes(x.segment.header)
      BY <1>4 DEF O!InHeader
    <2>5. O!HeaderBytes(x.segment.header) \in Seq(OutByte) /\ Len(O!HeaderBytes(x.segment.header)) = 4
      BY <2>3, HeaderBytesAre
    <2>6. Started(x)
      BY <2>3, <2>4, <2>5 DEF Started
    <2>7. x.datagram.data = HeaderOf(x.datagram.message)
      BY <2>2, <2>3
    <2> QED
      BY <2>3, <2>6, <2>7
  <1>5. CASE kind = "tcp"
    <2>1. x = O!TcpSend(v, mNextMessage, header)
      BY <1>2, <1>5 DEF O!SendCurrentSegment
    <2>2. PICK w : w = [v EXCEPT !.begin = 0, !.end = 0]
      OBVIOUS
    <2>3. w \in OutView /\ w.begin = 0 /\ w.end = 0 /\ w.vector = mVector
      BY <1>2, <2>2 DEF OutView
    <2>4. x = [segment |-> [view |-> w, message |-> mNextMessage, header |-> header],
               datagram |-> [data |-> mVector, message |-> header]]
      BY <1>2, <2>1, <2>2 DEF O!TcpSend
    <2>5. /\ x.segment.view = w /\ x.segment.message = mNextMessage /\ x.segment.header = header
          /\ x.datagram = [data |-> mVector, message |-> header]
      BY <2>4
    <2>6. O!InHeader(x.segment.header) = <<>>
      BY <1>5 DEF O!InHeader
    <2>7. mVector \in Seq(OutByte)
      BY <1>1 DEF OutType
    <2>8. Started(x)
      <3>1. x.datagram \in [data : Seq(OutByte), message : OutMessage]
        BY <1>3, <2>5, <2>7
      <3>2. x.segment.view.end <= Len(x.segment.view.vector) /\ x.segment.view.begin <= Len(x.segment.view.vector)
        BY <2>3, <2>5, <2>7
      <3> QED
        BY <1>3, <2>3, <2>5, <2>6, <3>1, <3>2 DEF Started
    <2> QED
      BY <1>5, <2>8
  <1> QED
    BY <1>3, <1>4, <1>5

\* The segment is sent, and the bytes start the one after it.
LEMMA SendKeeps ==
  ASSUME OutInv, NEW s \in Seq(OutByte), O!SendAndPut(s), kind' = kind, mAutoSendDataSize' = mAutoSendDataSize,
         received' = received
  PROVE  OutInv'
  <1>1. OutType /\ OutUdp /\ OutNumbers /\ OutHeaders /\ OutReceived
    BY DEF OutInv
  <1>2. PICK x : x = O!SendCurrentSegment(O!View, mNextMessage, header)
    OBVIOUS
  <1>3. /\ Started(x)
        /\ kind = "udp" =>
             /\ Len(x.segment.view.vector) = 4 /\ x.segment.view.end = 0 /\ x.segment.view.begin = 4
             /\ Len(x.datagram.data) = 4
             /\ x.segment.view.vector = HeaderOf(x.segment.header)
             /\ x.datagram.data = HeaderOf(x.datagram.message)
             /\ mAutoSendDataSize <= 4 =>
                  /\ x.datagram.message = header /\ x.segment.header = mNextMessage
                  /\ mNextMessage.messageNumber + 1 < O!MaxNumber =>
                       x.segment.message.messageNumber = mNextMessage.messageNumber + 1
    BY <1>2, SendStarts
  <1>4. PICK v \in OutView, c \in Seq(OutByte), b \in Nat, n \in Nat :
          /\ v = x.segment.view /\ c = O!InHeader(x.segment.header) /\ b = v.begin /\ n = Len(v.vector)
          /\ b = Len(c) /\ b <= n /\ v.end <= n /\ \A i \in 1 .. b : v.vector[i] = c[i]
    <2>1. PICK v \in OutView : v = x.segment.view
      BY <1>3 DEF Started
    <2>2. PICK c \in Seq(OutByte) : c = O!InHeader(x.segment.header)
      BY <1>3 DEF Started
    <2>3. PICK b \in Nat, n \in Nat : b = v.begin /\ n = Len(v.vector)
      BY DEF OutView
    <2>4. b = Len(c) /\ b <= n /\ v.end <= n /\ \A i \in 1 .. b : v.vector[i] = c[i]
      BY <1>3, <2>1, <2>2, <2>3 DEF Started
    <2> QED
      BY <2>1, <2>2, <2>3, <2>4
  <1>5. PICK r : r = O!Store(v, s)
    OBVIOUS
  <1>6. /\ r \in OutView /\ r.begin = b + Len(s) /\ r.end = v.end /\ Len(r.vector) = n
        /\ \A i \in 1 .. n : r.vector[i] = IF i - b \in 1 .. Len(s) THEN s[i - b] ELSE v.vector[i]
    <2>1. /\ r \in OutView /\ r.begin = v.begin + Len(s) /\ r.end = v.end /\ Len(r.vector) = Len(v.vector)
          /\ \A i \in 1 .. Len(v.vector) :
               r.vector[i] = IF i - v.begin \in 1 .. Len(s) THEN s[i - v.begin] ELSE v.vector[i]
      BY <1>5, StoreIs
    <2> QED
      BY <1>4, <2>1
  <1>7. /\ mVector' = r.vector /\ mIndexBegin' = r.begin /\ mIndexEnd' = r.end
        /\ Len(r.vector) <= MaxVector /\ r.begin <= MaxVector
        /\ mNextMessage' = x.segment.message /\ header' = x.segment.header
        /\ sent' = Append(sent, x.datagram)
    BY <1>2, <1>4, <1>5 DEF O!SendAndPut, O!BecomesView, O!Bounded
  <1>8. /\ overran' <=> O!Outside(v, Len(s))
        /\ flushed' <=> (s # <<>>)
        /\ overran' => written' = <<>>
        /\ ~overran' => written' = c \o s
    BY <1>2, <1>4, <1>7, Zenon DEF O!SendAndPut
  <1>9. O!Outside(v, Len(s)) <=> b + Len(s) > n
    BY <1>4 DEF O!Outside
  <1>10. written' \in Seq(OutByte) /\ OutHolds'
    <2>1. CASE overran'
      BY <1>8, <2>1 DEF OutHolds
    <2>2. CASE ~overran'
      <3>1. b + Len(s) <= n /\ written' = c \o s
        BY <1>4, <1>8, <1>9, <2>2
      <3>2. PICK u : u = c \o s
        OBVIOUS
      <3>3. /\ u \in Seq(OutByte) /\ Len(u) = b + Len(s)
            /\ \A i \in 1 .. b + Len(s) : u[i] = IF i <= b THEN c[i] ELSE s[i - b]
        <4>1. c \in Seq(OutByte) /\ s \in Seq(OutByte) /\ b \in Nat /\ Len(c) = b
          BY <1>4
        <4> QED
          BY <3>2, <4>1, JoinIs
      <3>4. ASSUME NEW i \in 1 .. b + Len(s) PROVE r.vector[i] = u[i]
        <4>1. i \in 1 .. n
          BY <1>4, <3>1
        <4>2. r.vector[i] = IF i - b \in 1 .. Len(s) THEN s[i - b] ELSE v.vector[i]
          BY <1>6, <4>1
        <4>3. CASE i <= b
          <5>1. ~(i - b \in 1 .. Len(s)) /\ i \in 1 .. b
            BY <4>3
          <5> QED
            BY <1>4, <3>3, <4>2, <4>3, <5>1
        <4>4. CASE i > b
          <5>1. i - b \in 1 .. Len(s)
            BY <4>4
          <5> QED
            BY <3>3, <4>2, <4>4, <5>1
        <4> QED
          BY <4>3, <4>4
      <3>5. mIndexBegin' = Len(u) /\ Len(u) <= Len(mVector')
        BY <1>6, <1>7, <3>1, <3>3
      <3>6. written' = u /\ \A i \in 1 .. Len(u) : mVector'[i] = u[i]
        BY <1>7, <3>1, <3>2, <3>3, <3>4
      <3> QED
        BY <3>3, <3>5, <3>6 DEF OutHolds
    <2> QED
      BY <2>1, <2>2
  <1>11. /\ sent \in Seq([data : Seq(OutByte), message : OutMessage])
         /\ x.datagram \in [data : Seq(OutByte), message : OutMessage]
    BY <1>1, <1>3 DEF OutType, Started
  <1>12. PICK k \in Nat : k = Len(sent)
    BY <1>11
  <1>13. /\ sent' \in Seq([data : Seq(OutByte), message : OutMessage]) /\ Len(sent') = k + 1
         /\ sent'[k + 1] = x.datagram
         /\ \A i \in 1 .. k : sent'[i] = sent[i]
    BY <1>7, <1>11, <1>12, AppendProperties
  <1>14. OutType'
    <2>1. r.vector \in Seq(OutByte) /\ r.begin \in Nat /\ r.end \in 0 .. Len(r.vector)
      BY <1>4, <1>6 DEF OutView
    <2>2. mNextMessage' \in OutMessage /\ header' \in OutMessage
      BY <1>3, <1>7 DEF Started
    <2>3. kind' \in {"udp", "tcp"} /\ mAutoSendDataSize' \in Nat
      BY <1>1 DEF OutType
    <2> QED
      BY <1>7, <1>10, <1>13, <2>1, <2>2, <2>3 DEF OutType
  <1>15. WritesInBounds'
    <2> SUFFICES ASSUME overran' PROVE flushed'
      BY DEF WritesInBounds, O!WritesInBounds
    <2>1. b + Len(s) > n
      BY <1>8, <1>9
    <2>2. s # <<>>
      BY <1>4, <2>1
    <2> QED
      BY <1>8, <2>2
  <1>16. OutUdp'
    <2> SUFFICES ASSUME kind = "udp"
                 PROVE  /\ Len(mVector') = 4 /\ mIndexEnd' = 0 /\ mIndexBegin' >= 4
                        /\ \A i \in 1 .. Len(sent') : Len(sent'[i].data) = 4
      BY DEF OutUdp
    <2>1. n = 4 /\ v.end = 0 /\ b = 4 /\ Len(x.datagram.data) = 4
      BY <1>3, <1>4
    <2>2. \A i \in 1 .. k : Len(sent[i].data) = 4
      BY <1>1, <1>12 DEF OutUdp
    <2>3. ASSUME NEW i \in 1 .. k + 1 PROVE Len(sent'[i].data) = 4
      <3>1. CASE i = k + 1
        BY <1>13, <2>1, <3>1
      <3>2. CASE i # k + 1
        <4>1. i \in 1 .. k
          BY <1>12, <3>2
        <4> QED
          BY <1>13, <2>2, <4>1
      <3> QED
        BY <3>1, <3>2
    <2>4. Len(mVector') = 4 /\ mIndexEnd' = 0 /\ mIndexBegin' >= 4
      BY <1>6, <1>7, <2>1
    <2> QED
      BY <1>13, <2>3, <2>4
  <1>17. OutNumbers'
    <2>0. O!MaxNumber \in Int /\ O!MaxNumber' = O!MaxNumber
      BY OutputAssumption DEF O!MaxNumber
    <2>1. PICK z \in Int : z = O!MaxNumber
      BY <2>0
    <2> SUFFICES ASSUME kind = "udp", mAutoSendDataSize <= 4
                 PROVE  /\ k + 1 < z =>
                             /\ header'.messageNumber = k + 1
                             /\ \A i \in 1 .. k + 1 : sent'[i].message.messageNumber = i - 1
                        /\ k + 2 < z => mNextMessage'.messageNumber = k + 2
      BY <1>13, <2>0, <2>1 DEF OutNumbers
    <2>2. /\ x.datagram.message = header /\ x.segment.header = mNextMessage
          /\ mNextMessage.messageNumber + 1 < z =>
               x.segment.message.messageNumber = mNextMessage.messageNumber + 1
      BY <1>3, <2>1
    <2>3. /\ k < z => header.messageNumber = k /\ \A i \in 1 .. k : sent[i].message.messageNumber = i - 1
          /\ k + 1 < z => mNextMessage.messageNumber = k + 1
      BY <1>1, <1>12, <2>1 DEF OutNumbers
    <2>4. ASSUME k + 1 < z, NEW i \in 1 .. k + 1 PROVE sent'[i].message.messageNumber = i - 1
      <3>1. k < z
        BY <2>4
      <3>2. CASE i = k + 1
        BY <1>13, <2>2, <2>3, <3>1, <3>2
      <3>3. CASE i # k + 1
        <4>1. i \in 1 .. k
          BY <3>3
        <4> QED
          BY <1>13, <2>3, <3>1, <4>1
      <3> QED
        BY <3>2, <3>3
    <2>5. k + 1 < z => header'.messageNumber = k + 1
      BY <1>7, <2>2, <2>3
    <2>6. ASSUME k + 2 < z PROVE mNextMessage'.messageNumber = k + 2
      <3>1. mNextMessage.messageNumber = k + 1
        BY <2>3, <2>6
      <3>2. mNextMessage.messageNumber + 1 < z
        BY <2>6, <3>1
      <3> QED
        BY <1>7, <2>2, <3>1, <3>2
    <2> QED
      BY <2>4, <2>5, <2>6
  <1>18. OutHeaders'
    <2> SUFFICES ASSUME kind = "udp"
                 PROVE  /\ mVector' = HeaderOf(header')
                        /\ \A i \in 1 .. Len(sent') : sent'[i].data = HeaderOf(sent'[i].message)
      BY DEF OutHeaders
    <2>1. n = 4 /\ b = 4 /\ v.vector = HeaderOf(header') /\ x.datagram.data = HeaderOf(x.datagram.message)
      BY <1>3, <1>4, <1>7
    <2>2. \A i \in 1 .. 4 : r.vector[i] = v.vector[i]
      <3> SUFFICES ASSUME NEW i \in 1 .. 4 PROVE r.vector[i] = v.vector[i]
        OBVIOUS
      <3>1. ~(i - b \in 1 .. Len(s))
        BY <2>1
      <3>2. r.vector[i] = IF i - b \in 1 .. Len(s) THEN s[i - b] ELSE v.vector[i]
        BY <1>6, <2>1
      <3> QED
        BY <3>1, <3>2
    <2>3. PICK y, z : y = r.vector /\ z = v.vector
      OBVIOUS
    <2>4. y \in Seq(OutByte) /\ Len(y) = 4 /\ z \in Seq(OutByte) /\ Len(z) = 4
      BY <1>4, <1>6, <2>1, <2>3 DEF OutView
    <2>5. y = z
      <3>1. \A i \in 1 .. 4 : y[i] = z[i]
        BY <2>2, <2>3, Zenon
      <3> QED
        BY <2>4, <3>1
    <2>6. \A i \in 1 .. k : sent[i].data = HeaderOf(sent[i].message)
      BY <1>1, <1>12 DEF OutHeaders
    <2>7. ASSUME NEW i \in 1 .. k + 1 PROVE sent'[i].data = HeaderOf(sent'[i].message)
      <3>1. CASE i = k + 1
        BY <1>13, <2>1, <3>1
      <3>2. CASE i # k + 1
        <4>1. i \in 1 .. k
          BY <1>12, <3>2
        <4> QED
          BY <1>13, <2>6, <4>1
      <3> QED
        BY <3>1, <3>2
    <2> QED
      BY <1>7, <1>13, <2>1, <2>3, <2>5, <2>7
  <1>19. OutReceived'
    <2>1. received \in Seq(Seq(OutByte) \cup {<<"ParseError">>})
      BY <1>1 DEF OutReceived
    <2>2. ASSUME kind = "udp", NEW i \in 1 .. Len(received), received[i] # <<"ParseError">>
          PROVE  \E j \in 1 .. k + 1 : received[i] = sent'[j].data
      <3>1. PICK j \in 1 .. k : received[i] = sent[j].data
        BY <1>1, <1>12, <2>2 DEF OutReceived
      <3>2. j \in 1 .. k + 1
        BY <1>12
      <3> QED
        BY <1>13, <3>1, <3>2
    <2> QED
      BY <1>13, <2>1, <2>2 DEF OutReceived
  <1> QED
    BY <1>10, <1>14, <1>15, <1>16, <1>17, <1>18, <1>19 DEF OutInv

\* The bytes of a user's field.
LEMMA FieldBytesAre ==
  ASSUME NEW f \in Fields
  PROVE  /\ O!BigEndianWriter(f) \in Seq(OutByte) /\ Len(O!BigEndianWriter(f)) = f.size
         /\ f.size \in Nat /\ MaxVector + f.size < WordValues
  <1>1. f.size \in Nat /\ MaxVector + f.size < WordValues
    BY OutputAssumption
  <1>2. f.value \in {g.value : g \in Fields} \cup Nat
    OBVIOUS
  <1>3. O!BigEndianWriter(f) \in Seq(OutByte) /\ Len(O!BigEndianWriter(f)) = f.size
    BY <1>1, <1>2, WriterIs
  <1> QED
    BY <1>1, <1>3

\* A field that fits.
LEMMA WriteFitsKeeps ==
  ASSUME OutInv, NEW f \in Fields, O!WriteFits(f)
  PROVE  OutInv'
  <1>1. OutType /\ OutUdp
    BY DEF OutInv
  <1>2. PICK s \in Seq(OutByte) : s = O!BigEndianWriter(f) /\ Len(s) = f.size
    BY FieldBytesAre
  <1>3. PICK v \in OutView : v = O!View
    BY <1>1, ViewIs
  <1>4. /\ v.vector = mVector /\ v.begin = mIndexBegin /\ v.end = mIndexEnd /\ mIndexEnd <= Len(mVector)
        /\ mIndexBegin <= mIndexEnd => O!Size(v) = mIndexEnd - mIndexBegin
    BY <1>1, <1>3, ViewIs
  <1>5. mIndexBegin \in Nat /\ mIndexEnd \in Nat /\ Len(mVector) \in Nat /\ f.size \in Nat
    BY <1>1, FieldBytesAre DEF OutType
  <1>6. O!Size(v) >= f.size /\ O!PutField(v, s) /\ kind' = kind /\ mAutoSendDataSize' = mAutoSendDataSize
        /\ received' = received
    BY <1>2, <1>3 DEF O!WriteFits
  <1>7. mIndexBegin <= mIndexEnd => ~O!Outside(v, Len(s))
    BY <1>2, <1>4, <1>5, <1>6 DEF O!Outside
  <1>8. kind = "udp" => Len(v.vector) = 4 /\ v.end = 0
    BY <1>1, <1>4 DEF OutUdp
  <1>9. /\ v.end <= Len(v.vector) /\ Len(mVector) <= Len(v.vector)
        /\ \A i \in 1 .. Len(mVector) : v.vector[i] = mVector[i]
    BY <1>4, <1>5
  <1> QED
    BY <1>4, <1>6, <1>7, <1>8, <1>9, PutKeeps

\* A field the vector is expanded for.
LEMMA WriteExpandsKeeps ==
  ASSUME OutInv, NEW f \in Fields, O!WriteExpands(f)
  PROVE  OutInv'
  <1>1. OutType /\ OutUdp
    BY DEF OutInv
  <1>2. PICK s \in Seq(OutByte) : s = O!BigEndianWriter(f) /\ Len(s) = f.size
    BY FieldBytesAre
  <1>3. PICK v \in OutView : v = O!View
    BY <1>1, ViewIs
  <1>4. /\ v.vector = mVector /\ v.begin = mIndexBegin /\ v.end = mIndexEnd /\ mIndexEnd <= Len(mVector)
        /\ mIndexBegin < WordValues /\ mIndexEnd < WordValues /\ O!Size(v) \in Nat
        /\ mIndexBegin <= mIndexEnd => O!Size(v) = mIndexEnd - mIndexBegin
        /\ mIndexBegin > mIndexEnd => O!Size(v) = WordValues - (mIndexBegin - mIndexEnd)
    BY <1>1, <1>3, ViewIs
  <1>5. PICK n \in Nat, b \in Nat, e \in Nat, k \in Nat, size \in Nat :
          n = Len(mVector) /\ b = mIndexBegin /\ e = mIndexEnd /\ k = f.size /\ size = O!Size(v)
    <2>1. /\ Len(mVector) \in Nat /\ mIndexBegin \in Nat /\ mIndexEnd \in Nat /\ f.size \in Nat
          /\ O!Size(v) \in Nat
      BY <1>1, <1>4, FieldBytesAre DEF OutType
    <2> QED
      BY <2>1, Zenon
  <1>6. size < k /\ kind' = kind /\ mAutoSendDataSize' = mAutoSendDataSize /\ received' = received
    BY <1>3, <1>5 DEF O!WriteExpands
  <1>7. k < WordValues /\ WordValues \in Nat /\ MaxVector + k < WordValues /\ b <= MaxVector /\ MaxVector \in Nat
    BY <1>1, <1>5, FieldBytesAre, OutputAssumption DEF OutType
  <1>8. kind # "udp"
    <2> SUFFICES ASSUME kind = "udp" PROVE FALSE
      OBVIOUS
    <2>1. e = 0 /\ b >= 4
      BY <1>1, <1>5 DEF OutUdp
    <2>2. size = WordValues - b
      BY <1>4, <1>5, <2>1
    <2> QED
      BY <1>6, <1>7, <2>2
  <1>9. PICK h \in Nat : h = k - size /\ size + h = k /\ h > 0
    BY <1>5, <1>6
  <1>10. PICK r : r = O!Expand(v, h)
    OBVIOUS
  <1>11. PICK a \in Nat, p \in Nat : a = n - e /\ p = (IF h <= a THEN h ELSE a) /\ p <= h /\ p <= a
    <2>1. PICK a \in Nat : a = n - e
      <3>1. e <= n
        BY <1>4, <1>5
      <3>2. n - e \in Nat
        BY ONLY <3>1, n \in Nat, e \in Nat
      <3> QED
        BY <3>2
    <2>2. PICK p \in Nat : p = (IF h <= a THEN h ELSE a) /\ p <= h /\ p <= a
      OBVIOUS
    <2> QED
      BY <2>1, <2>2, Zenon
  <1>12. /\ r \in OutView /\ r.begin = b
         /\ r.end = (IF e # n THEN a - p ELSE e)
         /\ Len(r.vector) = (IF size + h - p > 0 THEN n + h ELSE n)
         /\ \A i \in 1 .. n : r.vector[i] = mVector[i]
    <2>1. /\ v.begin < WordValues /\ v.end < WordValues /\ v.end <= Len(v.vector)
          /\ O!Size(v) + h < WordValues
      BY <1>4, <1>5, <1>7, <1>9
    <2>2. /\ r \in OutView /\ r.begin = v.begin
          /\ r.end = (IF v.end # Len(v.vector)
                      THEN (Len(v.vector) - v.end)
                             - (IF h <= Len(v.vector) - v.end THEN h ELSE Len(v.vector) - v.end) ELSE v.end)
          /\ Len(r.vector) =
               (IF O!Size(v) + h - (IF h <= Len(v.vector) - v.end THEN h ELSE Len(v.vector) - v.end) > 0
                THEN Len(v.vector) + h ELSE Len(v.vector))
          /\ \A i \in 1 .. Len(v.vector) : r.vector[i] = v.vector[i]
      BY <1>10, <2>1, ExpandIs
    <2> QED
      BY <1>4, <1>5, <1>11, <2>2, Zenon
  <1>13. PICK x \in Nat, y \in Nat : /\ x = r.end /\ y = Len(r.vector)
                                    /\ x = (IF e # n THEN a - p ELSE e)
                                    /\ y = (IF size + h - p > 0 THEN n + h ELSE n)
    <2>1. r.end \in Nat /\ Len(r.vector) \in Nat
      BY <1>12 DEF OutView
    <2> QED
      BY <1>12, <2>1
  <1>14. /\ e <= n /\ (b <= e => size = e - b)
    BY <1>4, <1>5
  <1>15. x <= y /\ n <= y
    BY ONLY <1>9, <1>11, <1>13, <1>14, n \in Nat, e \in Nat, size \in Nat, h \in Nat, a \in Nat, p \in Nat
  <1>16. b <= e => b + k <= y
    <2>1. CASE size + h - p > 0
      BY ONLY <1>9, <1>13, <1>14, <2>1, n \in Nat, e \in Nat, b \in Nat, h \in Nat, size \in Nat
    <2>2. CASE ~(size + h - p > 0)
      <3>1. size = 0 /\ p = h /\ y = n
        BY ONLY <1>9, <1>11, <1>13, <2>2, n \in Nat, size \in Nat, h \in Nat, p \in Nat
      <3> QED
        BY ONLY <1>9, <1>11, <1>14, <3>1, n \in Nat, e \in Nat, b \in Nat, h \in Nat
    <2> QED
      BY <2>1, <2>2
  <1>17. mIndexBegin <= mIndexEnd => ~O!Outside(r, Len(s))
    BY <1>2, <1>5, <1>12, <1>13, <1>16 DEF O!Outside
  <1>18. O!PutField(r, s)
    <2>1. f.size - O!Size(v) = h
      BY <1>5, <1>9
    <2> QED
      BY <1>2, <1>3, <1>10, <2>1 DEF O!WriteExpands
  <1>19. /\ r.end <= Len(r.vector) /\ r.begin = mIndexBegin /\ Len(mVector) <= Len(r.vector)
         /\ \A i \in 1 .. Len(mVector) : r.vector[i] = mVector[i]
    BY <1>5, <1>12, <1>13, <1>15
  <1> QED
    BY <1>6, <1>8, <1>12, <1>17, <1>18, <1>19, PutKeeps

\* The invariant of the output streams holds initially.
LEMMA OutStart == ASSUME O!Init PROVE OutInv
  <1>1. PICK syn \in BOOLEAN :
          LET segment == IF kind = "udp" THEN O!CreateNewSegment(O!NoBytes, O!FirstMessage(syn))
                         ELSE [view |-> O!NoBytes, message |-> O!FirstMessage(FALSE), header |-> O!FirstMessage(FALSE)]
          IN /\ mVector = segment.view.vector
             /\ mIndexBegin = segment.view.begin /\ mIndexEnd = segment.view.end
             /\ mNextMessage = segment.message /\ header = segment.header
             /\ written = O!InHeader(segment.header)
    BY DEF O!Init
  <1>2. /\ kind \in {"udp", "tcp"} /\ mAutoSendDataSize \in Nat /\ sent = <<>> /\ overran = FALSE
    BY OutputAssumption DEF O!Init
  <1>3. O!NoBytes \in OutView /\ O!NoBytes.vector = <<>> /\ O!NoBytes.begin = 0 /\ O!NoBytes.end = 0
    BY DEF O!NoBytes, OutView
  <1>4. \A on \in BOOLEAN : O!FirstMessage(on) \in OutMessage /\ O!FirstMessage(on).messageNumber = 0
    <2>1. PICK k \in Int : k = ByteValues * ByteValues /\ 4 < k
      BY OutputAssumption, HeaderAssumption DEF O!MaxNumber, O!IsLastFragment
    <2>2. 0 \in 0 .. k - 1 /\ 1 \in 0 .. k - 1
      BY <2>1
    <2>3. 0 \in OutNumber /\ 1 \in OutNumber
      BY <2>1, <2>2, Zenon DEF OutNumber
    <2> QED
      BY <2>3 DEF O!FirstMessage, OutMessage, O!SYN, O!None
  <1>5. MaxVector \in Nat /\ 4 <= MaxVector
    BY OutputAssumption
  <1>6. ~overran /\ WritesInBounds
    BY <1>2 DEF WritesInBounds, O!WritesInBounds
  <1>7. sent \in Seq([data : Seq(OutByte), message : OutMessage]) /\ Len(sent) = 0
    BY <1>2
  <1>10. OutReceived
    BY DEF O!Init, OutReceived
  <1>8. CASE kind = "udp"
    <2>1. PICK m \in OutMessage : m = O!FirstMessage(syn) /\ m.messageNumber = 0
      BY <1>4
    <2>2. PICK r : r = O!CreateNewSegment(O!NoBytes, m)
      OBVIOUS
    <2>3. Len(O!NoBytes.vector) \in {0, 4}
      BY <1>3
    <2>4. /\ r.view \in OutView /\ r.view.begin = 4 /\ Len(r.view.vector) = 4 /\ r.view.end = 0
          /\ \A i \in 1 .. 4 : r.view.vector[i] = O!HeaderBytes(m)[i]
          /\ r.header = m /\ r.message \in OutMessage /\ r.view.vector = HeaderOf(m)
          /\ m.messageNumber + 1 < O!MaxNumber => r.message.messageNumber = m.messageNumber + 1
      BY <1>3, <2>2, <2>3, NewSegmentIs
    <2>5. /\ mVector = r.view.vector /\ mIndexBegin = r.view.begin /\ mIndexEnd = r.view.end
          /\ mNextMessage = r.message /\ header = r.header /\ written = O!HeaderBytes(m)
      BY <1>1, <1>8, <2>1, <2>2, <2>4 DEF O!InHeader
    <2>6. written \in Seq(OutByte) /\ Len(written) = 4
      BY <2>5, HeaderBytesAre
    <2>7. OutType
      <3>1. /\ mVector \in Seq(OutByte) /\ Len(mVector) <= MaxVector
            /\ mIndexBegin \in Nat /\ mIndexBegin <= MaxVector /\ mIndexEnd \in 0 .. Len(mVector)
        <4>1. mVector \in Seq(OutByte) /\ Len(mVector) = 4 /\ mIndexBegin = 4 /\ mIndexEnd = 0
          BY <2>4, <2>5, Zenon DEF OutView
        <4>2. 0 \in 0 .. 4 /\ 4 \in Nat
          OBVIOUS
        <4> QED
          BY <1>5, <4>1, <4>2
      <3>2. mNextMessage \in OutMessage /\ header \in OutMessage
        BY <2>4, <2>5
      <3> QED
        BY <1>2, <1>7, <2>6, <3>1, <3>2, Zenon DEF OutType
    <2>8. OutHolds
      <3>1. mIndexBegin = 4 /\ Len(mVector) = 4 /\ \A i \in 1 .. 4 : mVector[i] = written[i]
        BY <2>4, <2>5, Zenon
      <3> QED
        BY <2>6, <3>1 DEF OutHolds
    <2>9. OutUdp
      BY <1>7, <2>4, <2>5 DEF OutUdp
    <2>10. OutNumbers
      BY <1>7, <2>1, <2>4, <2>5 DEF OutNumbers
    <2>11. OutHeaders
      BY <1>7, <2>4, <2>5 DEF OutHeaders
    <2> QED
      BY <1>6, <1>10, <2>7, <2>8, <2>9, <2>10, <2>11 DEF OutInv
  <1>9. CASE kind = "tcp"
    <2>1. /\ mVector = <<>> /\ mIndexBegin = 0 /\ mIndexEnd = 0 /\ mNextMessage = O!FirstMessage(FALSE)
          /\ header = O!FirstMessage(FALSE) /\ written = <<>>
      BY <1>1, <1>3, <1>9 DEF O!InHeader
    <2>2. mNextMessage \in OutMessage /\ header \in OutMessage
      BY <1>4, <2>1
    <2>3. OutType
      <3>1. /\ mVector \in Seq(OutByte) /\ Len(mVector) <= MaxVector /\ written \in Seq(OutByte)
            /\ mIndexBegin \in Nat /\ mIndexBegin <= MaxVector /\ mIndexEnd \in 0 .. Len(mVector)
        BY <1>5, <2>1
      <3> QED
        BY <1>2, <1>7, <2>2, <3>1, Zenon DEF OutType
    <2>4. OutHolds
      BY <2>1 DEF OutHolds
    <2>5. OutUdp /\ OutNumbers /\ OutHeaders
      BY <1>9 DEF OutUdp, OutNumbers, OutHeaders
    <2> QED
      BY <1>6, <1>10, <2>3, <2>4, <2>5 DEF OutInv
  <1> QED
    BY <1>2, <1>8, <1>9

\* receiveData returns a datagram that was sent, or an error: a header cannot be
\* read from what is shorter.
LEMMA ReceiveKeeps ==
  ASSUME OutType, OutUdp, OutReceived,
         NEW data \in {sent[i].data : i \in DOMAIN sent} \cup O!ForeignData, O!ReceiveData(data)
  PROVE  OutReceived'
  <1>1. PICK d : d = IF "error" \in DOMAIN O!ReadFrom(data) THEN <<"ParseError">> ELSE data
    OBVIOUS
  <1>2. kind = "udp" /\ received' = Append(received, d) /\ kind' = kind /\ sent' = sent
    BY <1>1, Zenon DEF O!ReceiveData, O!output
  <1>3. sent \in Seq([data : Seq(OutByte), message : OutMessage])
    BY DEF OutType
  <1>4. d = <<"ParseError">> \/ \E j \in 1 .. Len(sent) : d = sent[j].data
    <2>1. CASE data \in O!ForeignData
      <3>1. Len(data) < 4
        <4>1. data = <<>> \/ data = <<1, 0, 1>>
          BY <2>1 DEF O!ForeignData
        <4>2. Len(<<>>) = 0 /\ Len(<<1, 0, 1>>) = 3
          OBVIOUS
        <4>3. Len(data) = 0 \/ Len(data) = 3
          BY <4>1, <4>2, Zenon
        <4> QED
          BY <4>3
      <3>2. O!ReadFrom(data) = [error |-> "NotEnoughData"]
        BY <3>1 DEF O!ReadFrom
      <3>3. "error" \in DOMAIN O!ReadFrom(data)
        BY <3>2
      <3> QED
        BY <1>1, <3>3
    <2>2. CASE data \notin O!ForeignData
      <3>1. PICK j \in DOMAIN sent : data = sent[j].data
        BY <2>2
      <3>2. j \in 1 .. Len(sent)
        BY <1>3
      <3> QED
        BY <1>1, <3>1, <3>2, Zenon
    <2> QED
      BY <2>1, <2>2
  <1>5. PICK W : W = Seq(OutByte) \cup {<<"ParseError">>}
    OBVIOUS
  <1>6. received \in Seq(W)
    BY <1>5 DEF OutReceived
  <1>7. d \in W
    <2>1. ASSUME NEW j \in 1 .. Len(sent) PROVE sent[j].data \in Seq(OutByte)
      <3>1. sent[j] \in [data : Seq(OutByte), message : OutMessage]
        BY <1>3, ElementOfSeq
      <3> QED
        BY <3>1
    <2> QED
      BY <1>4, <1>5, <2>1, Zenon
  <1>8. PICK n \in Nat : n = Len(received)
    BY <1>6
  <1>9. /\ received' \in Seq(W) /\ Len(received') = n + 1 /\ received'[n + 1] = d
        /\ \A i \in 1 .. n : received'[i] = received[i]
    BY <1>2, <1>6, <1>7, <1>8, AppendProperties
  <1>10. ASSUME NEW i \in 1 .. n + 1
         PROVE  received'[i] = <<"ParseError">> \/ \E j \in 1 .. Len(sent) : received'[i] = sent[j].data
    <2>1. CASE i = n + 1
      BY <1>4, <1>9, <2>1, Zenon
    <2>2. CASE i # n + 1
      <3>1. i \in 1 .. n
        BY <2>2
      <3>2. received[i] = <<"ParseError">> \/ \E j \in 1 .. Len(sent) : received[i] = sent[j].data
        BY <1>2, <1>8, <3>1 DEF OutReceived
      <3> QED
        BY <1>9, <3>1, <3>2, Zenon
    <2> QED
      BY <2>1, <2>2
  <1> QED
    BY <1>2, <1>5, <1>9, <1>10 DEF OutReceived

\* The invariant of the output streams is kept by every step.
LEMMA OutStep == ASSUME OutInv, [O!Next]_(O!vars) PROVE OutInv'
  <1>1. ASSUME NEW f \in Fields, O!WriteSends(f) PROVE OutInv'
    <2>1. O!SendAndPut(O!BigEndianWriter(f)) /\ kind' = kind /\ mAutoSendDataSize' = mAutoSendDataSize
          /\ received' = received
      BY <1>1 DEF O!WriteSends
    <2> QED
      BY <2>1, FieldBytesAre, SendKeeps
  <1>2. CASE O!Sync
    <2>1. O!SendAndPut(<<>>) /\ kind' = kind /\ mAutoSendDataSize' = mAutoSendDataSize /\ received' = received
      BY <1>2 DEF O!Sync
    <2>2. <<>> \in Seq(OutByte)
      OBVIOUS
    <2> QED
      BY <2>1, <2>2, SendKeeps
  <1>3. ASSUME kind' = kind, UNCHANGED O!output, UNCHANGED O!history, OutReceived' PROVE OutInv'
    <2>1. /\ kind' = kind /\ mVector' = mVector /\ mIndexBegin' = mIndexBegin /\ mIndexEnd' = mIndexEnd
          /\ mAutoSendDataSize' = mAutoSendDataSize /\ mNextMessage' = mNextMessage /\ sent' = sent
          /\ header' = header /\ written' = written /\ crossed' = crossed /\ flushed' = flushed /\ overran' = overran
      BY <1>3 DEF O!output, O!history
    <2>2. OutType' /\ OutHolds'
      BY <2>1 DEF OutInv, OutType, OutHolds
    <2>3. WritesInBounds'
      BY <2>1, Zenon DEF OutInv, WritesInBounds, O!WritesInBounds
    <2>4. OutUdp' /\ OutNumbers' /\ OutHeaders'
      BY <2>1 DEF OutInv, OutUdp, OutNumbers, OutHeaders, O!MaxNumber
    <2> QED
      BY <1>3, <2>2, <2>3, <2>4 DEF OutInv
  <1>4. ASSUME NEW data \in {sent[i].data : i \in DOMAIN sent} \cup O!ForeignData, O!ReceiveData(data) PROVE OutInv'
    <2>1. OutReceived'
      BY <1>4, ReceiveKeeps DEF OutInv
    <2>2. kind' = kind /\ UNCHANGED O!output /\ UNCHANGED O!history
      BY <1>4 DEF O!ReceiveData
    <2> QED
      BY <1>3, <2>1, <2>2
  <1>5. CASE UNCHANGED O!vars
    <2>1. kind' = kind /\ UNCHANGED O!output /\ UNCHANGED O!history /\ received' = received
      BY <1>5 DEF O!vars
    <2>2. sent' = sent
      BY <2>1 DEF O!output
    <2>3. OutReceived'
      BY <2>1, <2>2 DEF OutInv, OutReceived
    <2> QED
      BY <1>3, <2>1, <2>3
  <1> QED
    BY <1>1, <1>2, <1>4, <1>5, WriteFitsKeeps, WriteExpandsKeeps DEF O!Next

\* WritesInBounds for every set of fields and sizes: outside of a segment whose
\* indexes have crossed, or that expand sent, there is room for every field
\* (ExtendedVector.hpp, expand; FieldWriter.hpp, writeT).
THEOREM OutputAlwaysInBounds == O!Spec => []WritesInBounds
  <1>1. OutInv => WritesInBounds
    BY DEF OutInv
  <1>2. O!Init => OutInv
    BY OutStart
  <1>3. OutInv /\ [O!Next]_(O!vars) => OutInv'
    BY OutStep
  <1> QED
    BY <1>1, <1>2, <1>3, PTL DEF O!Spec

\* SegmentHoldsWrites for every set of fields and sizes: neither an expansion nor
\* the bytes of the segment before come between the fields of a segment
\* (ExtendedVector.hpp, expand; UdpStream.cpp and TcpStream, sendCurrentSegment).
THEOREM OutputAlwaysHoldsWrites == O!Spec => []SegmentHoldsWrites
  <1>1. OutInv => SegmentHoldsWrites
    <2> SUFFICES ASSUME OutInv, ~overran PROVE mIndexBegin = Len(written) /\ O!IsPrefix(written, mVector)
      BY DEF SegmentHoldsWrites, O!SegmentHoldsWrites
    <2>1. /\ mIndexBegin = Len(written) /\ Len(written) <= Len(mVector)
          /\ \A i \in 1 .. Len(written) : mVector[i] = written[i]
      BY DEF OutInv, OutHolds
    <2>2. written \in Seq(OutByte) /\ mVector \in Seq(OutByte)
      BY DEF OutInv, OutType
    <2>3. SubSeq(written, 1, Len(written)) = SubSeq(mVector, 1, Len(written))
      <3>1. PICK n \in Nat : n = Len(written)
        BY <2>2
      <3>2. SubSeq(written, 1, n) = [i \in 1 .. n |-> written[i]]
        BY <2>2, <3>1
      <3>3. SubSeq(mVector, 1, n) = [i \in 1 .. n |-> mVector[i]]
        BY <2>1, <2>2, <3>1
      <3> QED
        BY <2>1, <3>1, <3>2, <3>3
    <2> QED
      BY <2>1, <2>3 DEF O!IsPrefix
  <1>2. O!Init => OutInv
    BY OutStart
  <1>3. OutInv /\ [O!Next]_(O!vars) => OutInv'
    BY OutStep
  <1> QED
    BY <1>1, <1>2, <1>3, PTL DEF O!Spec

\* NumbersRepeatAfterSync for every width of a number: full segments are numbered
\* in order, and only one that was not full gives its number to the next
\* (UdpStream.cpp, sendCurrentSegment and createNewSegment).
THEOREM NumbersAlwaysRepeatAfterSync == O!Spec => []NumbersRepeatAfterSync
  <1>1. OutInv => NumbersRepeatAfterSync
    <2> SUFFICES ASSUME OutInv, kind = "udp", Len(sent) < O!MaxNumber, NEW i \in DOMAIN sent, NEW j \in DOMAIN sent,
                        i < j, sent[i].message.messageNumber = sent[j].message.messageNumber
                 PROVE  mAutoSendDataSize > Len(sent[i].data)
      BY DEF NumbersRepeatAfterSync, O!NumbersRepeatAfterSync
    <2>1. i \in 1 .. Len(sent) /\ j \in 1 .. Len(sent) /\ mAutoSendDataSize \in Nat
      BY DEF OutInv, OutType
    <2>2. Len(sent[i].data) = 4
      BY <2>1 DEF OutInv, OutUdp
    <2>3. ~(mAutoSendDataSize <= 4)
      <3> SUFFICES ASSUME mAutoSendDataSize <= 4 PROVE FALSE
        OBVIOUS
      <3>1. sent[i].message.messageNumber = i - 1 /\ sent[j].message.messageNumber = j - 1
        BY <2>1 DEF OutInv, OutNumbers
      <3>2. i - 1 = j - 1
        BY <3>1
      <3> QED
        BY <2>1, <3>2
    <2> QED
      BY <2>1, <2>2, <2>3
  <1>2. O!Init => OutInv
    BY OutStart
  <1>3. OutInv /\ [O!Next]_(O!vars) => OutInv'
    BY OutStep
  <1> QED
    BY <1>1, <1>2, <1>3, PTL DEF O!Spec

\* The fold of readT, as the function it iterates.
FoldOf(s) ==
  CHOOSE g : g = [t \in SUBSET DOMAIN s |->
                    IF t = {} THEN 0 ELSE g[t \ {O!Max(t)}] * ByteValues + s[O!Max(t)]]

LEMMA ReaderFolds == ASSUME NEW s PROVE O!BigEndianValueReader(s) = FoldOf(s)[DOMAIN s]
  BY Zenon DEF O!BigEndianValueReader, O!FoldLeft, O!MapThenFoldSet, FoldOf

\* readT of two bytes: the fold has four sets of indexes to go through.
LEMMA ReadTwoBytes ==
  ASSUME NEW s \in Seq(Nat), Len(s) = 2
  PROVE  O!BigEndianValueReader(s) = s[1] * ByteValues + s[2]
  <1>1. DOMAIN s = {1, 2} /\ s[1] \in Nat /\ s[2] \in Nat /\ ByteValues \in Nat
    <2>1. DOMAIN s = 1 .. 2 /\ 1 .. 2 = {1, 2}
      OBVIOUS
    <2>2. s[1] \in Nat /\ s[2] \in Nat
      BY <2>1, ElementOfSeq
    <2> QED
      BY <2>1, <2>2, OutputAssumption
  <1>2. O!Max({1}) = 1 /\ O!Max({2}) = 2 /\ O!Max({1, 2}) = 2
    BY DEF O!Max
  <1>3. \A t \in SUBSET {1, 2} : t = {} \/ t = {1} \/ t = {2} \/ t = {1, 2}
    OBVIOUS
  <1>4. {1} \ {1} = {} /\ {2} \ {2} = {} /\ {1, 2} \ {2} = {1}
    OBVIOUS
  <1>5. PICK a, b, c : a = 0 * ByteValues + s[1] /\ b = 0 * ByteValues + s[2] /\ c = a * ByteValues + s[2]
    OBVIOUS
  <1>6. PICK g : g = [t \in SUBSET {1, 2} |-> IF t = {} THEN 0 ELSE IF t = {1} THEN a ELSE IF t = {2} THEN b ELSE c]
    OBVIOUS
  <1>7. {1} # {} /\ {2} # {} /\ {1, 2} # {} /\ {2} # {1} /\ {1, 2} # {1} /\ {1, 2} # {2}
    <2>1. 1 \in {1, 2} /\ 1 \notin {2} /\ 2 \in {1, 2} /\ 2 \notin {1} /\ 1 \in {1} /\ 2 \in {2}
      OBVIOUS
    <2> QED
      BY <2>1, Zenon
  <1>8. {} \in SUBSET {1, 2} /\ {1} \in SUBSET {1, 2} /\ {2} \in SUBSET {1, 2} /\ {1, 2} \in SUBSET {1, 2}
    OBVIOUS
  <1>9. g[{}] = 0 /\ g[{1}] = a /\ g[{2}] = b /\ g[{1, 2}] = c
    BY <1>6, <1>7, <1>8, Zenon
  <1>10. ASSUME NEW t \in SUBSET {1, 2}
         PROVE  g[t] = IF t = {} THEN 0 ELSE g[t \ {O!Max(t)}] * ByteValues + s[O!Max(t)]
    <2>1. CASE t = {}
      BY <1>9, <2>1, Zenon
    <2>2. CASE t = {1}
      BY <1>2, <1>4, <1>5, <1>7, <1>9, <2>2, Zenon
    <2>3. CASE t = {2}
      BY <1>2, <1>4, <1>5, <1>7, <1>9, <2>3, Zenon
    <2>4. CASE t = {1, 2}
      <3>1. O!Max(t) = 2 /\ t \ {2} = {1} /\ t # {} /\ g[t] = c
        BY <1>2, <1>4, <1>7, <1>9, <2>4, Zenon
      <3>2. g[t \ {O!Max(t)}] = a
        BY <1>9, <3>1, Zenon
      <3> QED
        BY <1>5, <3>1, <3>2, Zenon
    <2> QED
      BY <1>3, <2>1, <2>2, <2>3, <2>4, Zenon
  <1>11. g = [t \in SUBSET DOMAIN s |-> IF t = {} THEN 0 ELSE g[t \ {O!Max(t)}] * ByteValues + s[O!Max(t)]]
    <2>1. g = [t \in SUBSET {1, 2} |-> g[t]]
      BY <1>6
    <2>2. g = [t \in SUBSET {1, 2} |-> IF t = {} THEN 0 ELSE g[t \ {O!Max(t)}] * ByteValues + s[O!Max(t)]]
      BY <1>10, <2>1, Zenon
    <2> QED
      BY <1>1, <2>2, Zenon
  <1>12. PICK f : f = FoldOf(s)
    OBVIOUS
  <1>13. f = [t \in SUBSET DOMAIN s |-> IF t = {} THEN 0 ELSE f[t \ {O!Max(t)}] * ByteValues + s[O!Max(t)]]
    BY <1>11, <1>12, Zenon DEF FoldOf
  <1>14. \A t \in SUBSET {1, 2} : f[t] = IF t = {} THEN 0 ELSE f[t \ {O!Max(t)}] * ByteValues + s[O!Max(t)]
    BY <1>1, <1>13, Zenon
  <1>15. f[{}] = 0 /\ f[{1}] = f[{}] * ByteValues + s[1] /\ f[{1, 2}] = f[{1}] * ByteValues + s[2]
    <2>1. f[{}] = 0
      BY <1>8, <1>14, Zenon
    <2>2. f[{1}] = f[{1} \ {O!Max({1})}] * ByteValues + s[O!Max({1})]
      BY <1>7, <1>8, <1>14, Zenon
    <2>3. f[{1, 2}] = f[{1, 2} \ {O!Max({1, 2})}] * ByteValues + s[O!Max({1, 2})]
      BY <1>7, <1>8, <1>14, Zenon
    <2>4. f[{1}] = f[{}] * ByteValues + s[1]
      BY <1>2, <1>4, <2>2, Zenon
    <2>5. f[{1, 2}] = f[{1}] * ByteValues + s[2]
      BY <1>2, <1>4, <2>3, Zenon
    <2> QED
      BY <2>1, <2>4, <2>5
  <1>16. f[{1}] = s[1]
    BY <1>1, <1>15
  <1>17. O!BigEndianValueReader(s) = f[{1, 2}]
    BY <1>1, <1>12, ReaderFolds, Zenon
  <1> QED
    BY <1>15, <1>16, <1>17, Zenon

\* The two bytes of a number of 16 bits are its digits.
LEMMA DigitsOf ==
  ASSUME NEW x \in OutNumber
  PROVE  /\ (x \div ByteValues) % ByteValues \in Nat /\ x % ByteValues \in Nat
         /\ ((x \div ByteValues) % ByteValues) * ByteValues + (x % ByteValues) = x
  <1>1. PICK b \in Nat \ {0} : b = ByteValues
    BY OutputAssumption
  <1>2. x \in Nat /\ x < b * b
    BY <1>1 DEF OutNumber
  <1>3. PICK q \in Nat, r \in 0 .. b - 1 : q = x \div b /\ r = x % b /\ x = b * q + r
    <2>1. x \div b \in Nat
      BY <1>2
    <2>2. x % b \in 0 .. b - 1
      BY <1>2
    <2>3. x = b * (x \div b) + (x % b)
      BY <1>2
    <2> QED
      BY <2>1, <2>2, <2>3
  <1>4. q < b
    <2> SUFFICES ASSUME q >= b PROVE FALSE
      OBVIOUS
    <2>1. PICK d \in Nat : q = b + d
      <3>1. q - b \in Nat /\ q = b + (q - b)
        OBVIOUS
      <3> QED
        BY <3>1
    <2>2. b * q = b * b + b * d /\ b * d \in Nat
      BY <2>1
    <2> QED
      BY <1>2, <1>3, <2>2
  <1>5. q % b = q
    BY <1>4
  <1>6. b * q = q * b
    OBVIOUS
  <1>7. x \div ByteValues = q /\ x % ByteValues = r /\ q % ByteValues = q /\ q * ByteValues + r = x
    BY <1>1, <1>3, <1>5, <1>6, Zenon
  <1> QED
    BY <1>7

\* ReadFrom decodes the header a message was written to.
LEMMA HeaderReadBack ==
  ASSUME NEW m \in OutMessage
  PROVE  O!ReadFrom(HeaderOf(m)) = m
  <1>1. PICK x \in OutNumber, y \in OutNumber : x = m.flags /\ y = m.messageNumber
    BY DEF OutMessage
  <1>2. PICK p \in Nat, q \in Nat :
          /\ p = (x \div ByteValues) % ByteValues /\ q = x % ByteValues /\ p * ByteValues + q = x
    BY DigitsOf
  <1>3. PICK s \in Nat, u \in Nat :
          /\ s = (y \div ByteValues) % ByteValues /\ u = y % ByteValues /\ s * ByteValues + u = y
    BY DigitsOf
  <1>4. PICK h : h = <<p, q, s, u>>
    OBVIOUS
  <1>5. HeaderOf(m) = h
    BY <1>1, <1>2, <1>3, <1>4, Zenon DEF HeaderOf
  <1>6. h \in Seq(Nat) /\ Len(h) = 4 /\ h[1] = p /\ h[2] = q /\ h[3] = s /\ h[4] = u
    BY <1>4
  <1>7. PICK g, k : g = SubSeq(h, 1, 2) /\ k = SubSeq(h, 3, 4)
    OBVIOUS
  <1>8. g \in Seq(Nat) /\ Len(g) = 2 /\ g[1] = p /\ g[2] = q
    BY <1>6, <1>7
  <1>9. k \in Seq(Nat) /\ Len(k) = 2 /\ k[1] = s /\ k[2] = u
    BY <1>6, <1>7
  <1>10. O!BigEndianValueReader(g) = x
    <2>1. O!BigEndianValueReader(g) = g[1] * ByteValues + g[2]
      BY <1>8, ReadTwoBytes
    <2> QED
      BY <1>2, <1>8, <2>1, Zenon
  <1>11. O!BigEndianValueReader(k) = y
    <2>1. O!BigEndianValueReader(k) = k[1] * ByteValues + k[2]
      BY <1>9, ReadTwoBytes
    <2> QED
      BY <1>3, <1>9, <2>1, Zenon
  <1>12. O!ReadFrom(h) = [flags |-> x, messageNumber |-> y]
    <2>1. ~(Len(h) < 4)
      BY <1>6
    <2> QED
      BY <1>7, <1>10, <1>11, <2>1, Zenon DEF O!ReadFrom
  <1>13. m = [flags |-> m.flags, messageNumber |-> m.messageNumber]
    BY DEF OutMessage
  <1> QED
    BY <1>1, <1>5, <1>12, <1>13, Zenon

\* HeaderDecodes for every width of a byte: rewritten or not, the header of a
\* datagram is read back as the message it was written from, and receiveData
\* accepts nothing else (UdpStream.cpp, sendCurrentSegment; UdpMessage.cpp, ReadFrom).
THEOREM HeadersAlwaysDecode == O!Spec => []HeaderDecodes
  <1>1. OutInv => HeaderDecodes
    <2> SUFFICES ASSUME OutInv, kind = "udp"
                 PROVE  /\ \A i \in DOMAIN sent : O!ReadFrom(sent[i].data) = sent[i].message
                        /\ \A i \in DOMAIN received :
                             received[i] # <<"ParseError">> =>
                               \E j \in DOMAIN sent : O!ReadFrom(received[i]) = sent[j].message
      BY DEF HeaderDecodes, O!HeaderDecodes
    <2>1. sent \in Seq([data : Seq(OutByte), message : OutMessage]) /\ DOMAIN sent = 1 .. Len(sent)
      BY DEF OutInv, OutType
    <2>2. received \in Seq(Seq(OutByte) \cup {<<"ParseError">>}) /\ DOMAIN received = 1 .. Len(received)
      BY DEF OutInv, OutReceived
    <2>3. ASSUME NEW i \in DOMAIN sent PROVE O!ReadFrom(sent[i].data) = sent[i].message
      <3>1. sent[i].data = HeaderOf(sent[i].message)
        BY <2>1 DEF OutInv, OutHeaders
      <3>2. sent[i] \in [data : Seq(OutByte), message : OutMessage]
        BY <2>1, ElementOfSeq
      <3>3. sent[i].message \in OutMessage
        BY <3>2
      <3> QED
        BY <3>1, <3>3, HeaderReadBack
    <2>4. ASSUME NEW i \in DOMAIN received, received[i] # <<"ParseError">>
          PROVE  \E j \in DOMAIN sent : O!ReadFrom(received[i]) = sent[j].message
      <3>1. PICK j \in DOMAIN sent : received[i] = sent[j].data
        BY <2>1, <2>2, <2>4 DEF OutInv, OutReceived
      <3> QED
        BY <2>3, <3>1, Zenon
    <2> QED
      BY <2>3, <2>4, Zenon
  <1>2. O!Init => OutInv
    BY OutStart
  <1>3. OutInv /\ [O!Next]_(O!vars) => OutInv'
    BY OutStep
  <1> QED
    BY <1>1, <1>2, <1>3, PTL DEF O!Spec

-----------------------------------------------------------------------------
(* Messages written to a stream and read back from it.                      *)

\* The message being received, and the bytes that follow its type.
Current == messages[Len(messages)]
BodyOf(m) ==
  IF m.type = 8192 THEN <<>>
  ELSE IF m.type = 32800 THEN M!WriteOneT(IDSize, m.threadID)
  ELSE M!WriteOneT(2, Len(m.ids)) \o M!WriteVector(m.ids)

\* The receiver has read every message; or the last one has arrived, behind two
\* zero bytes if the stream is UDP's; or its body is left.
AllRead == Len(outcomes) = Len(messages) /\ type = 0 /\ mReader = <<>>
LastArrived ==
  /\ Len(outcomes) + 1 = Len(messages) /\ type = 0
  /\ framing = "tcp" => mReader = M!WriteToWriter(Current)
  /\ framing = "udp" => mReader \in Seq(Nat) /\ Len(mReader) >= 2 /\ mReader[1] = 0 /\ mReader[2] = 0
BodyLeft ==
  /\ Len(outcomes) + 1 = Len(messages) /\ type = Current.type
  /\ reader = "big" /\ mReader = BodyOf(Current)

\* Nothing is known once a message was cut or rejected.
MessageInv ==
  /\ reader \in {"little", "big"} /\ validTypes \in {{}, M!Type} /\ framing \in {"tcp", "udp"}
  /\ messages \in Seq(M!Message)
  /\ ~desynced =>
       /\ outcomes \in Seq(M!Message) /\ \A i \in 1 .. Len(outcomes) : outcomes[i] = messages[i]
       /\ AllRead \/ LastArrived \/ BodyLeft

\* The values of a byte, as a name: Zenon counts up to a number.
Radix == 256

\* The fold of readT, as the function it iterates over the sets of indexes.
NumberStep(g, s, n) ==
  g = [t \in SUBSET (1 .. n) |-> IF t = {} THEN 0 ELSE g[t \ {M!Max(t)}] * Radix + s[M!Max(t)]]

LEMMA NumberFolds ==
  ASSUME NEW s, NEW n, DOMAIN s = 1 .. n
  PROVE  M!Number(s) = (CHOOSE g : NumberStep(g, s, n))[1 .. n]
  BY Zenon DEF M!Number, M!FoldLeft, M!MapThenFoldSet, NumberStep, Radix

\* The greatest index of a set.
LEMMA MaxIs ==
  ASSUME NEW n \in Nat, NEW t \in SUBSET (1 .. n), n \in t
  PROVE  M!Max(t) = n
  <1>1. n \in t /\ \A y \in t : n >= y
    OBVIOUS
  <1>2. \A x \in t : (\A y \in t : x >= y) => x = n
    OBVIOUS
  <1> QED
    BY <1>1, <1>2, Zenon DEF M!Max

\* There is a function that the fold iterates: one more index adds the sets that
\* contain it, whose greatest index it is.
LEMMA NumberExists ==
  ASSUME NEW s, NEW n \in Nat
  PROVE  \E g : NumberStep(g, s, n)
  <1> DEFINE X == {k \in Nat : ~ \E g : NumberStep(g, s, k)}
  <1>1. ASSUME NEW k \in X, \A j \in X : k <= j PROVE FALSE
    <2>1. CASE k = 0
      <3>1. 1 .. 0 = {} /\ SUBSET {} = {{}}
        OBVIOUS
      <3>2. PICK g : g = [t \in {{}} |-> 0]
        OBVIOUS
      <3>3. g = [t \in SUBSET (1 .. 0) |-> IF t = {} THEN 0 ELSE g[t \ {M!Max(t)}] * Radix + s[M!Max(t)]]
        BY <3>1, <3>2, Zenon
      <3> QED
        BY <1>1, <2>1, <3>3, Zenon DEF NumberStep
    <2>2. CASE k # 0
      <3>1. k \in Nat /\ k - 1 \in Nat /\ ~(k <= k - 1) /\ (k - 1) + 1 = k
        BY <2>2
      <3>2. PICK f : NumberStep(f, s, k - 1)
        BY <1>1, <3>1
      <3>3. PICK g : g = [t \in SUBSET (1 .. k) |-> IF k \in t THEN f[t \ {k}] * Radix + s[k] ELSE f[t]]
        OBVIOUS
      <3>4. \A t \in SUBSET (1 .. k) : t \ {k} \in SUBSET (1 .. k - 1) /\ t \ {k} \in SUBSET (1 .. k) /\ k \notin t \ {k}
        BY <3>1
      <3>5. \A t \in SUBSET (1 .. k) : k \notin t =>
              t \in SUBSET (1 .. k - 1) /\ \A x : t \ {x} \in SUBSET (1 .. k) /\ k \notin t \ {x}
        <4> SUFFICES ASSUME NEW t \in SUBSET (1 .. k), k \notin t, NEW x
                     PROVE  t \in SUBSET (1 .. k - 1) /\ t \ {x} \in SUBSET (1 .. k) /\ k \notin t \ {x}
          OBVIOUS
        <4>1. t \in SUBSET (1 .. k - 1)
          BY <3>1
        <4> QED
          BY <4>1, Zenon
      <3>6. ASSUME NEW t \in SUBSET (1 .. k)
            PROVE  g[t] = IF t = {} THEN 0 ELSE g[t \ {M!Max(t)}] * Radix + s[M!Max(t)]
        <4>1. CASE k \in t
          <5>1. M!Max(t) = k /\ t # {}
            BY <3>1, <4>1, MaxIs
          <5>2. g[t] = f[t \ {k}] * Radix + s[k]
            BY <3>3, <4>1, Zenon
          <5>3. g[t \ {k}] = f[t \ {k}]
            BY <3>3, <3>4, Zenon
          <5> QED
            BY <5>1, <5>2, <5>3, Zenon
        <4>2. CASE k \notin t
          <5>1. g[t] = f[t] /\ t \in SUBSET (1 .. k - 1)
            BY <3>3, <3>5, <4>2, Zenon
          <5>2. f[t] = IF t = {} THEN 0 ELSE f[t \ {M!Max(t)}] * Radix + s[M!Max(t)]
            BY <3>2, <5>1, Zenon DEF NumberStep
          <5>3. g[t \ {M!Max(t)}] = f[t \ {M!Max(t)}]
            BY <3>3, <3>5, <4>2, Zenon
          <5> QED
            BY <5>1, <5>2, <5>3, Zenon
        <4> QED
          BY <4>1, <4>2
      <3>7. g = [t \in SUBSET (1 .. k) |-> g[t]]
        BY <3>3
      <3>8. NumberStep(g, s, k)
        BY <3>6, <3>7, Zenon DEF NumberStep
      <3> QED
        BY <1>1, <3>8
    <2> QED
      BY <2>1, <2>2
  <1>2. X = {}
    <2> HIDE DEF X
    <2>1. X \in SUBSET Nat
      BY DEF X
    <2> QED
      BY <1>1, <2>1, LeastNatural
  <1> QED
    BY <1>2

\* What readT makes of a field, from what it has made of each first part of it.
LEMMA NumberIs ==
  ASSUME NEW s, NEW n \in Nat, DOMAIN s = 1 .. n, NEW v, v[0] = 0,
         \A k \in 1 .. n : v[k] = v[k - 1] * Radix + s[k]
  PROVE  M!Number(s) = v[n]
  <1>1. PICK f : NumberStep(f, s, n) /\ M!Number(s) = f[1 .. n]
    <2>1. NumberStep(CHOOSE g : NumberStep(g, s, n), s, n)
      BY NumberExists, Zenon
    <2> QED
      BY <2>1, NumberFolds, Zenon
  <1>2. \A t \in SUBSET (1 .. n) : f[t] = IF t = {} THEN 0 ELSE f[t \ {M!Max(t)}] * Radix + s[M!Max(t)]
    BY <1>1, Zenon DEF NumberStep
  <1>3. ASSUME NEW k \in 1 .. n PROVE f[1 .. k] = f[1 .. k - 1] * Radix + s[k]
    <2>1. /\ k \in Nat /\ 1 .. k \in SUBSET (1 .. k) /\ k \in 1 .. k /\ 1 .. k \in SUBSET (1 .. n)
          /\ 1 .. k # {} /\ (1 .. k) \ {k} = 1 .. k - 1
      <3>1. k \in Nat /\ k \in 1 .. k
        OBVIOUS
      <3>2. 1 .. k \in SUBSET (1 .. k) /\ 1 .. k # {}
        BY <3>1, Zenon
      <3>3. 1 .. k \in SUBSET (1 .. n)
        OBVIOUS
      <3>4. (1 .. k) \ {k} = 1 .. k - 1
        OBVIOUS
      <3> QED
        BY <3>1, <3>2, <3>3, <3>4
    <2>2. M!Max(1 .. k) = k
      BY <2>1, MaxIs
    <2>3. f[1 .. k] = f[(1 .. k) \ {M!Max(1 .. k)}] * Radix + s[M!Max(1 .. k)]
      BY <1>2, <2>1, Zenon
    <2> QED
      BY <2>1, <2>2, <2>3, Zenon
  <1>4. f[1 .. 0] = v[0]
    <2>1. 1 .. 0 = {} /\ {} \in SUBSET (1 .. n)
      OBVIOUS
    <2> QED
      BY <1>2, <2>1, Zenon
  <1> DEFINE X == {k \in 0 .. n : f[1 .. k] # v[k]}
  <1>5. ASSUME NEW k \in X, \A j \in X : k <= j PROVE FALSE
    <2>1. k \in 0 .. n /\ f[1 .. k] # v[k] /\ k # 0
      BY <1>4, <1>5
    <2>2. k - 1 \in 0 .. n /\ k \in 1 .. n /\ ~(k <= k - 1)
      BY <2>1
    <2>3. f[1 .. k - 1] = v[k - 1]
      BY <1>5, <2>2
    <2> QED
      BY <1>3, <2>1, <2>2, <2>3, Zenon
  <1>6. X = {}
    <2> HIDE DEF X
    <2>1. X \in SUBSET Nat
      BY DEF X
    <2> QED
      BY <1>5, <2>1, LeastNatural
  <1>7. n \in 0 .. n
    OBVIOUS
  <1> QED
    BY <1>1, <1>6, <1>7

\* Dividing by 256 p is dividing by p and then by 256.
LEMMA DivideTwice ==
  ASSUME NEW x \in Nat, NEW p \in Nat \ {0}
  PROVE  x \div (Radix * p) = (x \div p) \div Radix
  <1>1. PICK q \in Nat, r \in Nat : q = x \div p /\ x = p * q + r /\ r < p
    <2>1. x \div p \in Nat /\ x % p \in Nat /\ x % p < p /\ x = p * (x \div p) + (x % p)
      OBVIOUS
    <2> QED
      BY <2>1
  <1>2. PICK a \in Nat, b \in 0 .. 255 : a = q \div 256 /\ q = 256 * a + b
    OBVIOUS
  <1>3. PICK d \in Nat : d = 256 * p
    OBVIOUS
  <1>4. PICK c \in Nat, e \in Nat : c = x \div d /\ x = d * c + e /\ e < d
    <2>0. d > 0
      BY <1>3
    <2>1. x \div d \in Nat /\ x % d \in Nat /\ x % d < d /\ x = d * (x \div d) + (x % d)
      BY <2>0
    <2> QED
      BY <2>1
  <1>5. PICK y \in Nat : y = p * b + r /\ x = d * a + y /\ y < d
    <2>1. p * q = 256 * (p * a) + p * b /\ d * a = 256 * (p * a) /\ p * a \in Nat /\ p * b \in Nat
      BY <1>2, <1>3
    <2>2. p * b <= p * 255 /\ p * 255 = 255 * p
      BY <1>2
    <2>3. p * b + r \in Nat /\ x = d * a + (p * b + r) /\ p * b + r < d
      BY <1>1, <1>3, <2>1, <2>2
    <2> QED
      BY <2>3
  <1>6. c = a
    <2>1. ASSUME NEW i \in Nat, NEW j \in Nat, NEW k \in Nat, NEW l \in Nat,
                 d * i + k = d * j + l, k < d, i < j
          PROVE  FALSE
      <3>1. PICK h \in Nat : j = i + 1 + h
        <4>1. j - i - 1 \in Nat /\ j = i + 1 + (j - i - 1)
          BY <2>1
        <4> QED
          BY <4>1
      <3>2. d * j = d * i + d + d * h /\ d * h \in Nat /\ d * i \in Nat
        BY <3>1
      <3> QED
        BY <2>1, <3>2
    <2>2. ~(c < a)
      BY <1>4, <1>5, <2>1
    <2>3. ~(a < c)
      BY <1>4, <1>5, <2>1
    <2> QED
      BY <2>2, <2>3
  <1>7. x \div (256 * p) = (x \div p) \div 256
    BY <1>1, <1>2, <1>3, <1>4, <1>6
  <1> QED
    BY ONLY <1>7 DEF Radix

\* The powers of 256 that a field of n bytes goes through.
Powers(n) ==
  /\ Radix ^ 0 = 1
  /\ \A i \in 0 .. n - 1 : Radix ^ i \in Nat \ {0} /\ Radix ^ (i + 1) = Radix * Radix ^ i

LEMMA PowersHold == Powers(2) /\ Powers(IDSize)
  <1>1. 0 .. 2 - 1 = {0, 1}
    OBVIOUS
  <1> QED
    BY ONLY <1>1, MessageAssumption DEF Powers, Radix

\* The bytes of a number, the last one first.
LEMMA WriteOneIs ==
  ASSUME NEW n \in Nat, Powers(n), NEW x \in Nat
  PROVE  /\ M!WriteOneT(n, x) \in Seq(Nat) /\ Len(M!WriteOneT(n, x)) = n
         /\ DOMAIN M!WriteOneT(n, x) = 1 .. n
         /\ \A i \in 1 .. n : M!WriteOneT(n, x)[i] = (x \div Radix ^ (n - i)) % Radix
         /\ \A i \in 1 .. n : M!WriteOneT(n, x)[i] \in Nat
  <1>1. PICK w : w = M!LittleBytes(n, x)
    OBVIOUS
  <1>2. ASSUME NEW i \in 1 .. n PROVE w[i] = (x \div Radix ^ (i - 1)) % Radix /\ w[i] \in Nat
    <2>1. w[i] = (x \div Radix ^ (i - 1)) % Radix
      BY <1>1 DEF M!LittleBytes, Radix
    <2>2. i - 1 \in 0 .. n - 1
      OBVIOUS
    <2>3. PICK p \in Nat \ {0} : p = Radix ^ (i - 1)
      BY <2>2 DEF Powers
    <2>4. x \div p \in Nat
      OBVIOUS
    <2>5. (x \div p) % Radix \in Nat
      BY <2>4 DEF Radix
    <2> QED
      BY <2>1, <2>3, <2>5, Zenon
  <1>3. w \in Seq(Nat) /\ Len(w) = n
    <2>1. w = [i \in 1 .. n |-> w[i]]
      BY <1>1 DEF M!LittleBytes
    <2>2. \A i \in 1 .. n : w[i] \in Nat
      BY <1>2
    <2> QED
      BY <2>1, <2>2
  <1>4. PICK z : z = M!WriteOneT(n, x) /\ z = [i \in 1 .. n |-> w[(n - i) + 1]]
    <2>1. M!WriteOneT(n, x) = [i \in 1 .. Len(w) |-> w[(Len(w) - i) + 1]]
      BY <1>1, Zenon DEF M!WriteOneT, M!Reverse
    <2> QED
      BY <1>3, <2>1, Zenon
  <1>5. ASSUME NEW i \in 1 .. n PROVE z[i] = (x \div Radix ^ (n - i)) % Radix /\ z[i] \in Nat
    <2>1. (n - i) + 1 \in 1 .. n /\ ((n - i) + 1) - 1 = n - i
      OBVIOUS
    <2>2. z[i] = w[(n - i) + 1]
      BY <1>4, Zenon
    <2>3. w[(n - i) + 1] = (x \div Radix ^ (((n - i) + 1) - 1)) % Radix /\ w[(n - i) + 1] \in Nat
      BY <1>2, <2>1, Zenon
    <2> QED
      BY <2>1, <2>2, <2>3, Zenon
  <1>6. z = [i \in 1 .. n |-> z[i]] /\ \A i \in 1 .. n : z[i] \in Nat
    BY <1>4, <1>5
  <1>7. z \in Seq(Nat) /\ Len(z) = n /\ DOMAIN z = 1 .. n
    BY <1>6
  <1>8. /\ \A i \in 1 .. n : z[i] = (x \div Radix ^ (n - i)) % Radix
        /\ \A i \in 1 .. n : z[i] \in Nat
    BY <1>5, Zenon
  <1>9. z = M!WriteOneT(n, x)
    BY <1>4, Zenon
  <1>10. ASSUME NEW i \in 1 .. n
         PROVE  M!WriteOneT(n, x)[i] = (x \div Radix ^ (n - i)) % Radix /\ M!WriteOneT(n, x)[i] \in Nat
    BY <1>8, <1>9, Zenon
  <1>11. M!WriteOneT(n, x) \in Seq(Nat) /\ Len(M!WriteOneT(n, x)) = n /\ DOMAIN M!WriteOneT(n, x) = 1 .. n
    BY <1>7, <1>9, Zenon
  <1> QED
    BY <1>10, <1>11, Zenon

\* readT returns the number that writeT was given.
LEMMA NumberBack ==
  ASSUME NEW n \in Nat \ {0}, Powers(n), NEW x \in 0 .. Radix ^ n - 1
  PROVE  M!Number(M!WriteOneT(n, x)) = x
  <1>0. x \in Nat /\ x < Radix ^ n /\ n - 1 \in 0 .. n - 1 /\ (n - 1) + 1 = n
    <2>1. n - 1 \in 0 .. n - 1 /\ (n - 1) + 1 = n
      OBVIOUS
    <2>2. Radix ^ (n - 1) \in Nat \ {0} /\ Radix ^ ((n - 1) + 1) = Radix * Radix ^ (n - 1)
      BY <2>1, Zenon DEF Powers
    <2>3. PICK p \in Nat \ {0} : Radix ^ n = Radix * p
      BY <2>1, <2>2, Zenon
    <2>4. PICK q \in Nat : q = Radix ^ n
      <3>1. Radix * p \in Nat
        BY ONLY p \in Nat DEF Radix
      <3> QED
        BY <2>3, <3>1, Zenon
    <2> QED
      BY <2>1, <2>4
  <1>1. \A i \in 0 .. n : Radix ^ i \in Nat \ {0}
    <2> SUFFICES ASSUME NEW i \in 0 .. n PROVE Radix ^ i \in Nat \ {0}
      OBVIOUS
    <2>1. CASE i \in 0 .. n - 1
      BY <2>1 DEF Powers
    <2>2. CASE i = n
      <3>0. Radix ^ (n - 1) \in Nat \ {0} /\ Radix ^ ((n - 1) + 1) = Radix * Radix ^ (n - 1)
        BY <1>0, Zenon DEF Powers
      <3>1. PICK p \in Nat \ {0} : p = Radix ^ (n - 1) /\ Radix ^ n = Radix * p
        BY <1>0, <3>0, Zenon
      <3>2. Radix * p \in Nat \ {0}
        BY ONLY p \in Nat \ {0} DEF Radix
      <3> QED
        BY <2>2, <3>1, <3>2, Zenon
    <2> QED
      BY <2>1, <2>2
  <1>2. PICK s : s = M!WriteOneT(n, x)
    OBVIOUS
  <1>3. DOMAIN s = 1 .. n /\ \A i \in 1 .. n : s[i] = (x \div Radix ^ (n - i)) % Radix
    <2>1. n \in Nat /\ x \in Nat
      BY <1>0
    <2>2. /\ DOMAIN M!WriteOneT(n, x) = 1 .. n
          /\ \A i \in 1 .. n : M!WriteOneT(n, x)[i] = (x \div Radix ^ (n - i)) % Radix
      BY <2>1, WriteOneIs, Zenon
    <2> QED
      BY <1>2, <2>2, Zenon
  <1>4. PICK v : v = [k \in 0 .. n |-> x \div Radix ^ (n - k)]
    OBVIOUS
  <1>5. v[0] = 0
    <2>1. 0 \in 0 .. n /\ n - 0 = n
      OBVIOUS
    <2>2. v[0] = x \div Radix ^ n
      BY <1>4, <2>1, Zenon
    <2>3. PICK p \in Nat : p = Radix ^ n /\ x < p
      BY <1>0, <1>1
    <2>4. x \div p = 0
      BY <1>0, <2>3
    <2> QED
      BY <2>2, <2>3, <2>4
  <1>6. ASSUME NEW k \in 1 .. n PROVE v[k] = v[k - 1] * Radix + s[k]
    <2>1. /\ k \in 0 .. n /\ k - 1 \in 0 .. n /\ n - k \in 0 .. n - 1 /\ n - (k - 1) = (n - k) + 1
      OBVIOUS
    <2>2. PICK p \in Nat \ {0} : p = Radix ^ (n - k) /\ Radix ^ ((n - k) + 1) = Radix * p
      BY <2>1, Zenon DEF Powers
    <2>3. v[k] = x \div p /\ v[k - 1] = x \div (Radix * p)
      BY <1>4, <2>1, <2>2, Zenon
    <2>4. s[k] = (x \div p) % Radix
      BY <1>3, <2>2, Zenon
    <2>5. x \div (Radix * p) = (x \div p) \div Radix
      BY <1>0, DivideTwice, Zenon
    <2>6. PICK q \in Nat : q = x \div p
      BY <1>0
    <2>7. q = (q \div Radix) * Radix + (q % Radix)
      BY ONLY q \in Nat DEF Radix
    <2> QED
      BY <2>3, <2>4, <2>5, <2>6, <2>7, Zenon
  <1>7. v[n] = x
    <2>1. n \in 0 .. n /\ n - n = 0
      OBVIOUS
    <2>2. v[n] = x \div Radix ^ 0
      BY <1>4, <2>1, Zenon
    <2>3. x \div 1 = x
      BY <1>0
    <2> QED
      BY <2>2, <2>3, Zenon DEF Powers
  <1>8. M!Number(s) = v[n]
    <2>1. n \in Nat /\ DOMAIN s = 1 .. n /\ v[0] = 0
      BY <1>3, <1>5
    <2>2. \A k \in 1 .. n : v[k] = v[k - 1] * Radix + s[k]
      BY <1>6, Zenon
    <2> QED
      BY ONLY <2>1, <2>2, NumberIs
  <1> QED
    BY <1>2, <1>7, <1>8, Zenon

\* The part of a sequence at an offset, by its elements.
LEMMA PartIs ==
  ASSUME NEW b \in Seq(Nat), NEW w \in Seq(Nat), NEW p \in Nat, NEW n \in Nat, Len(w) = n,
         p + n <= Len(b), \A j \in 1 .. n : b[p + j] = w[j]
  PROVE  SubSeq(b, p + 1, p + n) = w
  <1> DEFINE m == p + 1
             e == p + n
             t == SubSeq(b, m, e)
  <1>1. /\ m \in Int /\ e \in Int /\ Len(b) \in Nat /\ (IF m <= e THEN e - m + 1 ELSE 0) = n /\ e - m + 1 = n
        /\ \A i \in m .. e : i \in 1 .. Len(b)
        /\ \A i \in 1 .. n : m + i - 1 = p + i
    <2>1. Len(b) \in Nat
      BY LenProperties
    <2>2. ASSUME NEW i \in m .. e PROVE i \in 1 .. Len(b)
      BY <2>1
    <2>3. ASSUME NEW i \in 1 .. n PROVE m + i - 1 = p + i
      OBVIOUS
    <2>4. m \in Int /\ e \in Int /\ (IF m <= e THEN e - m + 1 ELSE 0) = n /\ e - m + 1 = n
      OBVIOUS
    <2> QED
      BY <2>1, <2>2, <2>3, <2>4
  <1> HIDE DEF m, e
  <1>2. \A i \in m .. e : b[i] \in Nat
    BY <1>1, ElementOfSeq
  <1>3. /\ t \in Seq(Nat) /\ Len(t) = IF m <= e THEN e - m + 1 ELSE 0
        /\ \A i \in 1 .. e - m + 1 : t[i] = b[m + i - 1]
    BY <1>1, <1>2, SubSeqProperties
  <1> HIDE DEF t
  <1>4. Len(t) = n
    BY <1>1, <1>3, Zenon
  <1>5. ASSUME NEW i \in 1 .. Len(t) PROVE t[i] = w[i]
    <2>1. i \in 1 .. n /\ i \in 1 .. e - m + 1
      BY <1>1, <1>4
    <2>2. t[i] = b[m + i - 1] /\ m + i - 1 = p + i
      BY <1>1, <1>3, <2>1
    <2> QED
      BY <2>1, <2>2
  <1>6. t = w
    BY <1>3, <1>4, <1>5, SeqEqual
  <1> QED
    BY <1>6 DEF t, m, e

\* What comes before and after the place where two sequences are put together.
LEMMA JoinParts ==
  ASSUME NEW a \in Seq(Nat), NEW b \in Seq(Nat)
  PROVE  /\ a \o b \in Seq(Nat) /\ Len(a \o b) = Len(a) + Len(b)
         /\ SubSeq(a \o b, 1, Len(a)) = a /\ SubSeq(a \o b, Len(a) + 1, Len(a \o b)) = b
  <1>0. PICK c : c = a \o b
    OBVIOUS
  <1>1. PICK m \in Nat, n \in Nat : c = a \o b /\ m = Len(a) /\ n = Len(b)
    BY <1>0, LenProperties
  <1>2. /\ c \in Seq(Nat) /\ Len(c) = m + n
        /\ \A i \in 1 .. m + n : c[i] = IF i <= m THEN a[i] ELSE b[i - m]
    BY <1>1, ConcatProperties
  <1>3. \A j \in 1 .. m : c[0 + j] = a[j]
    BY <1>2
  <1>4. \A j \in 1 .. n : c[m + j] = b[j]
    BY <1>2
  <1>5. 0 \in Nat /\ 0 + m <= Len(c) /\ m + n <= Len(c) /\ 0 + 1 = 1 /\ 0 + m = m
    BY <1>2
  <1>6. SubSeq(c, 0 + 1, 0 + m) = a
    BY ONLY <1>1, <1>2, <1>3, <1>5, a \in Seq(Nat), PartIs
  <1>7. SubSeq(c, m + 1, m + n) = b
    BY ONLY <1>1, <1>2, <1>4, <1>5, b \in Seq(Nat), PartIs
  <1> QED
    BY <1>1, <1>2, <1>5, <1>6, <1>7, Zenon

\* The loop of FlattenSeq, for parts that are all there.
FlattenStep(f, v, n) == f = [i \in 1 .. n |-> IF i = 1 THEN v[i] ELSE f[i - 1] \o v[i]]

LEMMA FlattenExists ==
  ASSUME NEW v, NEW n \in Nat
  PROVE  \E f : FlattenStep(f, v, n)
  <1> DEFINE X == {k \in Nat : ~ \E f : FlattenStep(f, v, k)}
  <1>1. ASSUME NEW k \in X, \A j \in X : k <= j PROVE FALSE
    <2>1. CASE k = 0
      <3>1. 1 .. 0 = {}
        OBVIOUS
      <3>2. PICK f : f = [i \in {} |-> 0]
        OBVIOUS
      <3>3. f = [i \in 1 .. 0 |-> IF i = 1 THEN v[i] ELSE f[i - 1] \o v[i]]
        BY <3>1, <3>2
      <3> QED
        BY <1>1, <2>1, <3>3, Zenon DEF FlattenStep
    <2>2. CASE k # 0
      <3>1. k \in Nat /\ k - 1 \in Nat /\ ~(k <= k - 1) /\ k \in 1 .. k
        BY <2>2
      <3>2. PICK f : FlattenStep(f, v, k - 1)
        BY <1>1, <3>1
      <3>3. PICK g : g = [i \in 1 .. k |-> IF i = k THEN (IF k = 1 THEN v[k] ELSE f[k - 1] \o v[k]) ELSE f[i]]
        OBVIOUS
      <3>4. ASSUME NEW i \in 1 .. k PROVE g[i] = IF i = 1 THEN v[i] ELSE g[i - 1] \o v[i]
        <4>1. i # 1 => g[i - 1] = f[i - 1]
          <5>1. i # 1 => i - 1 \in 1 .. k /\ i - 1 # k
            OBVIOUS
          <5> QED
            BY <3>3, <5>1, Zenon
        <4>2. CASE i = k
          BY <3>3, <4>1, <4>2, Zenon
        <4>3. CASE i # k
          <5>1. i \in 1 .. k - 1
            BY <4>3
          <5>2. f[i] = IF i = 1 THEN v[i] ELSE f[i - 1] \o v[i]
            BY <3>2, <5>1, Zenon DEF FlattenStep
          <5>3. g[i] = f[i]
            BY <3>3, <4>3, Zenon
          <5> QED
            BY <4>1, <5>2, <5>3, Zenon
        <4> QED
          BY <4>2, <4>3
      <3>5. g = [i \in 1 .. k |-> g[i]]
        BY <3>3
      <3>6. FlattenStep(g, v, k)
        BY <3>4, <3>5, Zenon DEF FlattenStep
      <3> QED
        BY <1>1, <3>6
    <2> QED
      BY <2>1, <2>2
  <1>2. X = {}
    <2> HIDE DEF X
    <2>1. X \in SUBSET Nat
      BY DEF X
    <2> QED
      BY <1>1, <2>1, LeastNatural
  <1> QED
    BY <1>2

\* Where the blocks of a vector start and end.
LEMMA BlockBounds ==
  ASSUME NEW z \in Nat, NEW a \in Nat, NEW i \in Nat, 1 <= a, a <= i, NEW j \in 1 .. z
  PROVE  /\ (a - 1) * z \in Nat /\ i * z \in Nat /\ (i - 1) * z \in Nat
         /\ i * z = (i - 1) * z + z /\ a * z = (a - 1) * z + z
         /\ (a - 1) * z + j \in 1 .. i * z
         /\ a < i => (a - 1) * z + j \in 1 .. (i - 1) * z
  <1>1. PICK d \in Nat : i = a + d
    <2>1. i - a \in Nat /\ i = a + (i - a)
      OBVIOUS
    <2> QED
      BY <2>1
  <1>2. PICK c \in Nat : a = c + 1 /\ a - 1 = c
    OBVIOUS
  <1>3. PICK x \in Nat, y \in Nat : x = c * z /\ y = d * z
    OBVIOUS
  <1>4. a * z = x + z /\ i * z = x + z + y
    BY <1>1, <1>2, <1>3
  <1>5. (a - 1) * z = x /\ (i - 1) * z = x + y
    <2>1. i - 1 = c + d
      BY <1>1, <1>2
    <2> QED
      BY <1>2, <1>3, <2>1
  <1>6. a < i => y >= z
    <2> SUFFICES ASSUME a < i PROVE y >= z
      OBVIOUS
    <2>1. PICK h \in Nat : d = h + 1
      <3>1. d - 1 \in Nat /\ d = (d - 1) + 1
        BY <1>1
      <3> QED
        BY <3>1
    <2>2. y = h * z + z /\ h * z \in Nat
      BY <1>3, <2>1
    <2> QED
      BY <2>2
  <1> HIDE <1>1, <1>2, <1>3
  <1> QED
    BY <1>4, <1>5, <1>6

\* FlattenSeq of blocks of z bytes has each byte at its place.
BlocksIn(s, v, i, z) ==
  /\ s \in Seq(Nat) /\ Len(s) = i * z
  /\ \A a \in 1 .. i : \A j \in 1 .. z : s[(a - 1) * z + j] = v[a][j]

LEMMA BlocksJoined ==
  ASSUME NEW z \in Nat \ {0}, NEW v, NEW i \in Nat \ {0}, NEW s, BlocksIn(s, v, i, z),
         v[i + 1] \in Seq(Nat), Len(v[i + 1]) = z
  PROVE  BlocksIn(s \o v[i + 1], v, i + 1, z)
  <1>1. PICK w \in Seq(Nat) : w = v[i + 1] /\ Len(w) = z
    OBVIOUS
  <1>2. s \in Seq(Nat) /\ Len(s) = i * z
    BY DEF BlocksIn
  <1>3. PICK c : c = s \o w
    OBVIOUS
  <1>4. PICK l \in Nat : l = i * z /\ (i + 1) * z = l + z /\ ((i + 1) - 1) * z = l
    <2>1. i * z \in Nat /\ (i + 1) * z = i * z + z /\ (i + 1) - 1 = i
      OBVIOUS
    <2> QED
      BY <2>1
  <1>5. /\ c \in Seq(Nat) /\ Len(c) = l + z
        /\ \A k \in 1 .. l + z : c[k] = IF k <= l THEN s[k] ELSE w[k - l]
    <2>1. s \in Seq(Nat) /\ Len(s) = l
      BY <1>2, <1>4, Zenon
    <2>2. /\ s \o w \in Seq(Nat) /\ Len(s \o w) = Len(s) + Len(w)
          /\ \A k \in 1 .. Len(s) + Len(w) : (s \o w)[k] = IF k <= Len(s) THEN s[k] ELSE w[k - Len(s)]
      BY ONLY <2>1, w \in Seq(Nat), ConcatProperties
    <2> QED
      BY ONLY <1>1, <1>3, <2>1, <2>2, Zenon
  <1>6. ASSUME NEW a \in 1 .. i + 1, NEW j \in 1 .. z PROVE c[(a - 1) * z + j] = v[a][j]
    <2>1. CASE a = i + 1
      <3>1. l + j \in 1 .. l + z /\ ~(l + j <= l) /\ (l + j) - l = j
        OBVIOUS
      <3>2. c[l + j] = w[j]
        BY <1>5, <3>1
      <3> QED
        BY <1>1, <1>4, <2>1, <3>2
    <2>2. CASE a # i + 1
      <3>1. a \in 1 .. i /\ a \in Nat /\ i + 1 \in Nat /\ 1 <= a /\ a <= i + 1 /\ a < i + 1 /\ z \in Nat
        BY <2>2
      <3>2. (a - 1) * z + j \in 1 .. ((i + 1) - 1) * z
        BY ONLY <3>1, j \in 1 .. z, BlockBounds
      <3>3. PICK k \in 1 .. l : k = (a - 1) * z + j
        BY <1>4, <3>2, Zenon
      <3>4. k \in 1 .. l + z /\ k <= l
        OBVIOUS
      <3>5. c[k] = s[k]
        BY <1>5, <3>4
      <3>6. s[k] = v[a][j]
        BY <3>1, <3>3, Zenon DEF BlocksIn
      <3> QED
        BY <3>3, <3>5, <3>6, Zenon
    <2> QED
      BY <2>1, <2>2
  <1>7. Len(c) = (i + 1) * z
    BY <1>4, <1>5, Zenon
  <1>8. \A a \in 1 .. i + 1 : \A j \in 1 .. z : c[(a - 1) * z + j] = v[a][j]
    BY <1>6, Zenon
  <1>9. BlocksIn(c, v, i + 1, z)
    BY <1>5, <1>7, <1>8, Zenon DEF BlocksIn
  <1> QED
    BY <1>1, <1>3, <1>9, Zenon

LEMMA FlattenBlocks ==
  ASSUME NEW z \in Nat \ {0}, NEW n \in Nat, NEW v, Len(v) = n, n = 0 => v = <<>>,
         \A i \in 1 .. n : v[i] \in Seq(Nat) /\ Len(v[i]) = z
  PROVE  BlocksIn(M!FlattenSeq(v), v, n, z)
  <1>1. CASE n = 0
    <2>1. M!FlattenSeq(v) = <<>>
      BY <1>1 DEF M!FlattenSeq
    <2>2. <<>> \in Seq(Nat) /\ Len(<<>>) = n * z /\ 1 .. n = {}
      BY <1>1
    <2> QED
      BY <2>1, <2>2, Zenon DEF BlocksIn
  <1>2. CASE n # 0
    <2>1. PICK f : FlattenStep(f, v, n) /\ M!FlattenSeq(v) = f[n]
      <3>1. M!FlattenSeq(v) = (CHOOSE f : FlattenStep(f, v, n))[n]
        BY <1>2, Zenon DEF M!FlattenSeq, FlattenStep
      <3>2. FlattenStep(CHOOSE f : FlattenStep(f, v, n), v, n)
        BY FlattenExists, Zenon
      <3> QED
        BY <3>1, <3>2, Zenon
    <2>2. \A i \in 1 .. n : f[i] = IF i = 1 THEN v[i] ELSE f[i - 1] \o v[i]
      BY <2>1, Zenon DEF FlattenStep
    <2> DEFINE X == {k \in 1 .. n : ~BlocksIn(f[k], v, k, z)}
    <2>3. ASSUME NEW k \in X, \A j \in X : k <= j PROVE FALSE
      <3>0. k \in 1 .. n /\ ~BlocksIn(f[k], v, k, z)
        BY <2>3
      <3>1. CASE k = 1
        <4>1. f[1] = v[1] /\ v[1] \in Seq(Nat) /\ Len(v[1]) = z
          BY <2>2, <3>0, <3>1
        <4>2. 1 * z = z /\ \A a \in 1 .. 1 : a = 1 /\ \A j \in 1 .. z : (a - 1) * z + j = j
          OBVIOUS
        <4>3. \A a \in 1 .. 1 : \A j \in 1 .. z : f[1][(a - 1) * z + j] = v[a][j]
          BY <4>1, <4>2
        <4>4. BlocksIn(f[1], v, 1, z)
          BY <4>1, <4>2, <4>3, Zenon DEF BlocksIn
        <4> QED
          BY <3>0, <3>1, <4>4
      <3>2. CASE k # 1
        <4>1. k - 1 \in 1 .. n /\ k - 1 \in Nat \ {0} /\ ~(k <= k - 1) /\ (k - 1) + 1 = k
          BY <3>0, <3>2
        <4>2. BlocksIn(f[k - 1], v, k - 1, z)
          BY <2>3, <4>1
        <4>3. PICK i \in Nat \ {0} : i = k - 1 /\ i + 1 = k
          BY <4>1
        <4>4. BlocksIn(f[i], v, i, z) /\ v[i + 1] \in Seq(Nat) /\ Len(v[i + 1]) = z
          BY <3>0, <4>2, <4>3, Zenon
        <4>5. BlocksIn(f[i] \o v[i + 1], v, i + 1, z)
          BY ONLY <4>4, z \in Nat \ {0}, i \in Nat \ {0}, BlocksJoined
        <4>6. f[k] = f[i] \o v[i + 1]
          BY <2>2, <3>0, <3>2, <4>3, Zenon
        <4> QED
          BY <3>0, <4>3, <4>5, <4>6, Zenon
      <3> QED
        BY <3>1, <3>2
    <2>4. X = {}
      <3> HIDE DEF X
      <3>1. X \in SUBSET Nat
        BY DEF X
      <3> QED
        BY <2>3, <3>1, LeastNatural
    <2>5. n \in 1 .. n
      BY <1>2
    <2>6. BlocksIn(f[n], v, n, z)
      BY <2>4, <2>5
    <2> QED
      BY <2>1, <2>6, Zenon
  <1> QED
    BY <1>1, <1>2

\* The messages that are sent, by the kind of their bodies.
LEMMA MessageIs ==
  ASSUME NEW m \in M!Message
  PROVE  \/ m.type = 8192 /\ m = [type |-> 8192]
         \/ /\ m.type = 32800 /\ m.threadID \in ThreadID
            /\ m = [type |-> 32800, threadID |-> m.threadID]
         \/ /\ m.type = 32837 /\ m.ids \in M!SeqOf(ThreadID, MaxIDs)
            /\ m = [type |-> m.type, ids |-> m.ids]
  <1>1. CASE m \in [type : {32800}, threadID : ThreadID]
    BY <1>1
  <1>2. CASE m \in [type : {32837}, ids : M!SeqOf(ThreadID, MaxIDs)]
    BY <1>2
  <1>3. CASE m \in [type : {8192}]
    BY <1>3
  <1>4. \/ m \in [type : {32800}, threadID : ThreadID]
        \/ m \in [type : {32837}, ids : M!SeqOf(ThreadID, MaxIDs)]
        \/ m \in [type : {8192}]
    BY DEF M!Message
  <1> QED
    BY <1>1, <1>2, <1>3, <1>4

\* A number that a field of two bytes holds.
Short(x) == x < Radix * Radix

LEMMA IDsAre ==
  ASSUME NEW ids \in M!SeqOf(ThreadID, MaxIDs)
  PROVE  /\ ids \in Seq(ThreadID) /\ Len(ids) \in Nat /\ Short(Len(ids))
         /\ DOMAIN ids = 1 .. Len(ids) /\ \A i \in 1 .. Len(ids) : ids[i] \in ThreadID
  <1>1. PICK k \in 0 .. MaxIDs : ids \in [1 .. k -> ThreadID]
    BY DEF M!SeqOf
  <1>2. k \in Nat /\ Short(k)
    BY MessageAssumption DEF Short, Radix
  <1>3. ids \in Seq(ThreadID) /\ Len(ids) = k /\ DOMAIN ids = 1 .. k
    BY <1>1, <1>2
  <1> QED
    BY <1>1, <1>2, <1>3, Zenon

LEMMA IDIs ==
  ASSUME NEW x \in ThreadID
  PROVE  /\ IDSize \in Nat \ {0} /\ Powers(IDSize) /\ x \in Nat /\ x \in 0 .. Radix ^ IDSize - 1
         /\ M!Number(M!WriteOneT(IDSize, x)) = x
  <1>1. IDSize \in Nat \ {0} /\ x \in 0 .. Radix ^ IDSize - 1
    BY MessageAssumption DEF Radix
  <1>2. Powers(IDSize)
    BY PowersHold
  <1>3. M!Number(M!WriteOneT(IDSize, x)) = x
    BY ONLY <1>1, <1>2, NumberBack
  <1> QED
    BY <1>1, <1>2, <1>3

LEMMA SmallIs ==
  ASSUME NEW x \in Nat, Short(x)
  PROVE  /\ M!Number(M!WriteOneT(2, x)) = x
         /\ M!WriteOneT(2, x) \in Seq(Nat) /\ Len(M!WriteOneT(2, x)) = 2
         /\ M!WriteOneT(2, x)[1] = (x \div Radix) % Radix /\ M!WriteOneT(2, x)[2] = x % Radix
  <1>1. Powers(2) /\ 2 \in Nat \ {0} /\ 2 \in Nat
    BY PowersHold
  <1>2. Radix ^ 0 = 1 /\ Radix ^ 1 = Radix /\ Radix ^ 2 = Radix * Radix
    <2>1. 0 \in 0 .. 2 - 1 /\ 1 \in 0 .. 2 - 1 /\ 0 + 1 = 1 /\ 1 + 1 = 2
      OBVIOUS
    <2>2. Radix ^ 0 = 1 /\ Radix ^ (0 + 1) = Radix * Radix ^ 0 /\ Radix ^ (1 + 1) = Radix * Radix ^ 1
      BY <1>1, <2>1, Zenon DEF Powers
    <2>3. Radix ^ 1 = Radix * 1 /\ Radix ^ 2 = Radix * Radix ^ 1
      BY <2>1, <2>2, Zenon
    <2>4. Radix * 1 = Radix
      BY ONLY DEF Radix
    <2> QED
      BY <2>2, <2>3, <2>4, Zenon
  <1>3. x \in 0 .. Radix ^ 2 - 1
    <2>1. x \in 0 .. (Radix * Radix) - 1
      <3>1. PICK k \in Nat : k = Radix * Radix
        BY ONLY DEF Radix
      <3>2. x < k
        BY <3>1, Zenon DEF Short
      <3>3. x \in 0 .. k - 1
        BY <3>2
      <3> QED
        BY <3>1, <3>3, Zenon
    <2> QED
      BY <1>2, <2>1, Zenon
  <1>4. M!Number(M!WriteOneT(2, x)) = x
    BY ONLY <1>1, <1>3, NumberBack
  <1>5. PICK s : s = M!WriteOneT(2, x)
    OBVIOUS
  <1>6. /\ s \in Seq(Nat) /\ Len(s) = 2
        /\ \A i \in 1 .. 2 : s[i] = (x \div Radix ^ (2 - i)) % Radix
    <2>1. /\ M!WriteOneT(2, x) \in Seq(Nat) /\ Len(M!WriteOneT(2, x)) = 2
          /\ \A i \in 1 .. 2 : M!WriteOneT(2, x)[i] = (x \div Radix ^ (2 - i)) % Radix
      <3>1. PICK n \in Nat : n = 2
        OBVIOUS
      <3>2. Powers(n)
        BY <1>1, <3>1, Zenon
      <3>3. /\ M!WriteOneT(n, x) \in Seq(Nat) /\ Len(M!WriteOneT(n, x)) = n
            /\ \A i \in 1 .. n : M!WriteOneT(n, x)[i] = (x \div Radix ^ (n - i)) % Radix
        BY ONLY <3>2, n \in Nat, x \in Nat, WriteOneIs
      <3> QED
        BY <3>1, <3>3, Zenon
    <2> QED
      BY <1>5, <2>1, Zenon
  <1>7. 1 \in 1 .. 2 /\ 2 \in 1 .. 2 /\ 2 - 1 = 1 /\ 2 - 2 = 0
    OBVIOUS
  <1>8. s[1] = (x \div Radix ^ 1) % Radix /\ s[2] = (x \div Radix ^ 0) % Radix
    BY <1>6, <1>7, Zenon
  <1>9. x \div 1 = x
    OBVIOUS
  <1>10. s[1] = (x \div Radix) % Radix /\ s[2] = x % Radix
    BY <1>2, <1>8, <1>9, Zenon
  <1> QED
    BY <1>4, <1>5, <1>6, <1>10, Zenon

\* The bytes of a vector of ids are those of each.
Blocks(ids) == [i \in DOMAIN ids |-> M!WriteOneT(IDSize, ids[i])]

LEMMA VectorIs ==
  ASSUME NEW ids \in M!SeqOf(ThreadID, MaxIDs)
  PROVE  BlocksIn(M!WriteVector(ids), Blocks(ids), Len(ids), IDSize)
  <1>1. PICK n \in Nat : n = Len(ids) /\ DOMAIN ids = 1 .. n /\ \A i \in 1 .. n : ids[i] \in ThreadID
    BY IDsAre
  <1>2. PICK v : v = Blocks(ids)
    OBVIOUS
  <1>3. v = [i \in 1 .. n |-> M!WriteOneT(IDSize, ids[i])]
    BY <1>1, <1>2, Zenon DEF Blocks
  <1>4. ASSUME NEW i \in 1 .. n PROVE v[i] \in Seq(Nat) /\ Len(v[i]) = IDSize
    <2>1. PICK x \in ThreadID : x = ids[i]
      BY <1>1
    <2>2. IDSize \in Nat /\ Powers(IDSize) /\ x \in Nat
      BY IDIs
    <2>3. M!WriteOneT(IDSize, x) \in Seq(Nat) /\ Len(M!WriteOneT(IDSize, x)) = IDSize
      BY ONLY <2>2, WriteOneIs
    <2>4. v[i] = M!WriteOneT(IDSize, x)
      BY <1>3, <2>1, Zenon
    <2> QED
      BY <2>3, <2>4, Zenon
  <1>5. Len(v) = n /\ (n = 0 => v = <<>>)
    <2>1. v = [i \in 1 .. n |-> v[i]] /\ \A i \in 1 .. n : v[i] \in Seq(Nat)
      BY <1>3, <1>4
    <2>2. v \in Seq(Seq(Nat)) /\ Len(v) = n
      BY <2>1
    <2> QED
      BY <2>2, EmptySeq
  <1>6. IDSize \in Nat \ {0}
    BY MessageAssumption
  <1>7. BlocksIn(M!FlattenSeq(v), v, n, IDSize)
    BY ONLY <1>4, <1>5, <1>6, n \in Nat, FlattenBlocks
  <1>8. M!WriteVector(ids) = M!FlattenSeq(v)
    BY <1>2, Zenon DEF M!WriteVector, Blocks
  <1> QED
    BY <1>1, <1>2, <1>7, <1>8, Zenon

\* readT of a number in front of others, by the reader that agrees with the
\* writer and by the one that does not.
LEMMA FieldBack ==
  ASSUME NEW n \in Nat, NEW w \in Seq(Nat), Len(w) = n, NEW rest \in Seq(Nat), reader = "big"
  PROVE  M!ReadT(n, w \o rest) = M!Number(w)
  <1>1. SubSeq(w \o rest, 1, n) = w
    BY JoinParts
  <1> QED
    BY <1>1, Zenon DEF M!ReadT

\* The number that two bytes make.
LEMMA NumberOfTwo ==
  ASSUME NEW r, DOMAIN r = 1 .. 2, NEW x \in Nat, NEW y \in Nat, r[1] = x, r[2] = y
  PROVE  M!Number(r) = x * Radix + y
  <1>1. PICK v : v = [k \in 0 .. 2 |-> IF k = 0 THEN 0 ELSE IF k = 1 THEN x ELSE x * Radix + y]
    OBVIOUS
  <1>2. v[0] = 0 /\ v[1] = x /\ v[2] = x * Radix + y
    BY <1>1
  <1>3. v[1] = v[0] * Radix + r[1] /\ v[2] = v[1] * Radix + r[2]
    <2>1. x = 0 * Radix + x
      BY ONLY x \in Nat DEF Radix
    <2> QED
      BY <1>2, <2>1, Zenon
  <1>4. \A k \in 1 .. 2 : (k = 1 /\ k - 1 = 0) \/ (k = 2 /\ k - 1 = 1)
    OBVIOUS
  <1>5. \A k \in 1 .. 2 : v[k] = v[k - 1] * Radix + r[k]
    BY <1>3, <1>4, Zenon
  <1>6. \A n \in Nat : n = 2 => M!Number(r) = v[n]
    <2> SUFFICES ASSUME NEW n \in Nat, n = 2 PROVE M!Number(r) = v[n]
      BY Zenon
    <2>1. DOMAIN r = 1 .. n /\ v[0] = 0
      BY <1>2, Zenon
    <2>2. \A k \in 1 .. n : v[k] = v[k - 1] * Radix + r[k]
      BY <1>5, Zenon
    <2> QED
      BY ONLY <2>1, <2>2, n \in Nat, NumberIs
  <1>7. M!Number(r) = v[2]
    BY <1>6
  <1> QED
    BY <1>2, <1>7, Zenon

LEMMA FieldReversed ==
  ASSUME NEW b \in Seq(Nat), 2 <= Len(b), reader # "big"
  PROVE  M!ReadT(2, b) = b[2] * Radix + b[1]
  <1>1. PICK w : w = SubSeq(b, 1, 2)
    OBVIOUS
  <1>2. w \in Seq(Nat) /\ Len(w) = 2 /\ w[1] = b[1] /\ w[2] = b[2] /\ b[1] \in Nat /\ b[2] \in Nat
    BY <1>1
  <1>3. PICK r : r = M!Reverse(w) /\ r = [i \in 1 .. 2 |-> w[(2 - i) + 1]]
    BY <1>2, Zenon DEF M!Reverse
  <1>4. DOMAIN r = 1 .. 2 /\ r[1] = b[2] /\ r[2] = b[1]
    BY <1>2, <1>3
  <1>5. M!Number(r) = b[2] * Radix + b[1]
    BY <1>2, <1>4, NumberOfTwo, Zenon
  <1> QED
    BY <1>1, <1>3, <1>4, <1>5, Zenon DEF M!ReadT

\* readTVector returns the ids that were written.
LEMMA VectorBack ==
  ASSUME NEW ids \in M!SeqOf(ThreadID, MaxIDs), reader = "big"
  PROVE  M!ReadTVector(Len(ids), M!WriteVector(ids)) = ids
  <1>1. PICK n \in Nat : /\ n = Len(ids) /\ DOMAIN ids = 1 .. n /\ ids \in Seq(ThreadID)
                         /\ \A i \in 1 .. n : ids[i] \in ThreadID
    BY IDsAre
  <1>2. PICK b : b = M!WriteVector(ids)
    OBVIOUS
  <1>3. PICK z \in Nat \ {0} : z = IDSize
    BY MessageAssumption
  <1>4. BlocksIn(b, Blocks(ids), n, z)
    BY <1>1, <1>2, <1>3, VectorIs, Zenon
  <1>5. b \in Seq(Nat) /\ Len(b) = n * z
    BY <1>4, Zenon DEF BlocksIn
  <1>6. ASSUME NEW i \in 1 .. n
        PROVE  M!ReadT(z, SubSeq(b, (i - 1) * z + 1, i * z)) = ids[i]
    <2>1. PICK x \in ThreadID : x = ids[i]
      BY <1>1
    <2>2. IDSize \in Nat /\ Powers(IDSize) /\ x \in Nat /\ M!Number(M!WriteOneT(IDSize, x)) = x
      BY IDIs
    <2>3. PICK w : w = M!WriteOneT(IDSize, x)
      OBVIOUS
    <2>4. w \in Seq(Nat) /\ Len(w) = z
      <3>1. M!WriteOneT(IDSize, x) \in Seq(Nat) /\ Len(M!WriteOneT(IDSize, x)) = IDSize
        BY ONLY <2>2, WriteOneIs
      <3> QED
        BY <1>3, <2>3, <3>1, Zenon
    <2>5. \A j \in 1 .. z : b[(i - 1) * z + j] = w[j]
      <3>1. Blocks(ids)[i] = w
        BY <1>1, <2>1, <2>3, Zenon DEF Blocks
      <3> QED
        BY <1>4, <3>1, Zenon DEF BlocksIn
    <2>6. /\ (i - 1) * z \in Nat /\ i * z = (i - 1) * z + z /\ i * z <= n * z
      <3>1. z \in Nat /\ i \in Nat /\ n \in Nat /\ 1 <= i /\ i <= n /\ z \in 1 .. z
        OBVIOUS
      <3>2. /\ (i - 1) * z \in Nat /\ i * z = (i - 1) * z + z /\ (i - 1) * z + z \in 1 .. n * z /\ n * z \in Nat
        BY ONLY <3>1, BlockBounds
      <3> QED
        BY <3>2
    <2>7. PICK p \in Nat : p = (i - 1) * z /\ i * z = p + z /\ p + z <= Len(b)
      BY <1>5, <2>6, Zenon
    <2>8. \A j \in 1 .. z : b[p + j] = w[j]
      BY <2>5, <2>7, Zenon
    <2>9. SubSeq(b, p + 1, p + z) = w
      BY ONLY <1>5, <2>4, <2>7, <2>8, z \in Nat \ {0}, PartIs
    <2>10. SubSeq(w, 1, z) = w
      <3>1. 0 \in Nat /\ 0 + z <= Len(w) /\ \A j \in 1 .. z : w[0 + j] = w[j]
        BY <2>4
      <3>2. SubSeq(w, 0 + 1, 0 + z) = w
        BY ONLY <2>4, <3>1, z \in Nat \ {0}, PartIs
      <3> QED
        BY <3>2
    <2>11. M!ReadT(z, w) = M!Number(w)
      BY <2>10, Zenon DEF M!ReadT
    <2> QED
      BY <2>1, <2>2, <2>3, <2>7, <2>9, <2>11, Zenon
  <1>7. M!ReadTVector(n, b) = [i \in 1 .. n |-> ids[i]]
    BY <1>3, <1>6, Zenon DEF M!ReadTVector
  <1>8. [i \in 1 .. n |-> ids[i]] = ids
    BY <1>1
  <1> QED
    BY <1>1, <1>2, <1>7, <1>8, Zenon

\* A message is its type and its body, and takes the room writableSize asks for.
LEMMA WrittenIs ==
  ASSUME NEW m \in M!Message
  PROVE  /\ M!WriteToWriter(m) = M!WriteOneT(2, m.type) \o BodyOf(m) /\ BodyOf(m) \in Seq(Nat)
         /\ Len(M!WriteToWriter(m)) = M!WritableSize(m)
  <1>1. m.type \in {8192, 32800, 32837}
    BY MessageIs
  <1>2. PICK w : w = M!WriteOneT(2, m.type)
    OBVIOUS
  <1>3. w \in Seq(Nat) /\ Len(w) = 2
    <2>1. PICK x \in Nat : x = m.type /\ Short(x)
      BY <1>1 DEF Short, Radix
    <2>2. M!WriteOneT(2, x) \in Seq(Nat) /\ Len(M!WriteOneT(2, x)) = 2
      BY <2>1, SmallIs, Zenon
    <2> QED
      BY <1>2, <2>1, <2>2, Zenon
  <1>4. CASE m.type = 8192
    <2>1. m.type \in M!BodyLess /\ m.type \notin M!WithThreadID /\ m.type \notin M!WithThreadIDs
      BY <1>4 DEF M!BodyLess, M!WithThreadID, M!WithThreadIDs
    <2>2. M!WriteToWriter(m) = w
      <3>1. m.type \notin M!WithThreadID /\ m.type \notin M!WithThreadIDs
        BY <1>4 DEF M!WithThreadID, M!WithThreadIDs
      <3> QED
        BY <1>2, <2>1, <3>1 DEF M!WriteToWriter, M!TypeBytes
    <2>3. BodyOf(m) = <<>> /\ <<>> \in Seq(Nat)
      BY <1>4 DEF BodyOf
    <2>4. w \o <<>> = w
      BY <1>3, ConcatEmptySeq
    <2>5. M!WritableSize(m) = 2
      BY <2>1, Zenon DEF M!WritableSize
    <2> QED
      BY <1>2, <1>3, <2>2, <2>3, <2>4, <2>5, Zenon
  <1>5. CASE m.type = 32800
    <2>1. PICK x \in ThreadID : x = m.threadID
      BY <1>5, MessageIs
    <2>2. PICK b : b = M!WriteOneT(IDSize, x)
      OBVIOUS
    <2>3. b \in Seq(Nat) /\ Len(b) = IDSize
      <3>1. IDSize \in Nat /\ Powers(IDSize) /\ x \in Nat
        BY IDIs
      <3>2. M!WriteOneT(IDSize, x) \in Seq(Nat) /\ Len(M!WriteOneT(IDSize, x)) = IDSize
        BY ONLY <3>1, WriteOneIs
      <3> QED
        BY <2>2, <3>2, Zenon
    <2>4. m.type \in M!WithThreadID
      BY <1>5 DEF M!WithThreadID
    <2>5. M!WriteToWriter(m) = w \o b
      <3>1. m.type \notin M!BodyLess /\ m.type \notin M!WithThreadIDs
        BY <1>5 DEF M!BodyLess, M!WithThreadIDs
      <3>2. M!WriteToWriter(m) = M!WriteThreadID(m)
        BY <2>4, <3>1 DEF M!WriteToWriter
      <3> QED
        BY <1>2, <2>1, <2>2, <3>2, Zenon DEF M!WriteThreadID, M!TypeBytes
    <2>6. BodyOf(m) = b
      BY <1>5, <2>1, <2>2 DEF BodyOf
    <2>7. M!WritableSize(m) = 2 + IDSize
      BY <2>4, Zenon DEF M!WritableSize, M!WritableSizeOfID
    <2>8. Len(w \o b) = 2 + IDSize
      <3>1. Len(w \o b) = Len(w) + Len(b)
        BY <1>3, <2>3, JoinParts, Zenon
      <3> QED
        BY <1>3, <2>3, <3>1, Zenon
    <2> QED
      BY <1>2, <2>3, <2>5, <2>6, <2>7, <2>8, Zenon
  <1>6. CASE m.type = 32837
    <2>1. PICK ids \in M!SeqOf(ThreadID, MaxIDs) : ids = m.ids
      BY <1>6, MessageIs
    <2>2. PICK n \in Nat : n = Len(ids) /\ Short(n)
      BY IDsAre
    <2>3. PICK c, b : c = M!WriteOneT(2, n) /\ b = M!WriteVector(ids)
      OBVIOUS
    <2>4. c \in Seq(Nat) /\ Len(c) = 2
      <3>1. M!WriteOneT(2, n) \in Seq(Nat) /\ Len(M!WriteOneT(2, n)) = 2
        BY <2>2, SmallIs, Zenon
      <3> QED
        BY <2>3, <3>1, Zenon
    <2>5. b \in Seq(Nat) /\ Len(b) = n * IDSize
      BY <2>2, <2>3, VectorIs, Zenon DEF BlocksIn
    <2>6. m.type \notin M!WithThreadID /\ m.type \notin M!BodyLess
      BY <1>6 DEF M!WithThreadID, M!BodyLess
    <2>7. M!WriteToWriter(m) = (w \o c) \o b
      <3>1. m.type \in M!WithThreadIDs
        BY <1>6 DEF M!WithThreadIDs
      <3>2. M!WriteToWriter(m) = M!WriteThreadIDs(m)
        BY <2>6, <3>1 DEF M!WriteToWriter
      <3> QED
        BY <1>2, <2>1, <2>2, <2>3, <3>2, Zenon DEF M!WriteThreadIDs, M!TypeBytes
    <2>8. (w \o c) \o b = w \o (c \o b)
      <3>1. w \in Seq(Nat) /\ c \in Seq(Nat) /\ b \in Seq(Nat)
        BY <1>3, <2>4, <2>5, Zenon
      <3> QED
        BY ONLY <3>1, ConcatAssociative, SMTT(30)
    <2>9. BodyOf(m) = c \o b
      <3>1. m.type # 8192 /\ m.type # 32800
        BY <1>6
      <3>2. BodyOf(m) = M!WriteOneT(2, Len(m.ids)) \o M!WriteVector(m.ids)
        BY ONLY <3>1 DEF BodyOf
      <3>3. Len(m.ids) = n
        BY <2>1, <2>2, Zenon
      <3> QED
        BY <2>1, <2>3, <3>2, <3>3, Zenon
    <2>10. M!WritableSize(m) = 2 + 2 + n * IDSize
      <3>1. m.type \in M!WithThreadIDs
        BY <1>6 DEF M!WithThreadIDs
      <3> QED
        BY <2>1, <2>2, <2>6, <3>1, Zenon DEF M!WritableSize, M!WritableSizeOfIDs
    <2>11. c \o b \in Seq(Nat) /\ Len(w \o (c \o b)) = 2 + 2 + n * IDSize
      <3>1. PICK l \in Nat : l = n * IDSize
        BY MessageAssumption
      <3>2. Len(b) = l
        BY <2>5, <3>1, Zenon
      <3>3. c \o b \in Seq(Nat) /\ Len(c \o b) = 2 + l
        BY <2>4, <2>5, <3>2, JoinParts, Zenon
      <3>4. Len(w \o (c \o b)) = 2 + (2 + l)
        BY <1>3, <3>3, JoinParts, Zenon
      <3>5. 2 + (2 + l) = 2 + 2 + l
        OBVIOUS
      <3> QED
        BY <3>1, <3>3, <3>4, <3>5, Zenon
    <2> QED
      BY <1>2, <2>7, <2>8, <2>9, <2>10, <2>11, Zenon
  <1> QED
    BY <1>1, <1>4, <1>5, <1>6

\* The reader that does not agree with the writer takes no type that is sent for
\* one of the enumeration.
LEMMA TypeReversed ==
  ASSUME NEW m \in M!Message
  PROVE  (m.type % Radix) * Radix + ((m.type \div Radix) % Radix) \notin M!Type
  <1>1. m.type \in {8192, 32800, 32837}
    BY MessageIs
  <1>2. /\ 8192 % Radix = 0 /\ (8192 \div Radix) % Radix = 32
        /\ 32800 % Radix = 32 /\ (32800 \div Radix) % Radix = 128
        /\ 32837 % Radix = 69 /\ (32837 \div Radix) % Radix = 128
    BY ONLY DEF Radix
  <1>3. (m.type % Radix) * Radix + ((m.type \div Radix) % Radix) \in {32, 8320, 17792}
    BY <1>1, <1>2 DEF Radix
  <1>4. \A x \in {32, 8320, 17792} : x \notin M!Type
    BY DEF M!Type, M!WithThreadID, M!WithThreadIDs, M!DoSystemCall, M!BodyLess
  <1> QED
    BY <1>3, <1>4

LEMMA TypeSent == ASSUME NEW m \in M!Message PROVE m.type \in M!Type /\ m.type \in Nat /\ Short(m.type)
  <1>1. m.type \in {8192, 32800, 32837}
    BY MessageIs
  <1>2. m.type \in Nat /\ Short(m.type)
    BY <1>1 DEF Short, Radix
  <1>3. m.type \in M!Type
    BY <1>1 DEF M!Type, M!WithThreadID, M!WithThreadIDs, M!DoSystemCall, M!BodyLess
  <1> QED
    BY <1>2, <1>3

\* The two bytes that the reader takes as the type.
LEMMA FieldOfTwo ==
  ASSUME NEW b \in Seq(Nat), 2 <= Len(b), reader = "big"
  PROVE  M!ReadT(2, b) = b[1] * Radix + b[2]
  <1>1. PICK w : w = SubSeq(b, 1, 2)
    OBVIOUS
  <1>2. DOMAIN w = 1 .. 2 /\ w[1] = b[1] /\ w[2] = b[2] /\ b[1] \in Nat /\ b[2] \in Nat
    BY <1>1
  <1>3. M!Number(w) = b[1] * Radix + b[2]
    BY <1>2, NumberOfTwo, Zenon
  <1> QED
    BY <1>1, <1>3, Zenon DEF M!ReadT

\* A message is being sent, received or read only if the one before it is done.
LEMMA CurrentIs ==
  ASSUME MessageInv, ~desynced, LastArrived \/ BodyLeft
  PROVE  /\ Current \in M!Message /\ Len(messages) \in Nat \ {0} /\ Len(outcomes) \in Nat
         /\ Len(outcomes) + 1 = Len(messages)
  <1>1. messages \in Seq(M!Message) /\ outcomes \in Seq(M!Message) /\ Len(outcomes) + 1 = Len(messages)
    BY DEF MessageInv, LastArrived, BodyLeft
  <1>2. Len(outcomes) \in Nat /\ Len(messages) \in Nat
    BY <1>1, LenProperties
  <1>3. Len(messages) \in 1 .. Len(messages) /\ Len(messages) \in Nat \ {0}
    BY <1>1, <1>2
  <1>4. Current \in M!Message
    BY <1>1, <1>3, ElementOfSeq, Zenon DEF Current
  <1> QED
    BY <1>1, <1>2, <1>3, <1>4

\* Nothing is claimed once a message was cut or rejected.
LEMMA DesyncKeeps ==
  ASSUME MessageInv, desynced', UNCHANGED <<reader, validTypes, framing, messages>>
  PROVE  MessageInv'
  <1>1. reader' = reader /\ validTypes' = validTypes /\ framing' = framing /\ messages' = messages
    OBVIOUS
  <1> QED
    BY <1>1 DEF MessageInv

\* A message that was parsed as it was sent ends its reading.
LEMMA ParsedKeeps ==
  ASSUME MessageInv, ~desynced, BodyLeft, M!Parsed(Current), mReader' = <<>>
  PROVE  MessageInv'
  <1>1. PICK m \in M!Message, n \in Nat : m = Current /\ n = Len(outcomes) /\ Len(messages) = n + 1
    BY CurrentIs
  <1>2. /\ outcomes' = Append(outcomes, m) /\ type' = 0 /\ desynced' = desynced
        /\ reader' = reader /\ validTypes' = validTypes /\ framing' = framing /\ messages' = messages
    BY <1>1 DEF M!Parsed, M!stream
  <1>3. outcomes \in Seq(M!Message) /\ \A i \in 1 .. n : outcomes[i] = messages[i]
    BY <1>1 DEF MessageInv
  <1>4. messages[n + 1] = m
    BY <1>1, Zenon DEF Current
  <1>5. /\ outcomes' \in Seq(M!Message) /\ Len(outcomes') = n + 1
        /\ \A i \in 1 .. n : outcomes'[i] = outcomes[i]
        /\ outcomes'[n + 1] = m
    BY <1>1, <1>2, <1>3, AppendProperties
  <1>6. \A i \in 1 .. n + 1 : outcomes'[i] = messages[i]
    <2> SUFFICES ASSUME NEW i \in 1 .. n + 1 PROVE outcomes'[i] = messages[i]
      OBVIOUS
    <2>1. i \in 1 .. n \/ i = n + 1
      OBVIOUS
    <2> QED
      BY <1>3, <1>4, <1>5, <2>1, Zenon
  <1>7. AllRead'
    BY <1>1, <1>2, <1>5, Zenon DEF AllRead
  <1>8. \A i \in 1 .. Len(outcomes') : outcomes'[i] = messages'[i]
    BY <1>2, <1>5, <1>6, Zenon
  <1>9. /\ reader' \in {"little", "big"} /\ validTypes' \in {{}, M!Type} /\ framing' \in {"tcp", "udp"}
        /\ messages' \in Seq(M!Message)
    BY <1>2, Zenon DEF MessageInv
  <1> QED
    BY <1>5, <1>7, <1>8, <1>9, Zenon DEF MessageInv

LEMMA JoinAssociative ==
  ASSUME NEW a \in Seq(Nat), NEW b \in Seq(Nat), NEW c \in Seq(Nat)
  PROVE  (a \o b) \o c = a \o (b \o c)
  BY ConcatAssociative

LEMMA SendMessageKeeps ==
  ASSUME MessageInv, NEW m \in M!Message, M!SendMessage(m)
  PROVE  MessageInv'
  <1>1. /\ messages' = Append(messages, m) /\ type = 0 /\ type' = type /\ outcomes' = outcomes
        /\ desynced' = desynced /\ reader' = reader /\ validTypes' = validTypes /\ framing' = framing
        /\ Len(outcomes) = Len(messages)
        /\ mReader' = (mReader \o M!Frame) \o M!WriteToWriter(m) /\ Len(messages) < 2
    BY DEF M!SendMessage, M!stream
  <1>2. PICK n \in Nat : n = Len(messages) /\ n < 2
    BY <1>1, LenProperties DEF MessageInv
  <1>3. messages \in Seq(M!Message)
    BY DEF MessageInv
  <1>4. /\ messages' \in Seq(M!Message) /\ Len(messages') = n + 1
        /\ \A i \in 1 .. n : messages'[i] = messages[i]
        /\ messages'[n + 1] = m
    BY <1>1, <1>2, <1>3, AppendProperties
  <1>5. /\ reader' \in {"little", "big"} /\ validTypes' \in {{}, M!Type} /\ framing' \in {"tcp", "udp"}
        /\ messages' \in Seq(M!Message)
    BY <1>1, <1>4, Zenon DEF MessageInv
  <1>6. ASSUME ~desynced
        PROVE  outcomes' \in Seq(M!Message) /\ (\A i \in 1 .. Len(outcomes') : outcomes'[i] = messages'[i]) /\ LastArrived'
    <2>1. Len(outcomes) = n /\ outcomes \in Seq(M!Message) /\ \A i \in 1 .. n : outcomes[i] = messages[i]
      BY <1>1, <1>2, <1>6 DEF MessageInv
    <2>2. mReader = <<>>
      <3>1. Len(outcomes) + 1 # Len(messages)
        BY <1>2, <2>1
      <3> QED
        BY <1>6, <3>1 DEF MessageInv, AllRead, LastArrived, BodyLeft
    <2>3. PICK w \in Seq(Nat) : w = M!WriteToWriter(m)
      <3>1. M!WriteOneT(2, m.type) \in Seq(Nat)
        BY TypeSent, SmallIs, Zenon
      <3>2. M!WriteOneT(2, m.type) \o BodyOf(m) \in Seq(Nat)
        BY <3>1, WrittenIs, JoinParts, Zenon
      <3> QED
        BY <3>2, WrittenIs, Zenon
    <2>4. Current' = m
      BY <1>4, Zenon DEF Current
    <2>5. CASE framing = "tcp"
      <3>1. M!Frame = <<>>
        BY <2>5 DEF M!Frame
      <3>2. mReader' = (<<>> \o <<>>) \o w
        BY <1>1, <2>2, <2>3, <3>1, Zenon
      <3>3. <<>> \in Seq(Nat) /\ <<>> \o <<>> = <<>> /\ <<>> \o w = w
        BY ConcatEmptySeq
      <3>4. mReader' = M!WriteToWriter(m)
        BY <2>3, <3>2, <3>3, Zenon
      <3>5. framing' # "udp"
        BY <1>1, <2>5
      <3>6. Len(outcomes') + 1 = Len(messages') /\ type' = 0
        BY <1>1, <1>4, <2>1, Zenon
      <3>7. LastArrived'
        BY <2>4, <3>4, <3>5, <3>6, Zenon DEF LastArrived
      <3>8. \A i \in 1 .. n : outcomes'[i] = messages'[i]
        BY <1>1, <1>4, <2>1, Zenon
      <3> QED
        BY <1>1, <2>1, <3>7, <3>8, Zenon
    <2>6. CASE framing = "udp"
      <3>1. PICK a \in Seq(Nat), b \in Seq(Nat) : /\ a = M!WriteOneT(2, 0) /\ b = M!WriteOneT(2, n)
                                                 /\ Len(a) = 2 /\ a[1] = 0 /\ a[2] = 0
        <4>1. /\ M!WriteOneT(2, 0) \in Seq(Nat) /\ Len(M!WriteOneT(2, 0)) = 2
              /\ M!WriteOneT(2, 0)[1] = (0 \div Radix) % Radix /\ M!WriteOneT(2, 0)[2] = 0 % Radix
          <5>1. 0 \in Nat /\ Short(0)
            BY DEF Short, Radix
          <5> QED
            BY <5>1, SmallIs, Zenon
        <4>2. M!WriteOneT(2, n) \in Seq(Nat)
          <5>1. Short(n)
            BY <1>2 DEF Short, Radix
          <5> QED
            BY <5>1, SmallIs, Zenon
        <4>3. (0 \div Radix) % Radix = 0 /\ 0 % Radix = 0
          BY ONLY DEF Radix
        <4> QED
          BY <4>1, <4>2, <4>3, Zenon
      <3>2. M!Frame = a \o b
        BY <1>2, <2>6, <3>1, Zenon DEF M!Frame
      <3>3. mReader' = (<<>> \o (a \o b)) \o w
        BY <1>1, <2>2, <2>3, <3>2, Zenon
      <3>4. a \o b \in Seq(Nat) /\ b \o w \in Seq(Nat)
        BY ConcatProperties
      <3>5. <<>> \o (a \o b) = a \o b /\ (a \o b) \o w = a \o (b \o w)
        <4>1. <<>> \o (a \o b) = a \o b
          BY <3>4, ConcatEmptySeq, Zenon
        <4>2. (a \o b) \o w = a \o (b \o w)
          BY JoinAssociative, Zenon
        <4> QED
          BY <4>1, <4>2
      <3>6. PICK c \in Seq(Nat) : c = b \o w
        BY <3>4
      <3>7. mReader' = a \o c
        BY <3>3, <3>5, <3>6, Zenon
      <3>8. /\ a \o c \in Seq(Nat) /\ Len(a \o c) >= 2 /\ (a \o c)[1] = 0 /\ (a \o c)[2] = 0
        BY <3>1, ConcatProperties
      <3>9. Len(outcomes') + 1 = Len(messages') /\ type' = 0 /\ framing' # "tcp"
        <4>1. framing # "tcp"
          BY <2>6
        <4> QED
          BY <1>1, <1>4, <2>1, <4>1, Zenon
      <3>10. LastArrived'
        BY <3>7, <3>8, <3>9, Zenon DEF LastArrived
      <3>11. \A i \in 1 .. n : outcomes'[i] = messages'[i]
        BY <1>1, <1>4, <2>1, Zenon
      <3> QED
        BY <1>1, <2>1, <3>10, <3>11, Zenon
    <2> QED
      BY <2>5, <2>6 DEF MessageInv
  <1>7. ~desynced' => ~desynced
    BY <1>1
  <1> QED
    BY <1>5, <1>6, <1>7, Zenon DEF MessageInv

\* The type that is read from a message is its type, unless the reader does not
\* agree with the writer or the stream is UDP's, and then it is no type at all.
LEMMA TypeRead ==
  ASSUME MessageInv, ~desynced, LastArrived, M!ReadT(2, mReader) \in M!Type
  PROVE  /\ reader = "big" /\ M!ReadT(2, mReader) = Current.type
         /\ M!Dropped(2) = BodyOf(Current)
  <1>1. PICK m \in M!Message : m = Current
    BY CurrentIs
  <1>2. reader \in {"little", "big"} /\ framing \in {"tcp", "udp"}
    BY DEF MessageInv
  <1>3. framing = "tcp"
    <2> SUFFICES ASSUME framing # "tcp" PROVE FALSE
      OBVIOUS
    <2>1. mReader \in Seq(Nat) /\ Len(mReader) >= 2 /\ mReader[1] = 0 /\ mReader[2] = 0
      BY <1>2 DEF LastArrived
    <2>2. M!ReadT(2, mReader) = 0 * Radix + 0
      <3>1. PICK b \in Seq(Nat) : b = mReader /\ 2 <= Len(b) /\ b[1] = 0 /\ b[2] = 0
        BY <2>1
      <3>2. CASE reader = "big"
        <4>1. M!ReadT(2, b) = b[1] * Radix + b[2]
          BY ONLY <3>1, <3>2, FieldOfTwo
        <4> QED
          BY <3>1, <4>1, Zenon
      <3>3. CASE reader # "big"
        <4>1. M!ReadT(2, b) = b[2] * Radix + b[1]
          BY ONLY <3>1, <3>3, FieldReversed
        <4> QED
          BY <3>1, <4>1, Zenon
      <3> QED
        BY <3>2, <3>3
    <2>3. 0 \notin M!Type
      BY DEF M!Type, M!WithThreadID, M!WithThreadIDs, M!DoSystemCall, M!BodyLess
    <2>4. 0 * Radix + 0 = 0
      BY ONLY DEF Radix
    <2> QED
      BY <2>2, <2>3, <2>4, Zenon
  <1>4. PICK x \in Nat : x = m.type /\ Short(x)
    BY TypeSent, Zenon
  <1>5. PICK w \in Seq(Nat), b \in Seq(Nat) :
          /\ w = M!WriteOneT(2, x) /\ b = BodyOf(m) /\ Len(w) = 2
          /\ w[1] = (x \div Radix) % Radix /\ w[2] = x % Radix /\ M!Number(w) = x
    <2>1. /\ M!Number(M!WriteOneT(2, x)) = x
          /\ M!WriteOneT(2, x) \in Seq(Nat) /\ Len(M!WriteOneT(2, x)) = 2
          /\ M!WriteOneT(2, x)[1] = (x \div Radix) % Radix /\ M!WriteOneT(2, x)[2] = x % Radix
      BY <1>4, SmallIs, Zenon
    <2>2. BodyOf(m) \in Seq(Nat)
      BY WrittenIs
    <2> QED
      BY <2>1, <2>2, Zenon
  <1>6. mReader = w \o b
    <2>1. mReader = M!WriteToWriter(m)
      BY <1>1, <1>3, Zenon DEF LastArrived
    <2> QED
      BY <1>4, <1>5, <2>1, WrittenIs, Zenon
  <1>7. reader = "big"
    <2> SUFFICES ASSUME reader # "big" PROVE FALSE
      BY Zenon
    <2>1. PICK c : c = w \o b
      OBVIOUS
    <2>2. c \in Seq(Nat) /\ 2 <= Len(c) /\ c[1] = w[1] /\ c[2] = w[2]
      BY <1>5, <2>1, ConcatProperties
    <2>3. M!ReadT(2, c) = c[2] * Radix + c[1]
      BY <2>2, FieldReversed, Zenon
    <2>4. M!ReadT(2, mReader) = (m.type % Radix) * Radix + ((m.type \div Radix) % Radix)
      BY <1>4, <1>5, <1>6, <2>1, <2>2, <2>3, Zenon
    <2>5. (m.type % Radix) * Radix + ((m.type \div Radix) % Radix) \notin M!Type
      BY TypeReversed
    <2> QED
      BY <2>4, <2>5, Zenon
  <1>8. M!ReadT(2, mReader) = x
    <2>1. 2 \in Nat
      OBVIOUS
    <2>2. M!ReadT(2, w \o b) = M!Number(w)
      BY <1>5, <1>7, <2>1, FieldBack, Zenon
    <2> QED
      BY <1>5, <1>6, <2>2, Zenon
  <1>9. M!Dropped(2) = b
    <2>1. SubSeq(w \o b, Len(w) + 1, Len(w \o b)) = b
      BY JoinParts, Zenon
    <2>2. SubSeq(w \o b, 2 + 1, Len(w \o b)) = b
      BY <1>5, <2>1, Zenon
    <2> QED
      BY <1>6, <2>2, Zenon DEF M!Dropped
  <1> QED
    BY <1>1, <1>4, <1>5, <1>7, <1>8, <1>9, Zenon

LEMMA ReceiveMessageKeeps ==
  ASSUME MessageInv, M!ReceiveMessage
  PROVE  MessageInv'
  <1>1. /\ reader' = reader /\ validTypes' = validTypes /\ framing' = framing /\ messages' = messages
        /\ type = 0 /\ Len(outcomes) < Len(messages)
    BY DEF M!ReceiveMessage, M!stream
  <1>2. CASE desynced'
    BY <1>1, <1>2, DesyncKeeps
  <1>3. CASE ~desynced'
    <2>1. PICK t : /\ t = M!ReadT(2, mReader) /\ mReader' = M!Dropped(2) /\ t \in validTypes
                   /\ type' = t /\ outcomes' = outcomes /\ desynced' = desynced
      BY <1>3, Zenon DEF M!ReceiveMessage, M!Reject, M!IsValidMessageType
    <2>2. ~desynced
      BY <1>3, <2>1
    <2>3. outcomes \in Seq(M!Message) /\ \A i \in 1 .. Len(outcomes) : outcomes[i] = messages[i]
      BY <2>2 DEF MessageInv
    <2>4. LastArrived
      <3>1. ~AllRead
        <4>1. Len(outcomes) \in Nat /\ Len(messages) \in Nat
          BY <2>3, LenProperties DEF MessageInv
        <4> QED
          BY <1>1, <4>1 DEF AllRead
      <3>2. ~BodyLeft
        <4> SUFFICES ASSUME BodyLeft PROVE FALSE
          OBVIOUS
        <4>1. Current \in M!Message
          BY <2>2, CurrentIs
        <4>2. Current.type \in M!Type
          BY <4>1, TypeSent
        <4>3. 0 \notin M!Type
          BY DEF M!Type, M!WithThreadID, M!WithThreadIDs, M!DoSystemCall, M!BodyLess
        <4> QED
          BY <1>1, <4>2, <4>3 DEF BodyLeft
      <3> QED
        BY <2>2, <3>1, <3>2 DEF MessageInv
    <2>5. t \in M!Type
      BY <2>1 DEF MessageInv
    <2>6. reader = "big" /\ t = Current.type /\ M!Dropped(2) = BodyOf(Current)
      BY <2>1, <2>2, <2>4, <2>5, TypeRead
    <2>7. Current' = Current /\ Len(outcomes) + 1 = Len(messages)
      BY <1>1, <2>4, Zenon DEF Current, LastArrived
    <2>8. BodyLeft'
      BY <1>1, <2>1, <2>6, <2>7, Zenon DEF BodyLeft
    <2>9. /\ reader' \in {"little", "big"} /\ validTypes' \in {{}, M!Type} /\ framing' \in {"tcp", "udp"}
          /\ messages' \in Seq(M!Message)
      BY <1>1, Zenon DEF MessageInv
    <2>10. outcomes' \in Seq(M!Message) /\ \A i \in 1 .. Len(outcomes') : outcomes'[i] = messages'[i]
      BY <1>1, <2>1, <2>3, Zenon
    <2> QED
      BY <2>8, <2>9, <2>10, Zenon DEF MessageInv
  <1> QED
    BY <1>2, <1>3

\* A body is read while no message was cut: it is the body of a message that is sent.
LEMMA BodyIs ==
  ASSUME MessageInv, ~desynced, type # 0
  PROVE  BodyLeft /\ Current \in M!Message /\ type = Current.type /\ reader = "big"
  <1>1. BodyLeft
    BY DEF MessageInv, AllRead, LastArrived
  <1> QED
    BY <1>1, CurrentIs DEF BodyLeft

\* The end of what has been read whole.
LEMMA NothingLeft == ASSUME NEW b \in Seq(Nat), NEW n \in Nat, Len(b) = n PROVE SubSeq(b, n + 1, Len(b)) = <<>>
  <1>1. n + 1 \in Int /\ Len(b) \in Int /\ Len(b) < n + 1
    OBVIOUS
  <1> QED
    BY <1>1, SubSeqEmpty

LEMMA ReadBodyLessKeeps ==
  ASSUME MessageInv, M!ReadBodyLess
  PROVE  MessageInv'
  <1>1. type \in M!BodyLess /\ M!Parsed([type |-> type]) /\ mReader' = mReader
    BY DEF M!ReadBodyLess
  <1>2. CASE desynced
    <2>1. desynced' /\ UNCHANGED <<reader, validTypes, framing, messages>>
      BY <1>1, <1>2 DEF M!Parsed, M!stream
    <2> QED
      BY <2>1, DesyncKeeps
  <1>3. CASE ~desynced
    <2>1. type # 0
      BY <1>1 DEF M!BodyLess
    <2>2. BodyLeft /\ Current \in M!Message /\ type = Current.type
      BY <1>3, <2>1, BodyIs
    <2>3. Current.type = 8192 /\ Current = [type |-> 8192]
      <3>1. Current.type \notin {32800, 32837}
        BY <1>1, <2>2 DEF M!BodyLess
      <3> QED
        BY <2>2, <3>1, MessageIs
    <2>4. mReader = <<>>
      <3>1. BodyOf(Current) = <<>>
        BY <2>3 DEF BodyOf
      <3> QED
        BY <2>2, <3>1, Zenon DEF BodyLeft
    <2>5. M!Parsed(Current) /\ mReader' = <<>>
      <3>1. [type |-> type] = Current
        BY <2>2, <2>3
      <3> QED
        BY <1>1, <2>4, <3>1, Zenon
    <2> QED
      BY <1>3, <2>2, <2>5, ParsedKeeps
  <1> QED
    BY <1>2, <1>3

LEMMA TooShortKeeps ==
  ASSUME MessageInv, M!TooShort
  PROVE  MessageInv'
  <1>1. desynced' /\ UNCHANGED <<reader, validTypes, framing, messages>>
    BY DEF M!TooShort, M!Reject, M!stream
  <1> QED
    BY <1>1, DesyncKeeps

LEMMA ReadThreadIDKeeps ==
  ASSUME MessageInv, M!ReadThreadID
  PROVE  MessageInv'
  <1>1. /\ type \in M!WithThreadID
        /\ \/ M!TooShort
           \/ /\ mReader' = M!Dropped(IDSize)
              /\ M!Parsed([type |-> type, threadID |-> M!ReadT(IDSize, mReader)])
    BY DEF M!ReadThreadID
  <1>2. CASE M!TooShort
    BY <1>2, TooShortKeeps
  <1>3. CASE /\ mReader' = M!Dropped(IDSize)
             /\ M!Parsed([type |-> type, threadID |-> M!ReadT(IDSize, mReader)])
    <2>1. CASE desynced
      <3>1. desynced' /\ UNCHANGED <<reader, validTypes, framing, messages>>
        BY <1>3, <2>1 DEF M!Parsed, M!stream
      <3> QED
        BY <3>1, DesyncKeeps
    <2>2. CASE ~desynced
      <3>1. type # 0
        BY <1>1 DEF M!WithThreadID
      <3>2. BodyLeft /\ Current \in M!Message /\ type = Current.type /\ reader = "big"
        BY <2>2, <3>1, BodyIs
      <3>3. PICK x \in ThreadID : Current.type = 32800 /\ x = Current.threadID /\ Current = [type |-> 32800, threadID |-> x]
        <4>1. Current.type \notin {8192, 32837}
          BY <1>1, <3>2 DEF M!WithThreadID
        <4> QED
          BY <3>2, <4>1, MessageIs
      <3>4. PICK z \in Nat \ {0} : z = IDSize /\ Powers(z) /\ x \in Nat /\ M!Number(M!WriteOneT(z, x)) = x
        BY IDIs
      <3>5. PICK b \in Seq(Nat) : b = M!WriteOneT(z, x) /\ Len(b) = z
        <4>1. M!WriteOneT(z, x) \in Seq(Nat) /\ Len(M!WriteOneT(z, x)) = z
          BY ONLY <3>4, z \in Nat \ {0}, WriteOneIs
        <4> QED
          BY <4>1
      <3>6. mReader = b
        <4>1. BodyOf(Current) = M!WriteOneT(IDSize, x)
          BY <3>3 DEF BodyOf
        <4> QED
          BY <3>2, <3>4, <3>5, <4>1, Zenon DEF BodyLeft
      <3>7. M!ReadT(IDSize, mReader) = x
        <4>1. b \o <<>> = b /\ <<>> \in Seq(Nat)
          BY ConcatEmptySeq
        <4>2. M!ReadT(z, b \o <<>>) = M!Number(b)
          BY <3>2, <3>5, <4>1, FieldBack, z \in Nat
        <4> QED
          BY <3>4, <3>5, <3>6, <4>1, <4>2, Zenon
      <3>8. mReader' = <<>>
        <4>1. SubSeq(b, z + 1, Len(b)) = <<>>
          BY <3>5, NothingLeft
        <4> QED
          BY <1>3, <3>4, <3>6, <4>1, Zenon DEF M!Dropped
      <3>9. M!Parsed(Current)
        <4>1. [type |-> type, threadID |-> M!ReadT(IDSize, mReader)] = Current
          BY <3>2, <3>3, <3>7
        <4> QED
          BY <1>3, <4>1, Zenon
      <3> QED
        BY <2>2, <3>2, <3>8, <3>9, ParsedKeeps
    <2> QED
      BY <2>1, <2>2
  <1> QED
    BY <1>1, <1>2, <1>3

\* The size of an array and its elements are read as they were written.
LEMMA ReadThreadIDsKeeps ==
  ASSUME MessageInv, M!ReadThreadIDs
  PROVE  MessageInv'
  <1>0. CASE M!TooShort
    BY <1>0, TooShortKeeps
  <1>1. CASE desynced /\ ~M!TooShort
    <2>1. desynced' /\ UNCHANGED <<reader, validTypes, framing, messages>>
      BY <1>1 DEF M!ReadThreadIDs, M!Parsed, M!Reject, M!stream
    <2> QED
      BY <2>1, DesyncKeeps
  <1>2. CASE ~desynced /\ ~M!TooShort
    <2>0. type # 0 /\ type # 8192 /\ type # 32800
      BY DEF M!ReadThreadIDs, M!WithThreadIDs
    <2>1. BodyLeft /\ Current \in M!Message /\ type = Current.type /\ reader = "big"
      BY <1>2, <2>0, BodyIs
    <2>2. PICK ids \in M!SeqOf(ThreadID, MaxIDs) : ids = Current.ids /\ Current = [type |-> type, ids |-> ids]
      BY <2>0, <2>1, MessageIs
    <2>3. PICK n \in Nat : n = Len(ids) /\ Short(n)
      BY IDsAre
    <2>4. PICK c \in Seq(Nat), b \in Seq(Nat) :
            /\ c = M!WriteOneT(2, n) /\ Len(c) = 2 /\ M!Number(c) = n
            /\ b = M!WriteVector(ids) /\ Len(b) = n * IDSize
      <3>1. M!WriteOneT(2, n) \in Seq(Nat) /\ Len(M!WriteOneT(2, n)) = 2 /\ M!Number(M!WriteOneT(2, n)) = n
        BY <2>3, SmallIs, Zenon
      <3>2. M!WriteVector(ids) \in Seq(Nat) /\ Len(M!WriteVector(ids)) = n * IDSize
        BY <2>3, VectorIs, Zenon DEF BlocksIn
      <3> QED
        BY <3>1, <3>2, Zenon
    <2>5. PICK l \in Nat : l = n * IDSize
      BY MessageAssumption
    <2>6. mReader = c \o b
      <3>1. BodyOf(Current) = M!WriteOneT(2, Len(Current.ids)) \o M!WriteVector(Current.ids)
        <4>1. Current.type # 8192 /\ Current.type # 32800
          BY <2>0, <2>1
        <4> QED
          BY ONLY <4>1 DEF BodyOf
      <3>2. Len(Current.ids) = n /\ Current.ids = ids
        BY <2>2, <2>3, Zenon
      <3> QED
        BY <2>1, <2>4, <3>1, <3>2, Zenon DEF BodyLeft
    <2>7. c \o b \in Seq(Nat) /\ Len(c \o b) = 2 + l /\ SubSeq(c \o b, 2 + 1, Len(c \o b)) = b
      <3>1. /\ c \o b \in Seq(Nat) /\ Len(c \o b) = Len(c) + Len(b)
            /\ SubSeq(c \o b, Len(c) + 1, Len(c \o b)) = b
        BY JoinParts, Zenon
      <3> QED
        BY <2>4, <2>5, <3>1, Zenon
    <2>8. M!CanReadT(2) /\ M!ReadT(2, mReader) = n /\ M!Dropped(2) = b /\ Len(mReader) = 2 + n * IDSize
      <3>1. 2 + l >= 2 /\ 2 \in Nat
        OBVIOUS
      <3>2. M!CanReadT(2)
        BY <2>6, <2>7, <3>1, Zenon DEF M!CanReadT
      <3>3. M!ReadT(2, c \o b) = M!Number(c)
        BY <2>1, <2>4, <3>1, FieldBack, Zenon
      <3>4. M!ReadT(2, mReader) = n
        BY <2>4, <2>6, <3>3, Zenon
      <3>5. M!Dropped(2) = b
        BY <2>6, <2>7, Zenon DEF M!Dropped
      <3>6. Len(mReader) = 2 + n * IDSize
        BY <2>5, <2>6, <2>7, Zenon
      <3> QED
        BY <3>2, <3>4, <3>5, <3>6
    <2>9. M!Dropped(2 + n * IDSize) = <<>>
      <3>1. SubSeq(c \o b, (2 + l) + 1, Len(c \o b)) = <<>>
        BY <2>7, NothingLeft, 2 + l \in Nat
      <3> QED
        BY <2>5, <2>6, <3>1, Zenon DEF M!Dropped
    <2>10. Len(mReader) >= 2 + n * IDSize
      <3>1. 2 + l >= 2 + l
        OBVIOUS
      <3> QED
        BY <2>5, <2>8, <3>1, Zenon
    <2>11. /\ mReader' = M!Dropped(2 + n * IDSize)
           /\ M!Parsed([type |-> type, ids |-> M!ReadTVector(n, M!Dropped(2))])
      BY <2>8, <2>10, Zenon DEF M!ReadThreadIDs
    <2>12. M!ReadTVector(n, M!Dropped(2)) = ids
      BY <2>1, <2>3, <2>4, <2>8, VectorBack, Zenon
    <2>13. M!Parsed(Current) /\ mReader' = <<>>
      BY <2>2, <2>9, <2>11, <2>12, Zenon
    <2> QED
      BY <1>2, <2>1, <2>13, ParsedKeeps
  <1> QED
    BY <1>0, <1>1, <1>2

LEMMA MessageInvNext == ASSUME MessageInv, [M!Next]_(M!vars) PROVE MessageInv'
  <1>1. CASE UNCHANGED M!vars
    <2>1. /\ reader' = reader /\ validTypes' = validTypes /\ framing' = framing /\ mReader' = mReader
          /\ type' = type /\ messages' = messages /\ outcomes' = outcomes /\ desynced' = desynced
      BY <1>1 DEF M!vars, M!stream
    <2> QED
      BY <2>1 DEF MessageInv, AllRead, LastArrived, BodyLeft, Current
  <1>2. ASSUME NEW m \in M!Message, M!SendMessage(m) PROVE MessageInv'
    BY <1>2, SendMessageKeeps
  <1>3. ASSUME NEW n, M!Cut(n) PROVE MessageInv'
    <2>1. desynced' /\ UNCHANGED <<reader, validTypes, framing, messages>>
      BY <1>3 DEF M!Cut, M!stream
    <2> QED
      BY <2>1, DesyncKeeps
  <1>4. CASE M!ReceiveMessage
    BY <1>4, ReceiveMessageKeeps
  <1>5. CASE M!ReadBodyLess
    BY <1>5, ReadBodyLessKeeps
  <1>6. CASE M!ReadThreadID
    BY <1>6, ReadThreadIDKeeps
  <1>7. CASE M!ReadThreadIDs
    BY <1>7, ReadThreadIDsKeeps
  <1> QED
    BY <1>1, <1>2, <1>3, <1>4, <1>5, <1>6, <1>7, Zenon DEF M!Next

\* MessagesReadBack for ids and fields of any size: what the receiver parses is what
\* was sent, message by message, until one is cut or rejected, and a message takes
\* the room that writableSize asks for (Message.hpp, ReadFrom and writeToWriter;
\* MessageStream.cpp, receiveMessage).
THEOREM MessagesAlwaysReadBack == M!Spec => []MessagesReadBack
  <1>1. MessageInv => MessagesReadBack
    <2> SUFFICES ASSUME MessageInv PROVE MessagesReadBack
      OBVIOUS
    <2>1. ASSUME ~desynced
          PROVE  M!IsPrefix(outcomes, messages) /\ (Len(outcomes) = Len(messages) => mReader = <<>>)
      <3>1. outcomes \in Seq(M!Message) /\ messages \in Seq(M!Message)
            /\ \A i \in 1 .. Len(outcomes) : outcomes[i] = messages[i]
        BY <2>1 DEF MessageInv
      <3>2. PICK k \in Nat, n \in Nat : k = Len(outcomes) /\ n = Len(messages)
        BY <3>1, LenProperties
      <3>3. k <= n /\ (k = n => mReader = <<>>)
        <4>1. AllRead \/ k + 1 = n
          BY <2>1, <3>2 DEF MessageInv, LastArrived, BodyLeft
        <4>2. CASE AllRead
          BY <3>2, <4>2 DEF AllRead
        <4>3. CASE k + 1 = n
          BY <4>3
        <4> QED
          BY <4>1, <4>2, <4>3
      <3>4. SubSeq(outcomes, 1, k) = SubSeq(messages, 1, k)
        <4>1. PICK p, q : p = SubSeq(outcomes, 1, k) /\ q = SubSeq(messages, 1, k)
          OBVIOUS
        <4>2. \A i \in 1 .. k : outcomes[i] \in M!Message /\ messages[i] \in M!Message
          BY <3>1, <3>2, <3>3, ElementOfSeq
        <4>3. p \in Seq(M!Message) /\ q \in Seq(M!Message) /\ Len(p) = k /\ Len(q) = k
              /\ \A i \in 1 .. k : p[i] = outcomes[i] /\ q[i] = messages[i]
          BY <3>1, <3>2, <3>3, <4>1, <4>2, SubSeqProperties
        <4>4. p = q
          BY <3>1, <3>2, <4>3, SeqEqual
        <4> QED
          BY <4>1, <4>4
      <3> QED
        BY <3>2, <3>3, <3>4, Zenon DEF M!IsPrefix
    <2>2. ASSUME NEW i \in DOMAIN messages
          PROVE  Len(M!WriteToWriter(messages[i])) = M!WritableSize(messages[i])
      <3>1. messages[i] \in M!Message
        BY LenProperties DEF MessageInv
      <3> QED
        BY <3>1, WrittenIs
    <2> QED
      BY <2>1, <2>2, Zenon DEF MessagesReadBack, M!MessagesReadBack
  <1>2. M!Init => MessageInv
    <2> SUFFICES ASSUME M!Init PROVE MessageInv
      OBVIOUS
    <2>1. <<>> \in Seq(M!Message) /\ Len(<<>>) = 0
      OBVIOUS
    <2>2. outcomes = <<>> /\ messages = <<>> /\ mReader = <<>> /\ type = 0 /\ desynced = FALSE
      BY DEF M!Init
    <2>3. reader \in {"little", "big"} /\ validTypes \in {{}, M!Type} /\ framing \in {"tcp", "udp"}
      BY DEF M!Init
    <2>4. AllRead
      BY <2>2, Zenon DEF AllRead
    <2>5. \A i \in 1 .. Len(outcomes) : outcomes[i] = messages[i]
      BY <2>1, <2>2
    <2> QED
      BY <2>1, <2>2, <2>3, <2>4, <2>5, Zenon DEF MessageInv
  <1>3. MessageInv /\ [M!Next]_(M!vars) => MessageInv'
    BY MessageInvNext
  <1> QED
    BY <1>1, <1>2, <1>3, PTL DEF M!Spec

=============================================================================
