------------------------- MODULE ProcessPeersProofs -------------------------
(***************************************************************************)
(* Proofs about ProcessPeers, for any peers, threads, clients and list     *)
(* nodes.  AllInv is the inductive invariant.  It counts the threads of a  *)
(* connection as the handler's step leaves them: the threads that          *)
(* addThreads has still to enter count already, and the thread whose       *)
(* connection removeThreads has just counted down counts no more.          *)
(***************************************************************************)
EXTENDS ProcessPeers, FiniteSetTheorems, SequenceTheorems, TLAPS

HandlerSteps == {"idle", "lock", "addConnection", "addThread", "removeThread", "removeThreadID", "crashed"}
ClientSteps == {"idle", "lock", "find", "copy", "send", "waiting", "returned"}
Datagram == [peer : Peer, seqno : Nat]

\* The threads that the count of connection i stands for.
ThreadsCounted(i) ==
  {t \in Thread :
     \/ mThreadIDToStream[t] = i /\ ~(hpc = "removeThreadID" /\ t = Head(todo))
     \/ hpc = "addThread" /\ i = Last(mConnectionsList) /\ t \in ToSet(todo)}

\* The threads that the connection of p should count, when no message was lost,
\* repeated or reordered.
Due(p) ==
  IF hpc \in {"addThread", "removeThread", "removeThreadID"} /\ p = message.peer
  THEN IF hpc = "addThread" THEN ToSet(Hosts[p])
       ELSE IF hpc = "removeThread" THEN ToSet(todo) ELSE ToSet(Tail(todo))
  ELSE IF p \in connected THEN ToSet(Hosts[p]) ELSE {}

\* The list, the map and the handler's variables.
ListInv ==
  /\ mConnectionsList \in Seq(Iterator) /\ IsInjective(mConnectionsList)
  /\ info \in [Iterator -> Peer \cup {Null}]
  /\ referenceCount \in [Iterator -> Int]
  /\ mThreadIDToStream \in [Thread -> Iterator \cup {Null}]

HandlerInv ==
  /\ todo \in Seq(Thread) /\ IsInjective(todo)
  /\ hpc \in HandlerSteps
  /\ hpc # "idle" => message \in Datagram
  /\ hpc = "addConnection" => todo = Hosts[message.peer]
  /\ hpc = "addThread" => mConnectionsList # <<>> /\ info[Last(mConnectionsList)] = message.peer
  /\ hpc \in {"addThread", "removeThread", "removeThreadID"} => ToSet(todo) \subseteq ToSet(Hosts[message.peer])
  /\ hpc = "removeThreadID" => todo # <<>> /\ mThreadIDToStream[Head(todo)] # Null

\* Who holds the lock.
LockInv ==
  /\ writing <=> hpc \notin {"idle", "lock"}
  /\ writing => readers = {}
  /\ cpc \in [Client -> ClientSteps]
  /\ \A c \in Client : cpc[c] \in {"find", "copy"} => c \in readers
  /\ dpc = "walk" => DestructorReader \in readers

\* A connection counts its threads, and more after a repeated hello.
CoverInv ==
  \A i \in Iterator :
    /\ IsFiniteSet(ThreadsCounted(i))
    /\ ThreadsCounted(i) # {} => i \in Live /\ referenceCount[i] >= Cardinality(ThreadsCounted(i))

\* A thread leads to a peer that hosts it.
LeadInv ==
  \A t \in Thread :
    mThreadIDToStream[t] # Null =>
      info[mThreadIDToStream[t]] \in Peer /\ t \in ToSet(Hosts[info[mThreadIDToStream[t]]])

\* A client that holds the lock has its thread's iterator.
CopyInv ==
  /\ DOMAIN cThread = Client /\ DOMAIN found = Client
  /\ \A c \in Client :
       /\ cpc[c] # "idle" => cThread[c] \in Thread
       /\ cpc[c] = "copy" => found[c] = mThreadIDToStream[cThread[c]] /\ found[c] # Null

\* The parity of the last message of a peer tells whether it is connected.
OrderInv ==
  /\ seqno \in [Peer -> Nat] /\ sent \in [Peer -> Nat] /\ net \subseteq Datagram /\ connected \subseteq Peer
  /\ hpc # "idle" /\ ~disordered => message.seqno = seqno[message.peer]
  /\ ~disordered => \A p \in Peer :
       IF hpc # "idle" /\ p = message.peer THEN (seqno[p] % 2 = 1 <=> p \notin connected)
       ELSE (seqno[p] % 2 = 1 <=> p \in connected)
  /\ hpc \in {"addConnection", "addThread"} => IsHello(message)
  /\ hpc \in {"removeThread", "removeThreadID"} => ~IsHello(message)
  /\ hpc = "crashed" => disordered

\* Connection i counts the threads due to its peer, and there are some if the peer
\* announces any.
ExactAt(i) ==
  /\ info[i] \in Peer /\ ThreadsCounted(i) = Due(info[i])
  /\ info[i] \in Announcing => Due(info[i]) # {}
  /\ referenceCount[i] = Cardinality(Due(info[i]))

\* A connected peer that announces no thread has a connection, which counts none.
Listed(p) == p \in connected /\ p \notin Announcing

\* Without disorder, there is one connection for each peer with threads due, and
\* it counts them.
ExactInv ==
  ~disordered =>
    /\ \A i \in Live : ExactAt(i)
    /\ \A i, j \in Live : info[i] = info[j] /\ info[i] \in Announcing => i = j
    /\ \A p \in Peer : Due(p) # {} \/ Listed(p) => \E i \in Live : info[i] = p

\* The destructor has sent to the connections before its iterator, and to none
\* before it has the lock.
WalkInv ==
  /\ dpc = "alive" => sentTo = <<>>
  /\ dpc = "walk" =>
       /\ at \in 1 .. Len(mConnectionsList) + 1
       /\ sentTo = [k \in 1 .. at - 1 |-> info[mConnectionsList[k]]]
       /\ expected = connected

-----------------------------------------------------------------------------
(* Sequences.                                                              *)

\* The elements of a sequence, by their positions.
LEMMA ToSetMembers ==
  ASSUME NEW S, NEW s \in Seq(S)
  PROVE  ToSet(s) \subseteq S /\ \A x : x \in ToSet(s) <=> \E k \in 1 .. Len(s) : s[k] = x
  BY DEF ToSet

\* A sequence without repetition has as many elements as positions.
LEMMA InjectiveCardinality ==
  ASSUME NEW S, NEW s \in Seq(S), IsInjective(s)
  PROVE  IsFiniteSet(ToSet(s)) /\ Cardinality(ToSet(s)) = Len(s)
  <1>1. s \in Bijection(1 .. Len(s), ToSet(s))
    BY DEF Bijection, Injection, Surjection, IsInjective, ToSet
  <1>2. Len(s) \in Nat /\ ExistsBijection(1 .. Len(s), ToSet(s))
    BY <1>1, LenProperties DEF ExistsBijection
  <1> QED
    BY <1>2, FS_NatBijection, FS_CountingElements

\* The first element of a sequence without repetition is not in the rest.
LEMMA TailMembers ==
  ASSUME NEW S, NEW s \in Seq(S), IsInjective(s), s # <<>>
  PROVE  /\ Head(s) \in S /\ Tail(s) \in Seq(S) /\ IsInjective(Tail(s))
         /\ Head(s) \in ToSet(s) /\ ToSet(Tail(s)) = ToSet(s) \ {Head(s)}
         /\ Len(Tail(s)) = Len(s) - 1
  <1>1. /\ Head(s) = s[1] /\ Head(s) \in S /\ Len(s) \in Nat \ {0}
        /\ Tail(s) \in Seq(S) /\ Len(Tail(s)) = Len(s) - 1 /\ \A k \in 1 .. Len(Tail(s)) : Tail(s)[k] = s[k + 1]
    BY HeadTailProperties
  <1>2. IsInjective(Tail(s))
    BY <1>1 DEF IsInjective
  <1>3. ASSUME NEW k \in 1 .. Len(Tail(s)) PROVE Tail(s)[k] \in ToSet(s) \ {Head(s)}
    <2>1. k + 1 \in 1 .. Len(s) /\ Tail(s)[k] = s[k + 1] /\ 1 \in 1 .. Len(s) /\ k + 1 # 1
      BY <1>1
    <2>2. s[k + 1] # s[1]
      BY <2>1 DEF IsInjective
    <2> QED
      BY <1>1, <2>1, <2>2 DEF ToSet
  <1>4. ASSUME NEW x \in ToSet(s), x # Head(s) PROVE x \in ToSet(Tail(s))
    <2>1. PICK k \in 1 .. Len(s) : s[k] = x
      BY ToSetMembers
    <2>2. k - 1 \in 1 .. Len(Tail(s)) /\ Tail(s)[k - 1] = x
      BY <1>1, <1>4, <2>1
    <2>3. DOMAIN Tail(s) = 1 .. Len(Tail(s))
      BY <1>1, LenProperties
    <2> QED
      BY <2>2, <2>3, Zenon DEF ToSet
  <1>5. ToSet(Tail(s)) = ToSet(s) \ {Head(s)}
    BY <1>1, <1>3, <1>4 DEF ToSet
  <1>6. Head(s) \in ToSet(s)
    BY <1>1 DEF ToSet
  <1> QED
    BY <1>1, <1>2, <1>5, <1>6

\* Append of a new element.
LEMMA AppendMembers ==
  ASSUME NEW S, NEW s \in Seq(S), IsInjective(s), NEW x \in S, x \notin ToSet(s)
  PROVE  /\ Append(s, x) \in Seq(S) /\ IsInjective(Append(s, x)) /\ Append(s, x) # <<>>
         /\ ToSet(Append(s, x)) = ToSet(s) \cup {x} /\ Last(Append(s, x)) = x
  <1>1. /\ Append(s, x) \in Seq(S) /\ Len(Append(s, x)) = Len(s) + 1 /\ Len(s) \in Nat
        /\ Append(s, x)[Len(s) + 1] = x /\ \A k \in 1 .. Len(s) : Append(s, x)[k] = s[k]
    BY AppendProperties
  <1>2. IsInjective(Append(s, x))
    BY <1>1, ToSetMembers DEF IsInjective
  <1>3. ToSet(Append(s, x)) = ToSet(s) \cup {x}
    <2>1. \A k \in 1 .. Len(s) + 1 : k \in 1 .. Len(s) \/ k = Len(s) + 1
      BY <1>1
    <2>2. \A k \in 1 .. Len(s) : k \in 1 .. Len(s) + 1
      BY <1>1
    <2>3. DOMAIN Append(s, x) = 1 .. Len(s) + 1 /\ DOMAIN s = 1 .. Len(s) /\ Len(s) + 1 \in 1 .. Len(s) + 1
      BY <1>1
    <2> QED
      BY <1>1, <2>1, <2>2, <2>3, Zenon DEF ToSet
  <1> QED
    BY <1>1, <1>2, <1>3 DEF Last

\* Erase removes one node.
LEMMA EraseMembers ==
  ASSUME mConnectionsList \in Seq(Iterator), IsInjective(mConnectionsList), NEW i \in Live
  PROVE  Erase(i) \in Seq(Iterator) /\ IsInjective(Erase(i)) /\ ToSet(Erase(i)) = Live \ {i}
  <1> DEFINE l == mConnectionsList
             k == CHOOSE j \in DOMAIN l : l[j] = i
             e == Erase(i)
             before == SubSeq(l, 1, k - 1)
             after == SubSeq(l, k + 1, Len(l))
  <1>1. k \in 1 .. Len(l) /\ l[k] = i /\ Len(l) \in Nat
    BY DEF Live, ToSet
  <1>2. e = before \o after
    BY DEF Erase, RemoveAt
  <1>3. before \in Seq(Iterator) /\ Len(before) = k - 1 /\ \A j \in 1 .. k - 1 : before[j] = l[j]
    BY <1>1, SubSeqProperties
  <1>4. after \in Seq(Iterator) /\ Len(after) = Len(l) - k /\ \A j \in 1 .. Len(l) - k : after[j] = l[k + j]
    BY <1>1, SubSeqProperties
  <1> HIDE DEF k, e, before, after
  <1>5. /\ e \in Seq(Iterator) /\ Len(e) = Len(l) - 1
        /\ \A j \in 1 .. Len(e) : e[j] = IF j < k THEN l[j] ELSE l[j + 1]
    <2>1. /\ e \in Seq(Iterator) /\ Len(e) = Len(before) + Len(after)
          /\ \A j \in 1 .. Len(before) + Len(after) :
               e[j] = IF j <= Len(before) THEN before[j] ELSE after[j - Len(before)]
      BY <1>2, <1>3, <1>4, ConcatProperties
    <2>2. Len(e) = Len(l) - 1 /\ Len(before) = k - 1
      BY <1>1, <1>3, <1>4, <2>1
    <2>3. ASSUME NEW j \in 1 .. Len(e) PROVE e[j] = IF j < k THEN l[j] ELSE l[j + 1]
      <3>0. j \in 1 .. Len(before) + Len(after)
        BY <2>1
      <3>1. CASE j < k
        <4>1. j <= Len(before) /\ j \in 1 .. k - 1
          BY <1>1, <2>2, <3>1
        <4>2. e[j] = before[j] /\ before[j] = l[j]
          BY <1>3, <2>1, <3>0, <4>1
        <4> QED
          BY <3>1, <4>2
      <3>2. CASE ~(j < k)
        <4>1. ~(j <= Len(before)) /\ j - Len(before) \in 1 .. Len(l) - k /\ k + (j - Len(before)) = j + 1
          BY <1>1, <2>2, <3>2
        <4>2. e[j] = after[j - Len(before)]
          BY <2>1, <3>0, <4>1
        <4>3. after[j - Len(before)] = l[j + 1]
          BY <1>4, <4>1
        <4> QED
          BY <3>2, <4>2, <4>3
      <3> QED
        BY <3>1, <3>2
    <2> QED
      BY <2>1, <2>2, <2>3
  <1>6. IsInjective(e)
    <2>1. \A m, n \in 1 .. Len(l) : l[m] = l[n] => m = n
      BY <1>1 DEF IsInjective
    <2>2. ASSUME NEW m \in 1 .. Len(e), NEW n \in 1 .. Len(e), e[m] = e[n] PROVE m = n
      <3> DEFINE Shift(j) == IF j < k THEN j ELSE j + 1
      <3>1. Shift(m) \in 1 .. Len(l) /\ Shift(n) \in 1 .. Len(l) /\ (Shift(m) = Shift(n) => m = n)
        BY <1>1, <1>5
      <3>2. e[m] = l[Shift(m)] /\ e[n] = l[Shift(n)]
        BY <1>5
      <3> HIDE DEF Shift
      <3> QED
        BY <2>1, <2>2, <3>1, <3>2
    <2>3. DOMAIN e = 1 .. Len(e)
      BY <1>5
    <2> QED
      BY <2>2, <2>3, Zenon DEF IsInjective
  <1>7. ASSUME NEW j \in 1 .. Len(e) PROVE e[j] \in Live \ {i}
    <2>1. PICK m \in 1 .. Len(l) : m # k /\ e[j] = l[m]
      BY <1>1, <1>5, <1>7
    <2>2. l[m] # i
      BY <1>1, <2>1 DEF IsInjective
    <2> QED
      BY <1>1, <2>1, <2>2 DEF Live, ToSet
  <1>8. ASSUME NEW x \in Live, x # i PROVE x \in ToSet(e)
    <2>1. PICK j \in 1 .. Len(l) : l[j] = x
      BY ToSetMembers DEF Live
    <2>2. \E m \in 1 .. Len(e) : e[m] = x
      <3>1. CASE j < k
        BY <1>1, <1>5, <2>1, <3>1
      <3>2. CASE j > k
        <4>1. j - 1 \in 1 .. Len(e) /\ e[j - 1] = x
          BY <1>1, <1>5, <2>1, <3>2
        <4> QED
          BY <4>1
      <3> QED
        BY <1>1, <1>8, <2>1, <3>1, <3>2
    <2> QED
      BY <1>5, <2>2, ToSetMembers
  <1> QED
    <2>1. ToSet(e) = Live \ {i}
      BY <1>5, <1>7, <1>8 DEF ToSet
    <2> QED
      BY <1>5, <1>6, <2>1 DEF e

-----------------------------------------------------------------------------
(* The inductive invariant, part by part.                                  *)

AllInv ==
  /\ ListInv /\ HandlerInv /\ LockInv /\ CoverInv /\ LeadInv /\ CopyInv
  /\ OrderInv /\ ExactInv /\ WalkInv /\ GoodbyeReachesAll

\* The handler's steps change the list and the map; Receive gives it a message.
LEMMA OthersKeepList ==
  ASSUME Next, ~HandlerStep
  PROVE  /\ UNCHANGED <<list, todo, connected, writing>>
         /\ UNCHANGED <<hpc, message>> \/ (hpc = "idle" /\ \E m \in net : Receive(m))
  BY DEF Next, PeerSends, Lose, Receive, ClientStep, StartTask, ClientLock, FindThread, FindNoThread, CopyInfo,
         SendTask, Answer, WaitForTask, SendGoodbye, DestructorStep, SendToNext, SendToAllEnd,
         LockRead, UnlockRead, UnlockNotFound, list, handler, lock

\* The node of a new connection is not on the list.
LEMMA NewIteratorIsNew ==
  ASSUME AddConnection
  PROVE  NewIterator \in Iterator /\ NewIterator \notin Live
  BY DEF AddConnection, NewIterator

\* The iterator that the handler follows is of a connection on the list, and its
\* count is positive.
LEMMA RemovedIsLive ==
  ASSUME AllInv, RemoveThread
  PROVE  LET i == mThreadIDToStream[Head(todo)] IN
         i \in Iterator /\ i \in Live /\ Head(todo) \in ThreadsCounted(i)
         /\ referenceCount[i] >= Cardinality(ThreadsCounted(i)) /\ IsFiniteSet(ThreadsCounted(i))
  <1>1. Head(todo) \in Thread /\ hpc = "removeThread" /\ mThreadIDToStream[Head(todo)] # Null
    BY TailMembers DEF AllInv, HandlerInv, RemoveThread
  <1>2. mThreadIDToStream[Head(todo)] \in Iterator
    BY <1>1 DEF AllInv, ListInv
  <1>3. Head(todo) \in ThreadsCounted(mThreadIDToStream[Head(todo)])
    BY <1>1 DEF ThreadsCounted
  <1> QED
    BY <1>2, <1>3 DEF AllInv, CoverInv

\* The list keeps its types, and holds no node twice.
LEMMA ListStep ==
  ASSUME AllInv, Next
  PROVE  ListInv'
  <1> USE DEF AllInv
  <1>1. CASE ~HandlerStep
    BY <1>1, OthersKeepList DEF ListInv, list
  <1>2. CASE HandlerLock \/ RemoveUnknownThread \/ HandlerUnlock
    BY <1>2 DEF HandlerLock, RemoveUnknownThread, HandlerUnlock, ListInv, list
  <1>3. CASE AddConnection
    <2>1. message.peer \in Peer /\ todo \in Seq(Thread)
      BY <1>3 DEF AddConnection, HandlerInv, Datagram
    <2>2. Append(mConnectionsList, NewIterator) \in Seq(Iterator) /\ IsInjective(Append(mConnectionsList, NewIterator))
      BY <1>3, NewIteratorIsNew, AppendMembers DEF ListInv, Live
    <2>3. CountThreads(todo) \in Int
      BY <2>1, LenProperties DEF CountThreads
    <2> QED
      BY <1>3, <2>1, <2>2, <2>3, NewIteratorIsNew DEF AddConnection, ListInv
  <1>4. CASE AddThread
    <2>1. Head(todo) \in Thread
      BY <1>4, TailMembers DEF AddThread, HandlerInv
    <2>2. Last(mConnectionsList) \in Iterator
      BY <1>4, LenProperties DEF AddThread, HandlerInv, ListInv, Last
    <2> QED
      BY <1>4, <2>1, <2>2 DEF AddThread, ListInv
  <1>5. CASE RemoveThread
    <2>1. mThreadIDToStream[Head(todo)] \in Live /\ mThreadIDToStream[Head(todo)] \in Iterator
      BY <1>5, RemovedIsLive
    <2>2. mConnectionsList' \in Seq(Iterator) /\ IsInjective(mConnectionsList')
      BY <1>5, <2>1, EraseMembers DEF RemoveThread, ListInv
    <2> QED
      BY <1>5, <2>1, <2>2 DEF RemoveThread, ListInv
  <1>6. CASE RemoveThreadID
    BY <1>6 DEF RemoveThreadID, ListInv
  <1> QED
    BY <1>1, <1>2, <1>3, <1>4, <1>5, <1>6 DEF HandlerStep

\* The handler has a message while it works, and threads of its peer left.
LEMMA HandlerInvStep ==
  ASSUME AllInv, Next
  PROVE  HandlerInv'
  <1> USE DEF AllInv, HandlerSteps
  <1>1. CASE ~HandlerStep
    <2>1. CASE UNCHANGED <<hpc, message>>
      BY <1>1, <2>1, OthersKeepList DEF HandlerInv, list
    <2>2. ASSUME NEW m \in net, hpc = "idle", Receive(m) PROVE HandlerInv'
      BY <1>1, <2>2, OthersKeepList DEF HandlerInv, list, Receive, OrderInv
    <2> QED
      BY <1>1, <2>1, <2>2, OthersKeepList
  <1>2. CASE HandlerLock
    <2>1. message \in Datagram /\ message.peer \in Peer
      BY <1>2 DEF HandlerLock, HandlerInv, Datagram
    <2>2. todo' = Hosts[message.peer]
      BY <1>2 DEF HandlerLock, ThreadsToAdd
    <2>3. Hosts[message.peer] \in Seq(Thread) /\ IsInjective(Hosts[message.peer])
      BY <2>1, HostsAssumption
    <2>4. hpc' \in {"addConnection", "removeThread"} /\ message' = message
      BY <1>2 DEF HandlerLock
    <2> QED
      BY <2>1, <2>2, <2>3, <2>4 DEF HandlerInv
  <1>3. CASE AddConnection
    <2>1. mConnectionsList' # <<>> /\ Last(mConnectionsList') = NewIterator
      BY <1>3, NewIteratorIsNew, AppendMembers DEF AddConnection, ListInv, Live
    <2>2. info'[NewIterator] = message.peer
      BY <1>3, NewIteratorIsNew DEF AddConnection, ListInv
    <2> QED
      BY <1>3, <2>1, <2>2 DEF AddConnection, HandlerInv
  <1>4. CASE AddThread
    <2>1. Tail(todo) \in Seq(Thread) /\ IsInjective(Tail(todo)) /\ ToSet(Tail(todo)) \subseteq ToSet(todo)
      BY <1>4, TailMembers DEF AddThread, HandlerInv
    <2> QED
      BY <1>4, <2>1 DEF AddThread, HandlerInv
  <1>5. CASE RemoveThread
    BY <1>5 DEF RemoveThread, HandlerInv
  <1>6. CASE RemoveThreadID
    <2>1. Tail(todo) \in Seq(Thread) /\ IsInjective(Tail(todo)) /\ ToSet(Tail(todo)) \subseteq ToSet(todo)
      BY <1>6, TailMembers DEF RemoveThreadID, HandlerInv
    <2> QED
      BY <1>6, <2>1 DEF RemoveThreadID, HandlerInv
  <1>7. CASE RemoveUnknownThread \/ HandlerUnlock
    BY <1>7 DEF RemoveUnknownThread, HandlerUnlock, HandlerInv
  <1> QED
    BY <1>1, <1>2, <1>3, <1>4, <1>5, <1>6, <1>7 DEF HandlerStep

\* The RWLock excludes the handler and the readers.
LEMMA LockStep ==
  ASSUME AllInv, Next
  PROVE  LockInv'
  <1> USE DEF AllInv, HandlerSteps, ClientSteps
  <1>1. LockInv /\ hpc \in HandlerSteps
    BY DEF HandlerInv
  <1>2. CASE \E p \in Peer : PeerSends(p)
    BY <1>1, <1>2 DEF LockInv, PeerSends, lock, handler, clients, destructor
  <1>3. CASE \E m \in net : Lose(m) \/ Receive(m)
    BY <1>1, <1>3 DEF LockInv, Lose, Receive, lock, handler, clients, destructor
  <1>4. CASE HandlerLock
    <2>1. ~writing /\ readers = {} /\ writing' /\ readers' = {}
      BY <1>4 DEF HandlerLock, LockWrite
    <2>2. hpc' \in {"addConnection", "removeThread"}
      BY <1>4 DEF HandlerLock
    <2>3. UNCHANGED <<cpc, dpc>>
      BY <1>4 DEF HandlerLock, clients, destructor
    <2> QED
      BY <1>1, <2>1, <2>2, <2>3 DEF LockInv
  <1>5. CASE AddConnection \/ AddThread \/ RemoveThread \/ RemoveThreadID \/ RemoveUnknownThread
    BY <1>1, <1>5 DEF LockInv, AddConnection, AddThread, RemoveThread, RemoveThreadID, RemoveUnknownThread, lock, clients, destructor
  <1>6. CASE HandlerUnlock
    <2>1. ~writing' /\ readers' = readers
      BY <1>6 DEF HandlerUnlock, UnlockWrite
    <2> QED
      BY <1>1, <1>6, <2>1 DEF LockInv, HandlerUnlock, clients, destructor
  <1>7. ASSUME NEW c \in Client, (\E t \in Thread : StartTask(c, t)) \/ Answer(c) \/ SendTask(c) \/ WaitForTask(c) \/ FindThread(c)
        PROVE  LockInv'
    BY <1>1, <1>7 DEF LockInv, StartTask, Answer, SendTask, WaitForTask, FindThread, At, lock, handler, destructor
  <1>8. ASSUME NEW c \in Client, ClientLock(c) PROVE LockInv'
    BY <1>1, <1>8 DEF LockInv, ClientLock, At, LockRead, handler, destructor
  <1>9. ASSUME NEW c \in Client, FindNoThread(c) \/ CopyInfo(c) PROVE LockInv'
    BY <1>1, <1>9, ReadersAssumption DEF LockInv, FindNoThread, CopyInfo, At, UnlockNotFound, UnlockRead, handler, destructor
  <1>10. CASE SendGoodbye
    BY <1>1, <1>10 DEF LockInv, SendGoodbye, LockRead, handler, clients
  <1>11. CASE SendToNext
    BY <1>1, <1>11 DEF LockInv, SendToNext, lock, handler, clients
  <1>12. CASE SendToAllEnd
    BY <1>1, <1>12, ReadersAssumption DEF LockInv, SendToAllEnd, UnlockRead, handler, clients
  <1> QED
    BY <1>2, <1>3, <1>4, <1>5, <1>6, <1>7, <1>8, <1>9, <1>10, <1>11, <1>12
    DEF Next, HandlerStep, ClientStep, DestructorStep

\* How each step changes the threads that a connection counts.
LEMMA CountedStep ==
  ASSUME AllInv, Next, NEW i \in Iterator
  PROVE  /\ AddConnection /\ i = NewIterator => ThreadsCounted(i)' = ToSet(todo)
         /\ AddThread /\ i # Last(mConnectionsList) => ThreadsCounted(i)' = ThreadsCounted(i) \ {Head(todo)}
         /\ RemoveThread /\ i = mThreadIDToStream[Head(todo)] => ThreadsCounted(i)' = ThreadsCounted(i) \ {Head(todo)}
         /\ \/ AddConnection /\ i = NewIterator
            \/ AddThread /\ i # Last(mConnectionsList)
            \/ RemoveThread /\ i = mThreadIDToStream[Head(todo)]
            \/ ThreadsCounted(i)' = ThreadsCounted(i)
  <1> USE DEF AllInv
  <1>1. CASE ~HandlerStep
    <2>1. ThreadsCounted(i)' = ThreadsCounted(i)
      <3>1. CASE UNCHANGED <<hpc, message>>
        BY <1>1, <3>1, OthersKeepList DEF ThreadsCounted, list
      <3>2. ASSUME NEW m \in net, hpc = "idle", Receive(m) PROVE ThreadsCounted(i)' = ThreadsCounted(i)
        <4>1. hpc' = "lock" /\ UNCHANGED mThreadIDToStream
          BY <3>2 DEF Receive, list
        <4> QED
          BY <3>2, <4>1 DEF ThreadsCounted
      <3> QED
        BY <1>1, <3>1, <3>2, OthersKeepList
    <2>2. ~AddConnection /\ ~AddThread /\ ~RemoveThread
      BY <1>1 DEF HandlerStep
    <2> QED
      BY <2>1, <2>2
  <1>2. CASE HandlerLock \/ RemoveUnknownThread
    <2>1. hpc \in {"lock", "removeThread"} /\ hpc' \in {"addConnection", "removeThread", "crashed"} /\ UNCHANGED mThreadIDToStream
      BY <1>2 DEF HandlerLock, RemoveUnknownThread, list
    <2>2. ThreadsCounted(i)' = ThreadsCounted(i)
      BY <2>1 DEF ThreadsCounted
    <2>3. ~AddConnection /\ ~AddThread /\ ~RemoveThread
      BY <1>2 DEF HandlerLock, RemoveUnknownThread, AddConnection, AddThread, RemoveThread
    <2> QED
      BY <2>2, <2>3
  <1>3. CASE HandlerUnlock
    <2>1. hpc \in {"addThread", "removeThread"} /\ hpc' = "idle" /\ todo = <<>> /\ UNCHANGED mThreadIDToStream
      BY <1>3 DEF HandlerUnlock, list
    <2>2. ToSet(todo) = {}
      BY <2>1 DEF ToSet
    <2>3. ThreadsCounted(i)' = ThreadsCounted(i)
      BY <2>1, <2>2 DEF ThreadsCounted
    <2>4. ~AddConnection /\ ~AddThread /\ ~RemoveThread
      BY <2>1 DEF AddConnection, AddThread, RemoveThread
    <2> QED
      BY <2>3, <2>4
  <1>4. CASE AddConnection
    <2>1. Last(mConnectionsList') = NewIterator
      BY <1>4, NewIteratorIsNew, AppendMembers DEF AddConnection, ListInv, Live
    <2>2. hpc = "addConnection" /\ hpc' = "addThread" /\ UNCHANGED <<mThreadIDToStream, todo>>
      BY <1>4 DEF AddConnection
    <2>3. ToSet(todo) \subseteq Thread
      BY ToSetMembers DEF HandlerInv
    <2>4. ThreadsCounted(NewIterator) = {}
      BY <1>4, NewIteratorIsNew DEF CoverInv
    <2>5. ~AddThread /\ ~RemoveThread
      BY <2>2 DEF AddThread, RemoveThread
    <2>6. CASE i = NewIterator
      <3>1. \A t \in Thread : mThreadIDToStream[t] # i
        BY <2>2, <2>4, <2>6 DEF ThreadsCounted
      <3>2. ThreadsCounted(i)' = ToSet(todo)
        BY <2>1, <2>2, <2>3, <2>6, <3>1 DEF ThreadsCounted
      <3> QED
        BY <1>4, <2>5, <2>6, <3>2
    <2>7. CASE i # NewIterator
      <3>1. ThreadsCounted(i)' = ThreadsCounted(i)
        BY <2>1, <2>2, <2>7 DEF ThreadsCounted
      <3> QED
        BY <2>5, <2>7, <3>1
    <2> QED
      BY <2>6, <2>7
  <1>5. CASE AddThread
    <2>1. hpc = "addThread" /\ hpc' = "addThread" /\ todo' = Tail(todo) /\ UNCHANGED mConnectionsList
          /\ mThreadIDToStream' = [mThreadIDToStream EXCEPT ![Head(todo)] = Last(mConnectionsList)]
      BY <1>5 DEF AddThread
    <2>2. Head(todo) \in Thread /\ Head(todo) \in ToSet(todo) /\ ToSet(Tail(todo)) = ToSet(todo) \ {Head(todo)}
      BY <1>5, TailMembers DEF AddThread, HandlerInv
    <2>3. ~AddConnection /\ ~RemoveThread
      BY <2>1 DEF AddConnection, RemoveThread
    <2>4. CASE i = Last(mConnectionsList)
      <3>1. ThreadsCounted(i)' = ThreadsCounted(i)
        BY <2>1, <2>2, <2>4 DEF ThreadsCounted, ListInv
      <3> QED
        BY <2>3, <2>4, <3>1
    <2>5. CASE i # Last(mConnectionsList)
      <3>1. ThreadsCounted(i)' = ThreadsCounted(i) \ {Head(todo)}
        BY <2>1, <2>2, <2>5 DEF ThreadsCounted, ListInv
      <3> QED
        BY <1>5, <2>3, <2>5, <3>1
    <2> QED
      BY <2>4, <2>5
  <1>6. CASE RemoveThread
    <2>1. hpc = "removeThread" /\ hpc' = "removeThreadID" /\ UNCHANGED <<mThreadIDToStream, todo>>
      BY <1>6 DEF RemoveThread
    <2>2. ThreadsCounted(i)' = ThreadsCounted(i) \ {Head(todo)}
      BY <2>1 DEF ThreadsCounted
    <2>3. i # mThreadIDToStream[Head(todo)] => Head(todo) \notin ThreadsCounted(i)
      BY <2>1 DEF ThreadsCounted
    <2>4. ~AddConnection /\ ~AddThread
      BY <2>1 DEF AddConnection, AddThread
    <2>5. CASE i = mThreadIDToStream[Head(todo)]
      BY <1>6, <2>2, <2>4, <2>5
    <2>6. CASE i # mThreadIDToStream[Head(todo)]
      <3>1. ThreadsCounted(i)' = ThreadsCounted(i)
        BY <2>2, <2>3, <2>6
      <3> QED
        BY <2>4, <2>6, <3>1
    <2> QED
      BY <2>5, <2>6
  <1>7. CASE RemoveThreadID
    <2>1. hpc = "removeThreadID" /\ hpc' = "removeThread" /\ mThreadIDToStream' = [mThreadIDToStream EXCEPT ![Head(todo)] = Null]
      BY <1>7 DEF RemoveThreadID
    <2>2. Head(todo) \in Thread
      BY <2>1, TailMembers DEF HandlerInv
    <2>3. ThreadsCounted(i)' = ThreadsCounted(i)
      BY <2>1, <2>2, PeersNullAssumption DEF ThreadsCounted, ListInv
    <2>4. ~AddConnection /\ ~AddThread /\ ~RemoveThread
      BY <2>1 DEF AddConnection, AddThread, RemoveThread
    <2> QED
      BY <2>3, <2>4
  <1> QED
    BY <1>1, <1>2, <1>3, <1>4, <1>5, <1>6, <1>7 DEF HandlerStep

\* How each step changes the list.
LEMMA LiveStep ==
  ASSUME AllInv, Next
  PROVE  /\ AddConnection => Live' = Live \cup {NewIterator}
         /\ RemoveThread => LET i == mThreadIDToStream[Head(todo)] IN
                            Live' = IF referenceCount[i] = 1 THEN Live \ {i} ELSE Live
         /\ ~AddConnection /\ ~RemoveThread => Live' = Live /\ UNCHANGED <<mConnectionsList, info, referenceCount>>
  <1> USE DEF AllInv
  <1>1. AddConnection => Live' = Live \cup {NewIterator}
    BY NewIteratorIsNew, AppendMembers DEF AddConnection, ListInv, Live
  <1>2. RemoveThread => LET i == mThreadIDToStream[Head(todo)] IN
                        Live' = IF referenceCount[i] = 1 THEN Live \ {i} ELSE Live
    BY RemovedIsLive, EraseMembers DEF RemoveThread, ListInv, Live
  <1>3. ASSUME ~AddConnection, ~RemoveThread PROVE UNCHANGED <<mConnectionsList, info, referenceCount>>
    <2>1. CASE ~HandlerStep
      BY <2>1, OthersKeepList DEF list
    <2> QED
      BY <1>3, <2>1 DEF HandlerStep, HandlerLock, AddThread, RemoveThreadID, RemoveUnknownThread, HandlerUnlock, list
  <1> QED
    BY <1>1, <1>2, <1>3 DEF Live

\* A connection keeps counting its threads.
LEMMA CoverStep ==
  ASSUME AllInv, Next
  PROVE  CoverInv'
  <1> USE DEF AllInv
  <1> SUFFICES ASSUME NEW i \in Iterator
               PROVE  /\ IsFiniteSet(ThreadsCounted(i)')
                      /\ ThreadsCounted(i)' # {} => i \in Live' /\ referenceCount'[i] >= Cardinality(ThreadsCounted(i)')
    BY DEF CoverInv
  <1>1. /\ IsFiniteSet(ThreadsCounted(i)) /\ Cardinality(ThreadsCounted(i)) \in Nat /\ referenceCount[i] \in Int
        /\ ThreadsCounted(i) # {} => i \in Live /\ referenceCount[i] >= Cardinality(ThreadsCounted(i))
    BY FS_CardinalityType DEF CoverInv, ListInv
  <1>2. CASE AddConnection
    <2>1. referenceCount' = [referenceCount EXCEPT ![NewIterator] = Len(todo)] /\ ~AddThread /\ ~RemoveThread
      BY <1>2 DEF AddConnection, CountThreads, AddThread, RemoveThread
    <2>2. CASE i = NewIterator
      <3>1. IsFiniteSet(ToSet(todo)) /\ Cardinality(ToSet(todo)) = Len(todo) /\ Len(todo) \in Nat
        BY InjectiveCardinality, LenProperties DEF HandlerInv
      <3>2. ThreadsCounted(i)' = ToSet(todo)
        BY <1>2, <2>2, CountedStep
      <3>3. i \in Live' /\ referenceCount'[i] = Len(todo)
        BY <1>2, <2>1, <2>2, LiveStep DEF ListInv
      <3> QED
        BY <3>1, <3>2, <3>3
    <2>3. CASE i # NewIterator
      <3>1. ThreadsCounted(i)' = ThreadsCounted(i)
        BY <2>1, <2>3, CountedStep
      <3>2. referenceCount'[i] = referenceCount[i] /\ (i \in Live => i \in Live')
        BY <1>2, <2>1, <2>3, LiveStep DEF ListInv
      <3> QED
        BY <1>1, <3>1, <3>2
    <2> QED
      BY <2>2, <2>3
  <1>3. CASE RemoveThread
    <2>1. PICK r : r = mThreadIDToStream[Head(todo)]
      OBVIOUS
    <2>2. r \in Iterator /\ r \in Live /\ Head(todo) \in ThreadsCounted(r)
      BY <1>3, <2>1, RemovedIsLive
    <2>3. referenceCount' = [referenceCount EXCEPT ![r] = @ - 1] /\ ~AddThread /\ ~AddConnection
      BY <1>3, <2>1 DEF RemoveThread, AddThread, AddConnection
    <2>4. Live' = IF referenceCount[r] = 1 THEN Live \ {r} ELSE Live
      BY <1>3, <2>1, LiveStep
    <2>5. CASE i = r
      <3>1. ThreadsCounted(i)' = ThreadsCounted(i) \ {Head(todo)}
        BY <1>3, <2>1, <2>3, <2>5, CountedStep
      <3>2. IsFiniteSet(ThreadsCounted(i)') /\ Cardinality(ThreadsCounted(i)') = Cardinality(ThreadsCounted(i)) - 1
        BY <1>1, <2>2, <2>5, <3>1, FS_RemoveElement
      <3>3. referenceCount'[i] = referenceCount[i] - 1
        BY <2>2, <2>3, <2>5 DEF ListInv
      <3>4. referenceCount[i] >= Cardinality(ThreadsCounted(i))
        BY <1>1, <2>2, <2>5
      <3>5. referenceCount'[i] >= Cardinality(ThreadsCounted(i)')
        BY <1>1, <3>2, <3>3, <3>4
      <3>6. CASE referenceCount[i] = 1
        <4>1. Cardinality(ThreadsCounted(i)') = 0
          BY <1>1, <3>2, <3>4, <3>6, FS_CardinalityType
        <4>2. ThreadsCounted(i)' = {}
          BY <3>2, <4>1, FS_EmptySet
        <4> QED
          BY <3>2, <4>2
      <3>7. CASE referenceCount[i] # 1
        BY <2>2, <2>4, <2>5, <3>2, <3>5, <3>7
      <3> QED
        BY <3>6, <3>7
    <2>6. CASE i # r
      <3>1. ThreadsCounted(i)' = ThreadsCounted(i)
        BY <2>1, <2>3, <2>6, CountedStep
      <3>2. referenceCount'[i] = referenceCount[i] /\ (i \in Live => i \in Live')
        BY <2>3, <2>4, <2>6 DEF ListInv
      <3> QED
        BY <1>1, <3>1, <3>2
    <2> QED
      BY <2>5, <2>6
  <1>4. CASE ~AddConnection /\ ~RemoveThread
    <2>1. Live' = Live /\ referenceCount' = referenceCount
      BY <1>4, LiveStep
    <2>2. CASE AddThread /\ i # Last(mConnectionsList)
      <3>1. ThreadsCounted(i)' = ThreadsCounted(i) \ {Head(todo)}
        BY <1>4, <2>2, CountedStep
      <3>2. IsFiniteSet(ThreadsCounted(i)') /\ Cardinality(ThreadsCounted(i)') <= Cardinality(ThreadsCounted(i))
            /\ Cardinality(ThreadsCounted(i)') \in Nat
        BY <1>1, <3>1, FS_Subset, FS_CardinalityType
      <3>3. ThreadsCounted(i)' # {} => ThreadsCounted(i) # {}
        BY <3>1
      <3> QED
        BY <1>1, <2>1, <3>2, <3>3
    <2>3. CASE ~(AddThread /\ i # Last(mConnectionsList))
      <3>1. ThreadsCounted(i)' = ThreadsCounted(i)
        BY <1>4, <2>3, CountedStep
      <3> QED
        BY <1>1, <2>1, <3>1
    <2> QED
      BY <2>2, <2>3
  <1> QED
    BY <1>2, <1>3, <1>4

\* A thread that leads to a connection, but for the thread that is being removed,
\* is counted by it.
LEMMA LeadIsCounted ==
  ASSUME NEW t \in Thread, ~(hpc = "removeThreadID" /\ t = Head(todo))
  PROVE  t \in ThreadsCounted(mThreadIDToStream[t])
  BY DEF ThreadsCounted

\* addThreads leads the threads of a peer to a new connection of that peer.
LEMMA LeadStep ==
  ASSUME AllInv, Next
  PROVE  LeadInv'
  <1> USE DEF AllInv
  <1>1. CASE AddConnection
    <2>1. \A t \in Thread : mThreadIDToStream[t] # Null => mThreadIDToStream[t] \in Live
      <3>1. hpc = "addConnection"
        BY <1>1 DEF AddConnection
      <3> QED
        BY <3>1, LeadIsCounted DEF CoverInv, ListInv
    <2>2. UNCHANGED mThreadIDToStream /\ info' = [info EXCEPT ![NewIterator] = message.peer]
      BY <1>1 DEF AddConnection
    <2> QED
      BY <1>1, <2>1, <2>2, NewIteratorIsNew DEF LeadInv, ListInv
  <1>2. CASE AddThread
    <2>1. mThreadIDToStream' = [mThreadIDToStream EXCEPT ![Head(todo)] = Last(mConnectionsList)] /\ UNCHANGED info
      BY <1>2 DEF AddThread
    <2>2. Head(todo) \in ToSet(Hosts[message.peer]) /\ info[Last(mConnectionsList)] = message.peer /\ message.peer \in Peer
      BY <1>2, TailMembers DEF AddThread, HandlerInv, Datagram
    <2> QED
      BY <2>1, <2>2 DEF LeadInv, ListInv
  <1>3. CASE RemoveThreadID
    BY <1>3 DEF RemoveThreadID, LeadInv, ListInv
  <1>4. CASE ~HandlerStep \/ HandlerLock \/ RemoveThread \/ RemoveUnknownThread \/ HandlerUnlock
    <2>1. UNCHANGED <<mThreadIDToStream, info>>
      BY <1>4, OthersKeepList DEF HandlerLock, RemoveThread, RemoveUnknownThread, HandlerUnlock, list
    <2> QED
      BY <2>1 DEF LeadInv
  <1> QED
    BY <1>1, <1>2, <1>3, <1>4 DEF HandlerStep

\* While a client holds the read lock its iterator stays its thread's.
LEMMA CopyStep ==
  ASSUME AllInv, Next
  PROVE  CopyInv'
  <1> USE DEF AllInv
  <1>1. CASE HandlerStep
    <2>1. UNCHANGED <<cpc, cThread, found>>
      BY <1>1 DEF HandlerStep, HandlerLock, AddConnection, AddThread, RemoveThread, RemoveThreadID, RemoveUnknownThread,
                  HandlerUnlock, clients
    <2>2. CASE UNCHANGED mThreadIDToStream
      BY <2>1, <2>2 DEF CopyInv
    <2>3. CASE AddThread \/ RemoveThreadID
      <3>1. \A c \in Client : cpc[c] # "copy"
        BY <2>3 DEF AddThread, RemoveThreadID, LockInv
      <3> QED
        BY <2>1, <3>1 DEF CopyInv
    <2> QED
      BY <1>1, <2>2, <2>3 DEF HandlerStep, HandlerLock, AddConnection, RemoveThread, RemoveUnknownThread, HandlerUnlock, list
  <1>2. CASE ~HandlerStep
    <2>1. UNCHANGED mThreadIDToStream
      BY <1>2, OthersKeepList DEF list
    <2>2. CASE (\E p \in Peer : PeerSends(p)) \/ (\E m \in net : Lose(m) \/ Receive(m)) \/ SendGoodbye \/ DestructorStep
      BY <2>1, <2>2 DEF CopyInv, PeerSends, Lose, Receive, SendGoodbye, DestructorStep, SendToNext, SendToAllEnd, clients
    <2>3. ASSUME NEW c \in Client, NEW t \in Thread, StartTask(c, t) PROVE CopyInv'
      BY <2>1, <2>3 DEF CopyInv, LockInv, StartTask, At
    <2>4. ASSUME NEW c \in Client, Answer(c) PROVE CopyInv'
      BY <2>1, <2>4 DEF CopyInv, Answer
    <2>5. ASSUME NEW c \in Client, ClientLock(c) \/ FindNoThread(c) \/ SendTask(c) PROVE CopyInv'
      BY <2>1, <2>5 DEF CopyInv, LockInv, ClientLock, FindNoThread, SendTask, At
    <2>6. ASSUME NEW c \in Client, WaitForTask(c) PROVE CopyInv'
      <3>1. UNCHANGED <<cThread, found>> /\ cpc[c] = "waiting" /\ cpc'[c] \in {"waiting", "returned"}
            /\ \A d \in Client \ {c} : cpc'[d] = cpc[d]
        BY <2>6 DEF LockInv, WaitForTask, At
      <3> QED
        BY <2>1, <3>1 DEF CopyInv
    <2>7. ASSUME NEW c \in Client, FindThread(c) PROVE CopyInv'
      BY <2>1, <2>7 DEF CopyInv, LockInv, FindThread, At
    <2>8. ASSUME NEW c \in Client, CopyInfo(c) PROVE CopyInv'
      BY <2>1, <2>8 DEF CopyInv, LockInv, CopyInfo, At
    <2> QED
      BY <1>2, <2>2, <2>3, <2>4, <2>5, <2>6, <2>7, <2>8 DEF Next, ClientStep
  <1> QED
    BY <1>1, <1>2

\* The parity of a number changes with its successor.
LEMMA ParityFlips == \A n \in Nat : (n + 1) % 2 = 1 <=> ~(n % 2 = 1)
  OBVIOUS

\* The messages of a peer are applied in turn until the network fails.
LEMMA OrderStep ==
  ASSUME AllInv, Next
  PROVE  OrderInv'
  <1> USE DEF AllInv
  <1>1. CASE HandlerLock
    <2>1. UNCHANGED <<message, seqno, sent, net, disordered, connected>> /\ hpc = "lock"
          /\ (IF IsHello(message) THEN hpc' = "addConnection" ELSE hpc' = "removeThread")
      BY <1>1 DEF HandlerLock, network
    <2> QED
      BY <2>1 DEF OrderInv, IsHello
  <1>2. CASE AddConnection \/ AddThread \/ RemoveThread \/ RemoveThreadID
    BY <1>2 DEF OrderInv, AddConnection, AddThread, RemoveThread, RemoveThreadID, network, IsHello
  <1>3. CASE RemoveUnknownThread
    <2>1. disordered
      <3> SUFFICES ASSUME ~disordered PROVE FALSE
        OBVIOUS
      <3>1. hpc = "removeThread" /\ todo # <<>> /\ mThreadIDToStream[Head(todo)] = Null
        BY <1>3 DEF RemoveUnknownThread
      <3>2. message.peer \in Peer /\ Head(todo) \in ToSet(todo)
        BY <3>1, TailMembers DEF HandlerInv, Datagram
      <3>3. Due(message.peer) = ToSet(todo)
        BY <3>1 DEF Due
      <3>4. PICK i \in Live : info[i] = message.peer
        BY <3>2, <3>3, Zenon DEF ExactInv
      <3>5. Head(todo) \in ThreadsCounted(i) /\ i \in Iterator
        BY <3>2, <3>3, <3>4, ToSetMembers DEF ExactInv, ExactAt, ListInv, Live
      <3> QED
        BY <3>1, <3>5, PeersNullAssumption DEF ThreadsCounted
    <2> QED
      BY <1>3, <2>1 DEF OrderInv, RemoveUnknownThread, network
  <1>4. CASE HandlerUnlock
    <2>1. /\ hpc \in {"addThread", "removeThread"} /\ hpc' = "idle" /\ UNCHANGED <<seqno, sent, net, disordered>>
          /\ connected' = IF IsHello(message) THEN connected \cup {message.peer} ELSE connected \ {message.peer}
      BY <1>4 DEF HandlerUnlock, network
    <2>2. message \in Datagram /\ message.peer \in Peer
      BY <2>1 DEF HandlerInv, Datagram
    <2>3. ASSUME ~disordered, NEW p \in Peer PROVE seqno[p] % 2 = 1 <=> p \in connected'
      <3>1. CASE p # message.peer
        BY <2>1, <2>3, <3>1 DEF OrderInv
      <3>2. CASE p = message.peer /\ IsHello(message)
        BY <2>1, <2>3, <3>2 DEF OrderInv, IsHello
      <3>3. CASE p = message.peer /\ ~IsHello(message)
        BY <2>1, <2>3, <3>3 DEF OrderInv, IsHello
      <3> QED
        BY <3>1, <3>2, <3>3
    <2>4. connected' \subseteq Peer
      BY <2>1, <2>2 DEF OrderInv
    <2> QED
      BY <2>1, <2>3, <2>4 DEF OrderInv
  <1>5. CASE ~HandlerStep
    <2>1. ASSUME NEW p \in Peer, PeerSends(p) PROVE OrderInv'
      <3>1. [peer |-> p, seqno |-> sent[p] + 1] \in Datagram
        BY DEF Datagram, OrderInv
      <3>2. UNCHANGED <<hpc, message, seqno, connected, disordered>> /\ sent' \in [Peer -> Nat] /\ net' \subseteq Datagram
        BY <2>1, <3>1 DEF PeerSends, OrderInv, handler
      <3> QED
        BY <3>2 DEF OrderInv, IsHello
    <2>2. ASSUME NEW m \in net, Lose(m) PROVE OrderInv'
      <3>1. UNCHANGED <<hpc, message, seqno, sent, connected>> /\ net' \subseteq net /\ disordered'
        BY <2>2 DEF Lose, handler
      <3> QED
        BY <3>1 DEF OrderInv, IsHello
    <2>3. ASSUME NEW m \in net, Receive(m) PROVE OrderInv'
      <3>1. m \in Datagram /\ m.peer \in Peer /\ m.seqno \in Nat
        BY DEF OrderInv, Datagram
      <3>2. hpc = "idle" /\ hpc' = "lock" /\ message' = m /\ net' \subseteq net /\ UNCHANGED <<sent, connected>>
            /\ seqno' = [seqno EXCEPT ![m.peer] = m.seqno]
        BY <2>3 DEF Receive
      <3>3. ~disordered' => ~disordered /\ m.seqno = seqno[m.peer] + 1
        BY <2>3 DEF Receive
      <3>4. seqno' \in [Peer -> Nat] /\ seqno'[m.peer] = m.seqno /\ \A p \in Peer \ {m.peer} : seqno'[p] = seqno[p]
        BY <3>1, <3>2 DEF OrderInv
      <3>5. ~disordered' => (m.seqno % 2 = 1 <=> m.peer \notin connected)
        BY <3>1, <3>2, <3>3, ParityFlips DEF OrderInv
      <3>6. ~disordered' => \A p \in Peer \ {m.peer} : (seqno'[p] % 2 = 1 <=> p \in connected)
        BY <3>2, <3>3, <3>4 DEF OrderInv
      <3> QED
        BY <3>1, <3>2, <3>4, <3>5, <3>6 DEF OrderInv
    <2>4. CASE (\E c \in Client : (\E t \in Thread : StartTask(c, t)) \/ Answer(c) \/ ClientStep(c)) \/ SendGoodbye \/ DestructorStep
      <3>1. UNCHANGED <<hpc, message, seqno, sent, net, connected, disordered>>
        BY <2>4 DEF StartTask, Answer, ClientStep, ClientLock, FindThread, FindNoThread, CopyInfo, SendTask, WaitForTask,
                    SendGoodbye, DestructorStep, SendToNext, SendToAllEnd, handler, network
      <3> QED
        BY <3>1 DEF OrderInv, IsHello
    <2> QED
      BY <1>5, <2>1, <2>2, <2>3, <2>4 DEF Next
  <1> QED
    BY <1>1, <1>2, <1>3, <1>4, <1>5 DEF HandlerStep

\* The threads due to a peer are its own, and finitely many.
LEMMA DueIsHosted ==
  ASSUME AllInv, NEW p \in Peer
  PROVE  Due(p) \subseteq ToSet(Hosts[p]) /\ IsFiniteSet(Due(p)) /\ IsFiniteSet(ToSet(Hosts[p]))
  <1> USE DEF AllInv
  <1>1. Hosts[p] \in Seq(Thread) /\ IsInjective(Hosts[p])
    BY HostsAssumption
  <1>2. IsFiniteSet(ToSet(Hosts[p]))
    BY <1>1, InjectiveCardinality
  <1>3. hpc = "removeThreadID" => ToSet(Tail(todo)) \subseteq ToSet(todo)
    BY TailMembers DEF HandlerInv
  <1>4. Due(p) \subseteq ToSet(Hosts[p])
    BY <1>3 DEF Due, HandlerInv
  <1> QED
    BY <1>2, <1>4, FS_Subset

\* A thread is due to one peer.
LEMMA HostIsUnique ==
  ASSUME NEW p \in Peer, NEW q \in Peer, NEW t \in ToSet(Hosts[p]), t \in ToSet(Hosts[q])
  PROVE  p = q
  BY HostsApart

\* While the messages come in order, a hello is of a peer that is not connected
\* and a goodbye of one that is.
LEMMA InTurn ==
  ASSUME AllInv, ~disordered, hpc # "idle"
  PROVE  /\ message.peer \in Peer
         /\ IsHello(message) <=> message.peer \notin connected
  BY DEF AllInv, HandlerInv, Datagram, OrderInv, IsHello

\* How each step changes the threads that are due.
LEMMA DueStep ==
  ASSUME AllInv, Next, ~disordered, ~disordered', NEW p \in Peer
  PROVE  /\ AddConnection /\ p = message.peer => Due(p) = {} /\ Due(p)' = ToSet(Hosts[p])
         /\ RemoveThread /\ p = message.peer => Due(p) = ToSet(todo) /\ Due(p)' = ToSet(todo) \ {Head(todo)}
         /\ \/ (AddConnection \/ RemoveThread) /\ p = message.peer
            \/ Due(p)' = Due(p)
  <1> USE DEF AllInv
  <1>1. CASE ~HandlerStep
    <2>1. ~AddConnection /\ ~RemoveThread
      BY <1>1 DEF HandlerStep
    <2>2. CASE UNCHANGED <<hpc, message>>
      <3>1. Due(p)' = Due(p)
        BY <1>1, <2>2, OthersKeepList DEF Due
      <3> QED
        BY <2>1, <3>1
    <2>3. ASSUME NEW m \in net, hpc = "idle", Receive(m) PROVE Due(p)' = Due(p)
      <3>1. hpc' = "lock" /\ UNCHANGED connected
        BY <2>3 DEF Receive
      <3> QED
        BY <2>3, <3>1 DEF Due
    <2> QED
      BY <1>1, <2>1, <2>2, <2>3, OthersKeepList
  <1>2. CASE HandlerLock
    <2>1. hpc = "lock" /\ UNCHANGED <<message, connected>> /\ todo' = Hosts[message.peer]
          /\ (IF IsHello(message) THEN hpc' = "addConnection" ELSE hpc' = "removeThread")
      BY <1>2 DEF HandlerLock, ThreadsToAdd
    <2>2. Due(p)' = Due(p)
      BY <2>1, InTurn DEF Due
    <2>3. ~AddConnection /\ ~RemoveThread
      BY <2>1 DEF AddConnection, RemoveThread
    <2> QED
      BY <2>2, <2>3
  <1>3. CASE AddConnection
    <2>1. hpc = "addConnection" /\ hpc' = "addThread" /\ UNCHANGED <<message, connected>>
      BY <1>3 DEF AddConnection
    <2>2. message.peer \notin connected
      BY <2>1, InTurn DEF OrderInv
    <2>3. IF p = message.peer THEN Due(p) = {} /\ Due(p)' = ToSet(Hosts[p]) ELSE Due(p)' = Due(p)
      BY <2>1, <2>2 DEF Due
    <2>4. ~RemoveThread
      BY <2>1 DEF RemoveThread
    <2> QED
      BY <1>3, <2>3, <2>4
  <1>4. CASE AddThread
    <2>1. hpc = "addThread" /\ UNCHANGED <<hpc, message, connected>>
      BY <1>4 DEF AddThread
    <2>2. Due(p)' = Due(p)
      BY <2>1 DEF Due
    <2>3. ~AddConnection /\ ~RemoveThread
      BY <2>1 DEF AddConnection, RemoveThread
    <2> QED
      BY <2>2, <2>3
  <1>5. CASE RemoveThread
    <2>1. hpc = "removeThread" /\ hpc' = "removeThreadID" /\ UNCHANGED <<message, todo, connected>> /\ todo # <<>>
      BY <1>5 DEF RemoveThread
    <2>2. ToSet(Tail(todo)) = ToSet(todo) \ {Head(todo)}
      BY <2>1, TailMembers DEF HandlerInv
    <2>3. IF p = message.peer THEN Due(p) = ToSet(todo) /\ Due(p)' = ToSet(todo) \ {Head(todo)} ELSE Due(p)' = Due(p)
      BY <2>1, <2>2 DEF Due
    <2>4. ~AddConnection
      BY <2>1 DEF AddConnection
    <2> QED
      BY <1>5, <2>3, <2>4
  <1>6. CASE RemoveThreadID
    <2>1. hpc = "removeThreadID" /\ hpc' = "removeThread" /\ UNCHANGED <<message, connected>> /\ todo' = Tail(todo)
      BY <1>6 DEF RemoveThreadID
    <2>2. Due(p)' = Due(p)
      BY <2>1 DEF Due
    <2>3. ~AddConnection /\ ~RemoveThread
      BY <2>1 DEF AddConnection, RemoveThread
    <2> QED
      BY <2>2, <2>3
  <1>7. CASE RemoveUnknownThread
    <2>1. hpc' = "crashed"
      BY <1>7 DEF RemoveUnknownThread
    <2> QED
      BY <2>1, OrderStep DEF OrderInv
  <1>8. CASE HandlerUnlock
    <2>1. /\ hpc \in {"addThread", "removeThread"} /\ todo = <<>> /\ hpc' = "idle"
          /\ connected' = IF IsHello(message) THEN connected \cup {message.peer} ELSE connected \ {message.peer}
      BY <1>8 DEF HandlerUnlock
    <2>2. IsHello(message) <=> hpc = "addThread"
      BY <2>1 DEF OrderInv
    <2>3. ToSet(todo) = {}
      BY <2>1 DEF ToSet
    <2>4. Due(p)' = Due(p)
      BY <2>1, <2>2, <2>3 DEF Due
    <2>5. ~AddConnection /\ ~RemoveThread
      BY <2>1 DEF AddConnection, RemoveThread
    <2> QED
      BY <2>4, <2>5
  <1> QED
    BY <1>1, <1>2, <1>3, <1>4, <1>5, <1>6, <1>7, <1>8 DEF HandlerStep

\* Disorder is for ever.
LEMMA DisorderStays ==
  ASSUME Next, disordered
  PROVE  disordered'
  BY DEF Next, PeerSends, Lose, Receive, HandlerStep, HandlerLock, AddConnection, AddThread, RemoveThread, RemoveThreadID,
         RemoveUnknownThread, HandlerUnlock, ClientStep, StartTask, ClientLock, FindThread, FindNoThread, CopyInfo,
         SendTask, Answer, WaitForTask, SendGoodbye, DestructorStep, SendToNext, SendToAllEnd, network

\* A peer announces threads or hosts none.
LEMMA AnnouncingHosts ==
  ASSUME NEW p \in Peer
  PROVE  p \in Announcing <=> ToSet(Hosts[p]) # {}
  <1>1. Hosts[p] \in Seq(Thread) /\ IsInjective(Hosts[p])
    BY HostsAssumption
  <1>2. CASE Hosts[p] = <<>>
    BY <1>2 DEF ToSet, Announcing
  <1>3. CASE Hosts[p] # <<>>
    BY <1>1, <1>3, TailMembers DEF Announcing
  <1> QED
    BY <1>2, <1>3

\* What makes a connection exact after a step, by its peer.
LEMMA ExactNext ==
  ASSUME NEW i, NEW q \in Peer, info'[i] = q, ThreadsCounted(i)' = Due(q)',
         q \in Announcing => Due(q)' # {}, referenceCount'[i] = Cardinality(Due(q)')
  PROVE  ExactAt(i)'
  <1>1. Due(info[i])' = Due(q)'
    BY DEF Due
  <1> QED
    BY <1>1 DEF ExactAt, Announcing

\* A peer that is listed after a step was listed before, or its hello ends and
\* its connection is the last of the list.
LEMMA ListedStep ==
  ASSUME AllInv, Next, NEW p \in Peer, Listed(p)'
  PROVE  Listed(p) \/ (~AddConnection /\ ~RemoveThread /\ \E i \in Live : info[i] = p)
  <1> USE DEF AllInv
  <1>1. p \notin Announcing /\ p \in connected'
    BY DEF Listed, Announcing
  <1>2. CASE p \in connected
    BY <1>1, <1>2 DEF Listed
  <1>3. CASE p \notin connected
    <2>1. HandlerUnlock
      <3>1. HandlerStep
        BY <1>1, <1>3, OthersKeepList
      <3> QED
        BY <1>1, <1>3, <3>1 DEF HandlerStep, HandlerLock, AddConnection, AddThread, RemoveThread, RemoveThreadID, RemoveUnknownThread
    <2>2. IsHello(message) /\ p = message.peer /\ hpc \in {"addThread", "removeThread"}
      BY <1>1, <1>3, <2>1 DEF HandlerUnlock
    <2>3. hpc = "addThread"
      BY <2>2 DEF OrderInv
    <2>4. mConnectionsList # <<>> /\ info[Last(mConnectionsList)] = p
      BY <2>2, <2>3 DEF HandlerInv
    <2>5. Last(mConnectionsList) \in Live
      BY <2>4, LenProperties DEF ListInv, Last, Live, ToSet
    <2> QED
      BY <2>3, <2>4, <2>5 DEF AddConnection, RemoveThread
  <1> QED
    BY <1>2, <1>3

\* Without disorder, each connection counts the threads due to its peer.
LEMMA ExactStep ==
  ASSUME AllInv, Next
  PROVE  ExactInv'
  <1> USE DEF AllInv
  <1> SUFFICES ASSUME ~disordered'
               PROVE  /\ \A i \in Live' : ExactAt(i)'
                      /\ \A i, j \in Live' : info'[i] = info'[j] /\ info'[i] \in Announcing => i = j
                      /\ \A p \in Peer : Due(p)' # {} \/ Listed(p)' => \E i \in Live' : info'[i] = p
    BY DEF ExactInv, Announcing
  <1>1. ~disordered
    BY DisorderStays
  <1>2. Live \subseteq Iterator
    BY ToSetMembers DEF ListInv, Live
  <1>3. /\ \A i \in Live : /\ info[i] \in Peer /\ ThreadsCounted(i) = Due(info[i])
                           /\ info[i] \in Announcing => Due(info[i]) # {}
                           /\ referenceCount[i] = Cardinality(Due(info[i]))
        /\ \A i, j \in Live : info[i] = info[j] /\ info[i] \in Announcing => i = j
        /\ \A p \in Peer : Due(p) # {} \/ Listed(p) => \E i \in Live : info[i] = p
    BY <1>1 DEF ExactInv, ExactAt
  <1>4. CASE AddConnection
    <2>1. PICK n \in Iterator : n = NewIterator /\ n \notin Live /\ Live' = Live \cup {n}
      BY <1>4, NewIteratorIsNew, LiveStep
    <2>2. PICK p \in Peer : p = message.peer
      BY <1>4 DEF AddConnection, HandlerInv, Datagram
    <2>3. info' = [info EXCEPT ![n] = p] /\ referenceCount' = [referenceCount EXCEPT ![n] = Len(todo)] /\ todo = Hosts[p]
      BY <1>4, <2>1, <2>2 DEF AddConnection, CountThreads, HandlerInv
    <2>4. Due(p) = {} /\ Due(p)' = ToSet(Hosts[p]) /\ \A q \in Peer \ {p} : Due(q)' = Due(q)
      <3>1. ~RemoveThread
        BY <1>4 DEF AddConnection, RemoveThread
      <3> QED
        BY <1>1, <1>4, <2>2, <3>1, DueStep
    <2>5. p \in Announcing => Due(p)' # {}
      BY <2>4, AnnouncingHosts
    <2>6. \A i \in Live : info[i] = p => p \notin Announcing
      BY <1>3, <2>4
    <2>7. info'[n] = p /\ referenceCount'[n] = Len(todo)
          /\ \A i \in Live : info'[i] = info[i] /\ referenceCount'[i] = referenceCount[i]
      BY <1>2, <2>1, <2>3 DEF ListInv
    <2>8. ThreadsCounted(n)' = ToSet(Hosts[p]) /\ \A i \in Live : ThreadsCounted(i)' = ThreadsCounted(i)
      <3>1. ~AddThread /\ ~RemoveThread
        BY <1>4 DEF AddConnection, AddThread, RemoveThread
      <3> QED
        BY <1>2, <1>4, <2>1, <2>3, <3>1, CountedStep
    <2>9. Cardinality(ToSet(Hosts[p])) = Len(todo)
      BY <2>3, HostsAssumption, InjectiveCardinality
    <2>10. ExactAt(n)'
      BY <2>4, <2>5, <2>7, <2>8, <2>9, ExactNext
    <2>11. ASSUME NEW i \in Live PROVE ExactAt(i)'
      <3>1. PICK q \in Peer : q = info[i] /\ q = info'[i]
        BY <1>3, <2>7
      <3>2. Due(q)' = Due(q)
        <4>1. CASE q # p
          BY <2>4, <4>1
        <4>2. CASE q = p
          <5>1. ToSet(Hosts[p]) = {}
            BY <2>6, <3>1, <4>2, AnnouncingHosts
          <5> QED
            BY <2>4, <4>2, <5>1
        <4> QED
          BY <4>1, <4>2
      <3>3. ThreadsCounted(i)' = Due(q)' /\ (q \in Announcing => Due(q)' # {}) /\ referenceCount'[i] = Cardinality(Due(q)')
        BY <1>3, <2>7, <2>8, <3>1, <3>2
      <3> QED
        BY <3>1, <3>3, ExactNext
    <2>12. \A i, j \in Live' : info'[i] = info'[j] /\ info'[i] \in Announcing => i = j
      BY <1>3, <2>1, <2>6, <2>7
    <2>13. ASSUME NEW q \in Peer, Due(q)' # {} \/ Listed(q)' PROVE \E i \in Live' : info'[i] = q
      <3>1. CASE q = p
        BY <2>1, <2>7, <3>1
      <3>2. CASE q # p
        <4>1. Due(q) # {} \/ Listed(q)
          BY <1>4, <2>4, <2>13, <3>2, ListedStep
        <4>2. PICK i \in Live : info[i] = q
          BY <1>3, <4>1
        <4> QED
          BY <2>1, <2>7, <4>2
      <3> QED
        BY <3>1, <3>2
    <2> QED
      BY <2>1, <2>10, <2>11, <2>12, <2>13
  <1>5. CASE RemoveThread
    <2>1. PICK r \in Iterator : r = mThreadIDToStream[Head(todo)] /\ r \in Live /\ Head(todo) \in ThreadsCounted(r)
      BY <1>5, RemovedIsLive
    <2>2. PICK p \in Peer : p = message.peer
      BY <1>5 DEF RemoveThread, HandlerInv, Datagram
    <2>3. ~AddConnection /\ ~AddThread
      BY <1>5 DEF RemoveThread, AddConnection, AddThread
    <2>4. Due(p) = ToSet(todo) /\ Due(p)' = Due(p) \ {Head(todo)} /\ \A q \in Peer \ {p} : Due(q)' = Due(q)
      BY <1>1, <1>5, <2>2, <2>3, DueStep
    <2>5. info[r] = p /\ p \in Announcing
      <3>1. Head(todo) \in ToSet(todo)
        BY <1>5, TailMembers DEF RemoveThread, HandlerInv
      <3>2. Head(todo) \in ToSet(Hosts[info[r]]) /\ info[r] \in Peer
        BY <1>3, <2>1, DueIsHosted
      <3>3. Head(todo) \in ToSet(Hosts[p])
        BY <2>4, <3>1, DueIsHosted
      <3>4. info[r] = p
        BY <3>2, <3>3, HostIsUnique
      <3> QED
        BY <3>3, <3>4, AnnouncingHosts
    <2>6. info' = info /\ referenceCount' = [referenceCount EXCEPT ![r] = @ - 1]
      BY <1>5, <2>1 DEF RemoveThread
    <2>7. Live' = IF referenceCount[r] = 1 THEN Live \ {r} ELSE Live
      BY <1>5, <2>1, LiveStep
    <2>8. ThreadsCounted(r)' = ThreadsCounted(r) \ {Head(todo)} /\ \A i \in Live \ {r} : ThreadsCounted(i)' = ThreadsCounted(i)
      BY <1>2, <1>5, <2>1, <2>3, CountedStep
    <2>9. ThreadsCounted(r) = Due(p) /\ referenceCount[r] = Cardinality(Due(p)) /\ IsFiniteSet(Due(p)) /\ Head(todo) \in Due(p)
      BY <1>3, <2>1, <2>5, DueIsHosted
    <2>10. IsFiniteSet(Due(p)') /\ Cardinality(Due(p)') = referenceCount[r] - 1
      BY <2>4, <2>9, FS_RemoveElement
    <2>11. Due(p)' = {} <=> referenceCount[r] = 1
      <3>1. Due(p)' = {} <=> Cardinality(Due(p)') = 0
        BY <2>10, FS_EmptySet
      <3>2. referenceCount[r] \in Int
        BY <2>1 DEF ListInv
      <3> QED
        BY <2>10, <3>1, <3>2
    <2>12. referenceCount'[r] = referenceCount[r] - 1 /\ \A i \in Live \ {r} : referenceCount'[i] = referenceCount[i]
      BY <1>2, <2>1, <2>6 DEF ListInv
    <2>13. ASSUME NEW i \in Live, i # r PROVE ExactAt(i)'
      <3>1. PICK q \in Peer : q = info[i] /\ q = info'[i] /\ q # p
        BY <1>3, <2>1, <2>5, <2>6, <2>13
      <3>2. Due(q)' = Due(q)
        BY <2>4, <3>1
      <3>3. ThreadsCounted(i) = Due(q) /\ (q \in Announcing => Due(q) # {}) /\ referenceCount[i] = Cardinality(Due(q))
        BY <1>3, <3>1
      <3>4. ThreadsCounted(i)' = ThreadsCounted(i) /\ referenceCount'[i] = referenceCount[i]
        BY <2>8, <2>12, <2>13
      <3> QED
        BY <3>1, <3>2, <3>3, <3>4, ExactNext
    <2>14. ASSUME referenceCount[r] # 1 PROVE ExactAt(r)'
      <3>1. info'[r] = p
        BY <2>5, <2>6
      <3>2. ThreadsCounted(r)' = Due(p)'
        BY <2>4, <2>8, <2>9
      <3>3. Due(p)' # {} /\ referenceCount'[r] = Cardinality(Due(p)')
        BY <2>10, <2>11, <2>12, <2>14
      <3> QED
        BY <3>1, <3>2, <3>3, ExactNext
    <2>15. \A i \in Live' : i \in Live /\ (i = r => referenceCount[r] # 1)
      BY <2>7
    <2>16. \A i \in Live' : ExactAt(i)'
      BY <2>13, <2>14, <2>15
    <2>17. ASSUME NEW q \in Peer, Due(q)' # {} \/ Listed(q)' PROVE \E i \in Live' : info'[i] = q
      <3>1. CASE q = p
        <4>1. ~Listed(q)'
          BY <2>5, <3>1 DEF Listed, Announcing
        <4> QED
          BY <2>1, <2>5, <2>6, <2>7, <2>11, <2>17, <3>1, <4>1
      <3>2. CASE q # p
        <4>1. Due(q) # {} \/ Listed(q)
          BY <1>5, <2>4, <2>17, <3>2, ListedStep
        <4>2. PICK i \in Live : info[i] = q
          BY <1>3, <4>1
        <4>3. i \in Live'
          BY <2>5, <2>7, <3>2, <4>2
        <4> QED
          BY <2>6, <4>2, <4>3
      <3> QED
        BY <3>1, <3>2
    <2> QED
      BY <1>3, <2>6, <2>15, <2>16, <2>17
  <1>6. CASE ~AddConnection /\ ~RemoveThread
    <2>1. Live' = Live /\ UNCHANGED <<info, referenceCount>>
      BY <1>6, LiveStep
    <2>2. \A p \in Peer : Due(p)' = Due(p)
      BY <1>1, <1>6, DueStep
    <2>3. ASSUME NEW i \in Live PROVE ThreadsCounted(i)' = ThreadsCounted(i)
      <3>1. CASE AddThread /\ i # Last(mConnectionsList)
        <4>1. ThreadsCounted(i)' = ThreadsCounted(i) \ {Head(todo)}
          BY <1>2, <3>1, CountedStep
        <4>2. Head(todo) \in ToSet(Hosts[message.peer]) /\ message.peer \in Peer
              /\ info[Last(mConnectionsList)] = message.peer /\ Last(mConnectionsList) \in Live
          <5>1. hpc = "addThread" /\ todo # <<>> /\ mConnectionsList # <<>>
            BY <3>1 DEF AddThread, HandlerInv
          <5>2. Head(todo) \in ToSet(todo)
            BY <5>1, TailMembers DEF HandlerInv
          <5>3. Last(mConnectionsList) \in Live
            BY <5>1, LenProperties DEF ListInv, Last, Live, ToSet
          <5> QED
            BY <5>1, <5>2, <5>3 DEF HandlerInv, Datagram
        <4>3. Head(todo) \notin ThreadsCounted(i)
          <5> SUFFICES ASSUME Head(todo) \in ThreadsCounted(i) PROVE FALSE
            OBVIOUS
          <5>1. Head(todo) \in ToSet(Hosts[info[i]]) /\ info[i] \in Peer
            BY <1>3, DueIsHosted
          <5>2. info[i] = message.peer
            BY <4>2, <5>1, HostIsUnique
          <5>3. info[i] \in Announcing
            BY <5>1, AnnouncingHosts
          <5> QED
            BY <1>3, <3>1, <4>2, <5>2, <5>3
        <4> QED
          BY <4>1, <4>3
      <3>2. CASE ~(AddThread /\ i # Last(mConnectionsList))
        BY <1>2, <1>6, <3>2, CountedStep
      <3> QED
        BY <3>1, <3>2
    <2>4. ASSUME NEW i \in Live PROVE ExactAt(i)'
      <3>1. PICK q \in Peer : q = info[i] /\ q = info'[i]
        BY <1>3, <2>1
      <3>2. ThreadsCounted(i)' = Due(q)' /\ (q \in Announcing => Due(q)' # {}) /\ referenceCount'[i] = Cardinality(Due(q)')
        BY <1>3, <2>1, <2>2, <2>3, <3>1
      <3> QED
        BY <3>1, <3>2, ExactNext
    <2>5. ASSUME NEW q \in Peer, Due(q)' # {} \/ Listed(q)' PROVE \E i \in Live : info[i] = q
      <3>1. Due(q) # {} \/ Listed(q) \/ \E i \in Live : info[i] = q
        BY <2>2, <2>5, ListedStep
      <3> QED
        BY <1>3, <3>1
    <2> QED
      BY <1>3, <2>1, <2>4, <2>5
  <1> QED
    BY <1>4, <1>5, <1>6

\* The destructor's walk, which the read lock protects.
LEMMA WalkStep ==
  ASSUME AllInv, Next
  PROVE  WalkInv'
  <1> USE DEF AllInv
  <1>1. CASE HandlerStep
    <2>1. UNCHANGED <<dpc, at, sentTo, expected>>
      BY <1>1 DEF HandlerStep, HandlerLock, AddConnection, AddThread, RemoveThread, RemoveThreadID, RemoveUnknownThread,
                  HandlerUnlock, destructor
    <2>2. CASE HandlerLock
      BY <2>1, <2>2 DEF HandlerLock, WalkInv, list
    <2>3. CASE ~HandlerLock
      <3>1. hpc \notin {"idle", "lock"}
        BY <1>1, <2>3 DEF HandlerStep, AddConnection, AddThread, RemoveThread, RemoveThreadID, RemoveUnknownThread, HandlerUnlock
      <3>2. dpc # "walk"
        BY <3>1 DEF LockInv
      <3> QED
        BY <2>1, <3>2 DEF WalkInv
    <2> QED
      BY <2>2, <2>3
  <1>2. CASE ~HandlerStep
    <2>1. UNCHANGED <<mConnectionsList, info, connected>>
      BY <1>2, OthersKeepList DEF list
    <2>2. CASE SendGoodbye
      <3>1. at' = 1 /\ expected' = connected /\ sentTo' = sentTo /\ dpc = "alive"
        BY <2>2 DEF SendGoodbye
      <3>2. Len(mConnectionsList) \in Nat
        BY LenProperties DEF ListInv
      <3>3. sentTo = <<>>
        BY <3>1 DEF WalkInv
      <3>4. [k \in 1 .. 1 - 1 |-> info[mConnectionsList[k]]] = <<>>
        OBVIOUS
      <3> QED
        BY <2>1, <3>1, <3>2, <3>3, <3>4 DEF WalkInv
    <2>3. CASE SendToNext
      <3>1. dpc = "walk" /\ at \in 1 .. Len(mConnectionsList) /\ at' = at + 1 /\ expected' = connected
            /\ sentTo' = Append(sentTo, info[mConnectionsList[at]]) /\ Len(mConnectionsList) \in Nat
        BY <2>3, LenProperties DEF SendToNext, WalkInv, ListInv
      <3>2. sentTo = [k \in 1 .. at - 1 |-> info[mConnectionsList[k]]]
        BY <3>1 DEF WalkInv
      <3>3. \A k \in 1 .. at : info[mConnectionsList[k]] \in Peer \cup {Null}
        BY <3>1 DEF ListInv
      <3>4. sentTo \in Seq(Peer \cup {Null}) /\ Len(sentTo) = at - 1
        BY <3>1, <3>2, <3>3
      <3>5. /\ sentTo' \in Seq(Peer \cup {Null}) /\ Len(sentTo') = at
            /\ \A k \in 1 .. at : sentTo'[k] = info[mConnectionsList[k]]
        BY <3>1, <3>2, <3>3, <3>4, AppendProperties
      <3>6. sentTo' = [k \in 1 .. at |-> info[mConnectionsList[k]]]
        BY <3>5
      <3>7. at' \in 1 .. Len(mConnectionsList) + 1 /\ at' - 1 = at
        BY <3>1
      <3>8. sentTo' = [k \in 1 .. at' - 1 |-> info'[mConnectionsList'[k]]]
        BY <2>1, <3>6, <3>7
      <3>9. dpc' = "walk" /\ expected' = connected'
        BY <2>1, <2>3, <3>1 DEF SendToNext
      <3> QED
        BY <2>1, <3>7, <3>8, <3>9 DEF WalkInv
    <2>4. CASE SendToAllEnd
      BY <2>4 DEF SendToAllEnd, WalkInv
    <2>5. CASE (\E p \in Peer : PeerSends(p)) \/ (\E m \in net : Lose(m) \/ Receive(m))
               \/ (\E c \in Client : (\E t \in Thread : StartTask(c, t)) \/ Answer(c) \/ ClientStep(c))
      <3>1. UNCHANGED <<dpc, at, sentTo, expected>>
        BY <2>5 DEF PeerSends, Lose, Receive, StartTask, Answer, ClientStep, ClientLock, FindThread, FindNoThread, CopyInfo,
                    SendTask, WaitForTask, destructor
      <3> QED
        BY <2>1, <3>1 DEF WalkInv
    <2> QED
      BY <1>2, <2>2, <2>3, <2>4, <2>5 DEF Next, DestructorStep
  <1> QED
    BY <1>1, <1>2

\* Between handlers, ExactInv is what RefCountExact says.
LEMMA ExactBetweenHandlers ==
  ASSUME AllInv
  PROVE  RefCountExact
  <1> USE DEF AllInv
  <1> SUFFICES ASSUME ~writing, ~disordered
               PROVE  /\ \A i \in Live : referenceCount[i] = Cardinality(ThreadsOf(i))
                      /\ \A t \in Thread : mThreadIDToStream[t] \in Live \cup {Null}
                      /\ connected \subseteq {info[i] : i \in Live}
                      /\ \A i \in Live : info[i] \in Announcing => info[i] \in connected
                      /\ \A i, j \in Live : info[i] = info[j] /\ info[i] \in Announcing => i = j
    BY DEF RefCountExact
  <1>1. hpc \in {"idle", "lock"}
    BY DEF LockInv
  <1>2. \A i : ThreadsOf(i) = ThreadsCounted(i)
    BY <1>1 DEF ThreadsOf, ThreadsCounted
  <1>3. \A p \in Peer : Due(p) = IF p \in connected THEN ToSet(Hosts[p]) ELSE {}
    BY <1>1 DEF Due
  <1>4. \A i \in Live : referenceCount[i] = Cardinality(ThreadsOf(i))
    BY <1>2 DEF ExactInv, ExactAt
  <1>5. \A t \in Thread : mThreadIDToStream[t] \in Live \cup {Null}
    BY <1>1, LeadIsCounted DEF CoverInv, ListInv
  <1>6. ASSUME NEW p \in connected PROVE \E i \in Live : info[i] = p
    <2>1. p \in Peer
      BY DEF OrderInv
    <2>2. Due(p) # {} \/ Listed(p)
      BY <1>3, <2>1, AnnouncingHosts DEF Listed
    <2> QED
      BY <2>1, <2>2 DEF ExactInv
  <1>7. ASSUME NEW i \in Live, info[i] \in Announcing PROVE info[i] \in connected
    BY <1>3, <1>7 DEF ExactInv, ExactAt
  <1> QED
    BY <1>4, <1>5, <1>6, <1>7 DEF ExactInv

\* The goodbye has reached all connections when the walk is over.
LEMMA GoodbyeStep ==
  ASSUME AllInv, Next
  PROVE  GoodbyeReachesAll'
  <1> USE DEF AllInv
  <1>1. CASE SendToAllEnd
    <2> SUFFICES ASSUME ~disordered'
                 PROVE  /\ expected' \subseteq ToSet(sentTo')
                        /\ ToSet(sentTo') \cap Announcing \subseteq expected'
                        /\ \A k, n \in DOMAIN sentTo' : sentTo'[k] = sentTo'[n] /\ sentTo'[k] \in Announcing => k = n
      BY DEF GoodbyeReachesAll, Announcing
    <2>1. dpc = "walk" /\ at > Len(mConnectionsList) /\ UNCHANGED <<sentTo, expected>>
      BY <1>1 DEF SendToAllEnd
    <2>2. ~disordered /\ ~writing
      BY <2>1, DisorderStays DEF LockInv
    <2>3. /\ connected \subseteq {info[i] : i \in Live}
          /\ \A i \in Live : info[i] \in Announcing => info[i] \in connected
          /\ \A i, j \in Live : info[i] = info[j] /\ info[i] \in Announcing => i = j
      BY <2>2, ExactBetweenHandlers DEF RefCountExact
    <2>4. at \in 1 .. Len(mConnectionsList) + 1 /\ expected = connected /\ Len(mConnectionsList) \in Nat
          /\ sentTo = [k \in 1 .. at - 1 |-> info[mConnectionsList[k]]]
      BY <2>1, LenProperties DEF WalkInv, ListInv
    <2>5. at - 1 = Len(mConnectionsList)
      BY <2>1, <2>4
    <2>6. sentTo = [k \in 1 .. Len(mConnectionsList) |-> info[mConnectionsList[k]]]
      BY <2>4, <2>5
    <2>7. \A k \in 1 .. Len(mConnectionsList) : mConnectionsList[k] \in Live
      BY ToSetMembers DEF ListInv, Live
    <2>8. ToSet(sentTo) = {info[i] : i \in Live}
      <3>1. Live = {mConnectionsList[k] : k \in 1 .. Len(mConnectionsList)}
        BY LenProperties DEF Live, ToSet, ListInv
      <3>2. ToSet(sentTo) = {info[mConnectionsList[k]] : k \in 1 .. Len(mConnectionsList)}
        BY <2>6 DEF ToSet
      <3> QED
        BY <3>1, <3>2, Zenon
    <2>9. ASSUME NEW k \in 1 .. Len(mConnectionsList), NEW n \in 1 .. Len(mConnectionsList),
                 sentTo[k] = sentTo[n], sentTo[k] \in Announcing
          PROVE  k = n
      <3>1. mConnectionsList[k] = mConnectionsList[n]
        BY <2>3, <2>6, <2>7, <2>9
      <3>2. DOMAIN mConnectionsList = 1 .. Len(mConnectionsList)
        BY LenProperties DEF ListInv
      <3> QED
        BY <3>1, <3>2, Zenon DEF ListInv, IsInjective
    <2>10. DOMAIN sentTo = 1 .. Len(mConnectionsList)
      BY <2>6
    <2>11. expected \subseteq ToSet(sentTo) /\ ToSet(sentTo) \cap Announcing \subseteq expected
      BY <2>3, <2>4, <2>8
    <2> QED
      BY <2>1, <2>9, <2>10, <2>11
  <1>2. CASE ~SendToAllEnd
    <2>1. dpc' = "done" => dpc = "done" /\ UNCHANGED <<sentTo, expected>>
      BY <1>2 DEF Next, PeerSends, Lose, Receive, HandlerStep, HandlerLock, AddConnection, AddThread, RemoveThread, RemoveThreadID,
         RemoveUnknownThread, HandlerUnlock, ClientStep, StartTask, ClientLock, FindThread, FindNoThread, CopyInfo,
         SendTask, Answer, WaitForTask, SendGoodbye, DestructorStep, SendToNext, destructor
    <2> QED
      BY <2>1, DisorderStays DEF GoodbyeReachesAll
  <1> QED
    BY <1>1, <1>2

\* The inductive invariant holds.
LEMMA AlwaysAllInv == Spec => []AllInv
  <1>1. Init => AllInv
    <2> SUFFICES ASSUME Init PROVE AllInv
      OBVIOUS
    <2>1. ToSet(<<>>) = {} /\ Live = {} /\ <<>> \in Seq(Iterator) /\ <<>> \in Seq(Thread) /\ IsInjective(<<>>) /\ Len(<<>>) = 0
      BY DEF Init, Live, ToSet, IsInjective
    <2>2. ListInv /\ HandlerInv
      BY <2>1 DEF Init, ListInv, HandlerInv, HandlerSteps
    <2>3. LockInv
      BY DEF Init, LockInv, ClientSteps
    <2>4. \A i \in Iterator : ThreadsCounted(i) = {}
      BY PeersNullAssumption DEF Init, ThreadsCounted
    <2>5. CoverInv
      BY <2>4, FS_EmptySet DEF CoverInv
    <2>6. LeadInv
      BY DEF Init, LeadInv
    <2>7. CopyInv
      BY DEF Init, CopyInv
    <2>8. OrderInv
      BY DEF Init, OrderInv, Datagram
    <2>9. \A p \in Peer : Due(p) = {} /\ ~Listed(p)
      BY DEF Init, Due, Listed
    <2>10. ExactInv
      BY <2>1, <2>9 DEF ExactInv
    <2>11. WalkInv /\ GoodbyeReachesAll
      BY DEF Init, WalkInv, GoodbyeReachesAll
    <2> QED
      BY <2>2, <2>3, <2>5, <2>6, <2>7, <2>8, <2>10, <2>11 DEF AllInv
  <1>2. AllInv /\ [Next]_vars => AllInv'
    <2>1. ASSUME AllInv, Next PROVE AllInv'
      BY <2>1, ListStep, HandlerInvStep, LockStep, CoverStep, LeadStep, CopyStep, OrderStep, ExactStep, WalkStep, GoodbyeStep DEF AllInv
    <2>2. ASSUME AllInv, UNCHANGED vars PROVE AllInv'
      <3>1. UNCHANGED <<mConnectionsList, info, referenceCount, mThreadIDToStream, hpc, message, todo, connected, disordered>>
        BY <2>2 DEF vars, list, handler, network
      <3>2. UNCHANGED <<writing, readers, cpc, cThread, found, dpc, at, sentTo, expected, seqno, sent, net>>
        BY <2>2 DEF vars, lock, clients, destructor, network
      <3>3. (\A i : ThreadsCounted(i)' = ThreadsCounted(i)) /\ Live' = Live
        BY <3>1 DEF ThreadsCounted, Live
      <3>4. ListInv' /\ HandlerInv' /\ LeadInv' /\ OrderInv'
        BY <2>2, <3>1, <3>2 DEF AllInv, ListInv, HandlerInv, LeadInv, OrderInv, IsHello
      <3>5. LockInv' /\ CopyInv' /\ WalkInv' /\ GoodbyeReachesAll'
        BY <2>2, <3>1, <3>2 DEF AllInv, LockInv, CopyInv, WalkInv, GoodbyeReachesAll, Announcing
      <3>6. CoverInv'
        BY <2>2, <3>1, <3>3 DEF AllInv, CoverInv
      <3>7. ExactInv'
        BY <2>2, <3>1 DEF AllInv, ExactInv, ExactAt, Listed, Announcing, Live, ThreadsCounted, Due
      <3> QED
        BY <3>4, <3>5, <3>6, <3>7 DEF AllInv
    <2> QED
      BY <2>1, <2>2
  <1> QED
    BY <1>1, <1>2, PTL DEF Spec

-----------------------------------------------------------------------------
(* The theorems.                                                           *)

\* Between handlers, as long as every message came once and in order, the count
\* of a connection is the number of threads that lead to it, every connected peer
\* has a connection, and a peer with threads has one exactly while connected.
THEOREM RefCountAlwaysExact == Spec => []RefCountExact
  <1>1. AllInv => RefCountExact
    BY ExactBetweenHandlers
  <1> QED
    BY <1>1, AlwaysAllInv, PTL

\* Whatever the network loses, repeats or reorders, between handlers no thread
\* leads to an erased connection, and a connection counts at least its threads.
THEOREM CountAlwaysCoversThreads == Spec => []CountCoversThreads
  <1>1. AllInv => CountCoversThreads
    <2> SUFFICES ASSUME AllInv, ~writing, NEW t \in Thread, mThreadIDToStream[t] # Null
                 PROVE  /\ mThreadIDToStream[t] \in Live
                        /\ referenceCount[mThreadIDToStream[t]] >= Cardinality(ThreadsOf(mThreadIDToStream[t]))
      BY DEF CountCoversThreads
    <2>1. hpc \in {"idle", "lock"} /\ mThreadIDToStream[t] \in Iterator
      BY DEF AllInv, LockInv, ListInv
    <2>2. \A i : ThreadsOf(i) = ThreadsCounted(i)
      BY <2>1 DEF ThreadsOf, ThreadsCounted
    <2> QED
      BY <2>1, <2>2, LeadIsCounted DEF AllInv, CoverInv
  <1> QED
    BY <1>1, AlwaysAllInv, PTL

\* A client that has found its thread reads through an iterator of a connection
\* on the list, of a peer that hosts the thread, although the code erases a
\* connection before the threads that lead to it.
THEOREM ReadAlwaysCurrent == Spec => []ReadIsCurrent
  <1>1. AllInv => ReadIsCurrent
    <2> SUFFICES ASSUME AllInv, NEW c \in Client, cpc[c] = "copy"
                 PROVE  /\ found[c] \in Live /\ mThreadIDToStream[cThread[c]] = found[c]
                        /\ cThread[c] \in ToSet(Hosts[info[found[c]]])
      BY DEF ReadIsCurrent
    <2>1. cThread[c] \in Thread /\ found[c] = mThreadIDToStream[cThread[c]] /\ found[c] # Null
      BY DEF AllInv, CopyInv
    <2>2. c \in readers /\ ~writing /\ hpc \in {"idle", "lock"}
      BY DEF AllInv, LockInv
    <2>3. found[c] \in Live
      BY <2>1, <2>2, LeadIsCounted DEF AllInv, CoverInv, ListInv
    <2> QED
      BY <2>1, <2>3 DEF AllInv, LeadInv
  <1> QED
    BY <1>1, AlwaysAllInv, PTL

\* The handler dereferences end() only after the network has failed.
THEOREM CrashAlwaysNeedsDisorder == Spec => []CrashNeedsDisorder
  <1>1. AllInv => CrashNeedsDisorder
    BY DEF AllInv, OrderInv, CrashNeedsDisorder
  <1> QED
    BY <1>1, AlwaysAllInv, PTL

\* The destructor's goodbye reaches every peer that was connected, and of the
\* peers with threads no other and none twice.
THEOREM GoodbyeAlwaysReachesAll == Spec => []GoodbyeReachesAll
  <1>1. AllInv => GoodbyeReachesAll
    BY DEF AllInv
  <1> QED
    BY <1>1, AlwaysAllInv, PTL
=============================================================================
