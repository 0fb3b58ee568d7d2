---------------------------- MODULE ProcessPeers ----------------------------
(***************************************************************************)
(* Core/Common/ProcessPeersServer and ProcessPeersClient: what a process   *)
(* instance knows of the other instances of its process (OtherServers) and *)
(* the threads that share it under a RWLock:                               *)
(*   - the server's handler, which takes the write lock to apply a hello   *)
(*     (addThreads) or a goodbye (removeThreads);                          *)
(*   - clients, which take the read lock to find the peer of a thread,     *)
(*     send it a message and wait for the answer;                          *)
(*   - the destructor, which takes the read lock to send its goodbye to    *)
(*     every connection.                                                   *)
(*                                                                         *)
(* One statement that reads or writes the shared state is one step.        *)
(* mThreadIDToStream is the map HashTable implements, mConnectionsList a   *)
(* sequence of list iterators.  The messages travel in datagrams: they may *)
(* be lost, repeated and reordered.                                        *)
(***************************************************************************)
EXTENDS Integers, Sequences, SequencesExt, FiniteSets

CONSTANTS
  Peer,      \* the remote instances: their address and port (StreamInfoType)
  Thread,    \* HostedThreadIDs
  Hosts,     \* the threads each peer announces, in the order of its table
  Client,    \* the local threads that use a ProcessPeersClient
  Iterator,  \* the addresses of mConnectionsList's nodes
  Null,
  MaxSent,   \* bound: the hellos and goodbyes each peer sends
  MaxRepeats \* bound: the datagrams the network repeats

ASSUME HostsAssumption ==
  /\ Hosts \in [Peer -> Seq(Thread)]
  /\ \A p \in Peer : IsInjective(Hosts[p])
ASSUME PeersNullAssumption == Null \notin Peer \cup Iterator \cup Client
\* A HostedThreadID is a thread of one instance.  An instance may host none:
\* nothing in the code enters a thread into mProcessLocalThreads.
ASSUME HostsApart ==
  \A p, q \in Peer : p # q => ToSet(Hosts[p]) \cap ToSet(Hosts[q]) = {}

VARIABLES
  mConnectionsList, info, referenceCount, \* the list and its nodes
  mThreadIDToStream,
  writing, readers,  \* the RWLock: held by the handler; by these readers
  hpc, message, todo, \* the handler: its step, its message, the threads left
  cpc, cThread, found, mIsComplete, answered, \* the clients
  dpc, at, sentTo,   \* the destructor: its step, its iterator, its goodbyes
  net, sent, seqno, repeats, \* the datagrams, and what bounds and orders them
  connected, expected, disordered \* history

list == <<mConnectionsList, info, referenceCount, mThreadIDToStream>>
handler == <<hpc, message, todo>>
clients == <<cpc, cThread, found, mIsComplete, answered>>
destructor == <<dpc, at, sentTo, expected>>
network == <<net, sent, seqno, repeats, disordered>>
lock == <<writing, readers>>
vars == <<list, lock, handler, clients, destructor, network, connected>>

Live == ToSet(mConnectionsList)

Init ==
  /\ mConnectionsList = <<>>
  /\ info = [i \in Iterator |-> Null]
  /\ referenceCount = [i \in Iterator |-> 0]
  /\ mThreadIDToStream = [t \in Thread |-> Null]
  /\ writing = FALSE /\ readers = {}
  /\ hpc = "idle" /\ message = Null /\ todo = <<>>
  /\ cpc = [c \in Client |-> "idle"]
  /\ cThread \in [Client -> {CHOOSE t \in Thread : TRUE}]
  /\ found = [c \in Client |-> Null]
  /\ mIsComplete = [c \in Client |-> FALSE]
  /\ answered = [c \in Client |-> FALSE]
  /\ dpc = "alive" /\ at = 0 /\ sentTo = <<>>
  /\ net = {} /\ sent = [p \in Peer |-> 0] /\ seqno = [p \in Peer |-> 0]
  /\ repeats = 0
  /\ connected = {} /\ expected = {} /\ disordered = FALSE

-----------------------------------------------------------------------------
(* ZqRWLock.                                                               *)

LockReadAlways(r) == readers' = readers \cup {r} /\ UNCHANGED writing
LockRead(r) == ~writing /\ readers' = readers \cup {r} /\ UNCHANGED writing
UnlockRead(r) == readers' = readers \ {r} /\ UNCHANGED writing
LockWrite == ~writing /\ readers = {} /\ writing' = TRUE /\ UNCHANGED readers
UnlockWrite == writing' = FALSE /\ UNCHANGED readers

-----------------------------------------------------------------------------
(* The remote instances and the network.  A peer's messages are numbered:  *)
(* an odd number is a hello, an even one a goodbye.                        *)

IsHello(m) == m.seqno % 2 = 1

\* The constructor and the destructor of the remote ProcessPeersServer.
PeerSends(p) ==
  /\ sent[p] < MaxSent[p]
  /\ sent' = [sent EXCEPT ![p] = @ + 1]
  /\ net' = net \cup {[peer |-> p, seqno |-> sent[p] + 1]}
  /\ UNCHANGED <<list, lock, handler, clients, destructor, seqno, repeats,
                 disordered, connected>>

Lose(m) ==
  /\ net' = net \ {m}
  /\ disordered' = TRUE
  /\ UNCHANGED <<list, lock, handler, clients, destructor, sent, seqno, repeats, connected>>

\* The handler is given a datagram; the network may keep a copy of it.
Receive(m) ==
  /\ hpc = "idle"
  /\ hpc' = "lock" /\ message' = m
  /\ \/ net' = net \ {m} /\ UNCHANGED repeats
     \/ repeats < MaxRepeats /\ repeats' = repeats + 1 /\ UNCHANGED net
  /\ seqno' = [seqno EXCEPT ![m.peer] = m.seqno]
  /\ disordered' = (disordered \/ m.seqno # seqno[m.peer] + 1)
  /\ UNCHANGED <<list, lock, todo, clients, destructor, sent, connected>>

-----------------------------------------------------------------------------
(* The handler.                                                            *)

\* The threads addThreads loops over: all of the message's.
ThreadsButLast(threads) == Front(threads)
ThreadsToAdd(threads) == threads

\* onHelloReceived and onGoodbyeReceived: getWrite().
HandlerLock ==
  /\ hpc = "lock"
  /\ LockWrite
  /\ hpc' = IF IsHello(message) THEN "addConnection" ELSE "removeThread"
  /\ todo' = IF IsHello(message) THEN ThreadsToAdd(Hosts[message.peer]) ELSE Hosts[message.peer]
  /\ UNCHANGED <<list, message, clients, destructor, network, connected>>

\* new NodeType, from an allocator that hands out a freed address again.
NewIterator == CHOOSE i \in Iterator : i \notin Live

\* addThreads: the connection first, with the number of its threads as count.
CountOne(threads) == 1
CountOneMore(threads) == Len(threads) + 1
CountThreads(threads) == Len(threads)

AddConnection ==
  /\ hpc = "addConnection" /\ ~(Iterator \subseteq Live)
  /\ LET i == NewIterator IN
     /\ mConnectionsList' = Append(mConnectionsList, i)
     /\ info' = [info EXCEPT ![i] = message.peer]
     /\ referenceCount' = [referenceCount EXCEPT ![i] = CountThreads(todo)]
  /\ hpc' = "addThread"
  /\ UNCHANGED <<mThreadIDToStream, lock, message, todo, clients, destructor, network, connected>>

\* Then each of its threads; the connection a thread had before keeps its count.
AddThread ==
  /\ hpc = "addThread" /\ todo # <<>>
  /\ mThreadIDToStream' = [mThreadIDToStream EXCEPT ![Head(todo)] = Last(mConnectionsList)]
  /\ todo' = Tail(todo)
  /\ UNCHANGED <<mConnectionsList, info, referenceCount, lock, hpc, message,
                 clients, destructor, network, connected>>

\* LinkedList.erase
Erase(i) == RemoveAt(mConnectionsList, CHOOSE k \in DOMAIN mConnectionsList : mConnectionsList[k] = i)

\* removeThreads, the first half of an iteration: the connection's count goes
\* down, and at zero the connection is erased while the map still leads to it.
RemoveThread ==
  /\ hpc = "removeThread" /\ todo # <<>>
  /\ LET i == mThreadIDToStream[Head(todo)] IN
     /\ i # Null
     /\ referenceCount' = [referenceCount EXCEPT ![i] = @ - 1]
     /\ mConnectionsList' = IF referenceCount[i] = 1 THEN Erase(i) ELSE mConnectionsList
  /\ hpc' = "removeThreadID"
  /\ UNCHANGED <<info, mThreadIDToStream, lock, message, todo, clients, destructor,
                 network, connected>>

\* The second half: the thread leaves the map.
RemoveThreadID ==
  /\ hpc = "removeThreadID"
  /\ mThreadIDToStream' = [mThreadIDToStream EXCEPT ![Head(todo)] = Null]
  /\ todo' = Tail(todo)
  /\ hpc' = "removeThread"
  /\ UNCHANGED <<mConnectionsList, info, referenceCount, lock, message, clients,
                 destructor, network, connected>>

\* A thread that is not in the map: end()->second is dereferenced.
RemoveUnknownThread ==
  /\ hpc = "removeThread" /\ todo # <<>>
  /\ mThreadIDToStream[Head(todo)] = Null
  /\ hpc' = "crashed"
  /\ UNCHANGED <<list, lock, message, todo, clients, destructor, network, connected>>

\* The temporary that getWrite() returned is destroyed.
HandlerUnlock ==
  /\ hpc \in {"addThread", "removeThread"} /\ todo = <<>>
  /\ UnlockWrite
  /\ connected' = IF IsHello(message) THEN connected \cup {message.peer}
                  ELSE connected \ {message.peer}
  /\ hpc' = "idle" /\ message' = Null
  /\ UNCHANGED <<list, todo, clients, destructor, network>>

-----------------------------------------------------------------------------
(* A client: stop-, continue- and killRemoteThread differ in the message   *)
(* they send only.                                                         *)

At(c, from, to) == cpc[c] = from /\ cpc' = [cpc EXCEPT ![c] = to]

\* mCurrentTask = Task{...}: the first call, or one after a call that returned.
StartTask(c, t) ==
  /\ At(c, "idle", "lock") \/ At(c, "returned", "lock")
  /\ cThread' = [cThread EXCEPT ![c] = t]
  /\ mIsComplete' = [mIsComplete EXCEPT ![c] = FALSE]
  /\ answered' = [answered EXCEPT ![c] = FALSE]
  /\ UNCHANGED <<list, lock, handler, found, destructor, network, connected>>

\* getRead()
ClientLock(c) ==
  /\ At(c, "lock", "find")
  /\ LockRead(c)
  /\ UNCHANGED <<list, handler, cThread, found, mIsComplete, answered, destructor, network, connected>>

\* findThreadStreamInfo: the thread's iterator, or an error and the end.
FindThread(c) ==
  /\ mThreadIDToStream[cThread[c]] # Null
  /\ At(c, "find", "copy")
  /\ found' = [found EXCEPT ![c] = mThreadIDToStream[cThread[c]]]
  /\ UNCHANGED <<list, lock, handler, cThread, mIsComplete, answered, destructor, network, connected>>

StayLocked(c) == UNCHANGED lock
UnlockNotFound(c) == UnlockRead(c)

FindNoThread(c) ==
  /\ mThreadIDToStream[cThread[c]] = Null
  /\ At(c, "find", "returned")
  /\ UnlockNotFound(c)
  /\ UNCHANGED <<list, handler, cThread, found, mIsComplete, answered, destructor, network, connected>>

\* The info is copied out of the node, and the lock released.
CopyInfo(c) ==
  /\ At(c, "copy", "send")
  /\ found' = [found EXCEPT ![c] = info[@]]
  /\ UnlockRead(c)
  /\ UNCHANGED <<list, handler, cThread, mIsComplete, answered, destructor, network, connected>>

\* createMessageStream and sendMessage, to a peer that may have left.
SendTask(c) ==
  /\ At(c, "send", "waiting")
  /\ UNCHANGED <<list, lock, handler, cThread, found, mIsComplete, answered, destructor,
                 network, connected>>

\* The remote server's "OK" reaches the stream.
Answer(c) ==
  /\ cpc[c] = "waiting" /\ ~answered[c]
  /\ answered' = [answered EXCEPT ![c] = TRUE]
  /\ UNCHANGED <<list, lock, handler, cpc, cThread, found, mIsComplete, destructor,
                 network, connected>>

\* An iteration of waitUntilCurrentTaskComplete: onMessageReceived is given the
\* answer, if there is one, and does nothing with it.
WaitForTask(c) ==
  /\ At(c, "waiting", IF mIsComplete[c] THEN "returned" ELSE "waiting")
  /\ UNCHANGED <<list, lock, handler, cThread, found, mIsComplete, answered, destructor,
                 network, connected>>

-----------------------------------------------------------------------------
(* The destructor: sendGoodbye, which is sendToAll.                        *)

DestructorReader == "destructor"
ASSUME ReadersAssumption == DestructorReader \notin Client

SendGoodbye ==
  /\ dpc = "alive" /\ dpc' = "walk"
  /\ LockRead(DestructorReader)
  /\ at' = 1
  /\ expected' = connected
  /\ UNCHANGED <<list, handler, clients, sentTo, network, connected>>

SendToNext ==
  /\ dpc = "walk" /\ at <= Len(mConnectionsList)
  /\ sentTo' = Append(sentTo, info[mConnectionsList[at]])
  /\ at' = at + 1
  /\ UNCHANGED <<list, lock, handler, clients, dpc, expected, network, connected>>

SendToAllEnd ==
  /\ dpc = "walk" /\ at > Len(mConnectionsList) /\ dpc' = "done"
  /\ UnlockRead(DestructorReader)
  /\ UNCHANGED <<list, handler, clients, at, sentTo, expected, network, connected>>

-----------------------------------------------------------------------------
HandlerStep ==
  \/ HandlerLock
  \/ AddConnection \/ AddThread \/ RemoveThread \/ RemoveThreadID \/ RemoveUnknownThread
  \/ HandlerUnlock

ClientStep(c) ==
  \/ ClientLock(c) \/ FindThread(c) \/ FindNoThread(c) \/ CopyInfo(c)
  \/ SendTask(c) \/ WaitForTask(c)

DestructorStep == SendToNext \/ SendToAllEnd

Next ==
  \/ \E p \in Peer : PeerSends(p)
  \/ \E m \in net : Lose(m) \/ Receive(m)
  \/ HandlerStep
  \/ \E c \in Client : (\E t \in Thread : StartTask(c, t)) \/ Answer(c) \/ ClientStep(c)
  \/ SendGoodbye
  \/ DestructorStep

\* The threads run: a step that stays possible is taken.  Nothing is assumed of
\* the network, nothing of who calls, and nothing of who is granted the lock.
Fairness ==
  /\ WF_vars(HandlerStep)
  /\ WF_vars(DestructorStep)
  /\ \A c \in Client : WF_vars(ClientStep(c))

Spec == Init /\ [][Next]_vars /\ Fairness

-----------------------------------------------------------------------------
(* Properties.                                                             *)

ThreadsOf(i) == {t \in Thread : mThreadIDToStream[t] = i}

Announcing == {p \in Peer : Hosts[p] # <<>>}

\* Between handlers, as long as the network has delivered every message once and
\* in order: referenceCount is the number of threads that lead to a connection,
\* every connected peer has a connection, and a peer that announces threads has
\* one while it is connected and none before and after.
RefCountExact ==
  ~writing /\ ~disordered =>
    /\ \A i \in Live : referenceCount[i] = Cardinality(ThreadsOf(i))
    /\ \A t \in Thread : mThreadIDToStream[t] \in Live \cup {Null}
    /\ connected \subseteq {info[i] : i \in Live}
    /\ \A i \in Live : info[i] \in Announcing => info[i] \in connected
    /\ \A i, j \in Live : info[i] = info[j] /\ info[i] \in Announcing => i = j

\* A lost, repeated or early message never leaves a thread on an erased
\* connection: a connection counts at least the threads that lead to it.
CountCoversThreads ==
  ~writing =>
    \A t \in Thread :
      LET i == mThreadIDToStream[t] IN
      i # Null => i \in Live /\ referenceCount[i] >= Cardinality(ThreadsOf(i))

\* The iterator a client is about to read through is of a connection on the
\* list, and it is its thread's, although the code erases a connection before
\* the threads that lead to it.
ReadIsCurrent ==
  \A c \in Client :
    cpc[c] = "copy" => /\ found[c] \in Live
                       /\ mThreadIDToStream[cThread[c]] = found[c]
                       /\ cThread[c] \in ToSet(Hosts[info[found[c]]])

\* The handler reaches the dereference of end() only when the network has lost,
\* repeated or reordered a message.
CrashNeedsDisorder == hpc = "crashed" => disordered

\* The goodbye reaches every peer that was connected when the destructor got the
\* lock, and of the peers that announce threads it reaches no other and none
\* twice, although each send is a step of its own.
GoodbyeReachesAll ==
  dpc = "done" /\ ~disordered =>
    /\ expected \subseteq ToSet(sentTo)
    /\ ToSet(sentTo) \cap Announcing \subseteq expected
    /\ \A k, n \in DOMAIN sentTo : sentTo[k] = sentTo[n] /\ sentTo[k] \in Announcing => k = n

\* Whoever takes the lock gives it back, on every path: the client that finds no
\* thread, the destructor after its sends, and the handler unless it crashes.
\* It says nothing of who gets the lock next.
LockGivenBack ==
  /\ writing ~> (~writing \/ hpc = "crashed")
  /\ \A r \in Client \cup {DestructorReader} : (r \in readers) ~> (r \notin readers)

\* stop-, continue- and killRemoteThread are blocking: they "wait until an
\* 'continued' method received", and return when it was.
TaskCompletes ==
  \A c \in Client : (cpc[c] = "waiting" /\ answered[c]) ~> (cpc[c] = "returned")
=============================================================================
