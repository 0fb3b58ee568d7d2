----------------------------- MODULE PeerLookup -----------------------------
(***************************************************************************)
(* The lookup of a machine to run a thread on: GlobalPeers (its newer copy *)
(* is Client::PeerLookupClient) broadcasts a lookup from a new connection, *)
(* waits on that connection for a proposal and accepts it; every           *)
(* PeerLookupServer, and every GlobalPeers that is waiting, answers a      *)
(* lookup with a proposal.  Messages are lost, repeated and reordered.     *)
(*                                                                         *)
(* Message::IsValidMessageType accepts no type in the source ("TODO: a     *)
(* stable messages"); the first state chooses between that and accepting   *)
(* every type of the enumeration.                                          *)
(***************************************************************************)
EXTENDS Naturals, Functions

CONSTANTS
  Client,   \* GlobalPeers objects
  Server,   \* PeerLookupServer objects
  None,
  MaxRuns   \* calls of runThread by all clients

VARIABLES
  validTypes,      \* what IsValidMessageType accepts
  mIsComplete,     \* mCurrentThreadSentTask of each client: its mIsComplete
  mProposedClient, \* and the connection in its mMaybeProposedClient
  runs,            \* calls of runThread; the connection of the last one is <<client, runs>>
  waiting,         \* clients inside waitForTask
  serving,         \* servers still inside run
  sent,            \* messages sent, each receivable until it is lost
  proposals,       \* history: the proposals ever sent
  accepted         \* history: what every call of runThread accepted

vars == <<validTypes, mIsComplete, mProposedClient, runs, waiting, serving, sent, proposals, accepted>>

Type == {"RunThreadPeerLookup", "RunThreadPeerLookupPropose", "RunThreadPeerLookupAcceptPropose"}
Connection == (Client \X (1..MaxRuns)) \cup (Server \X {0})
Messages == [type : Type, from : Connection, to : Connection]

TypeOK ==
  /\ validTypes \subseteq Type
  /\ mIsComplete \in [Client -> BOOLEAN]
  /\ mProposedClient \in [Client -> Connection \cup {None}]
  /\ runs \in [Client -> 0..MaxRuns]
  /\ waiting \subseteq Client /\ serving \subseteq Server
  /\ sent \subseteq Messages /\ proposals \subseteq Messages
  /\ accepted \subseteq [call : Connection, to : Connection]

Here(c) == <<c, runs[c]>>
Calls == FoldFunction(+, 0, runs)

Init ==
  /\ validTypes \in {{}, Type}
  /\ mIsComplete = [c \in Client |-> FALSE]
  /\ mProposedClient = [c \in Client |-> None]
  /\ runs = [c \in Client |-> 0]
  /\ waiting = {} /\ serving = Server
  /\ sent = {} /\ proposals = {} /\ accepted = {}

-----------------------------------------------------------------------------
\* Message(type), written to a connection by sendMessage.
Msg(type, from, to) == [type |-> type, from |-> from, to |-> to]

\* The global stream broadcasts: to every server and the other clients' connections
\* (how far it reaches is up to the factory, which is an interface).
Lookups(from) ==
  {Msg("RunThreadPeerLookup", from, to) : to \in
      {<<s, 0>> : s \in Server} \cup {Here(c) : c \in {d \in Client : runs[d] > 0 /\ d # from[1]}}}

IsValidMessageType(type) == type \in validTypes

\* receiveMessage on connection to: a message in flight, if its type is valid,
\* or an error (the type is not, or the message is too short for one).
Receives(m, to) == m \in sent /\ m.to = to /\ IsValidMessageType(m.type)
ReceiveError(to) == \E m \in sent : m.to = to

\* A proposal, in answer to a lookup.
Propose(from, to) ==
  LET p == Msg("RunThreadPeerLookupPropose", from, to) IN
  sent' = sent \cup {p} /\ proposals' = proposals \cup {p}

\* runThread up to waitForTask: a new stream, with the task that the constructor
\* made and no call resets.
RunThread(c) ==
  /\ c \notin waiting /\ Calls < MaxRuns
  /\ runs' = [runs EXCEPT ![c] = @ + 1]
  /\ waiting' = waiting \cup {c}
  /\ sent' = sent \cup Lookups(<<c, runs[c] + 1>>)
  /\ UNCHANGED <<validTypes, mIsComplete, mProposedClient, serving, proposals, accepted>>

\* waitForTask's test.
TaskAnyway(c) == TRUE
TaskDone(c) == mIsComplete[c]

\* onMessageReceived for each type.
OnLookup(c, m) ==
  /\ m.type = "RunThreadPeerLookup"
  /\ Propose(Here(c), m.from)
  /\ UNCHANGED <<mIsComplete, mProposedClient>>

OnAcceptPropose(m) ==
  /\ m.type = "RunThreadPeerLookupAcceptPropose"
  /\ UNCHANGED <<mIsComplete, mProposedClient, sent, proposals>>

OnPropose(c, m) ==
  /\ m.type = "RunThreadPeerLookupPropose"
  /\ ~mIsComplete[c]
  /\ mProposedClient' = [mProposedClient EXCEPT ![c] = m.from]
  /\ mIsComplete' = [mIsComplete EXCEPT ![c] = TRUE]
  /\ UNCHANGED <<sent, proposals>>

\* A turn of waitForTask's loop; one that receives an error changes nothing.
WaitReceives(c, m) ==
  /\ c \in waiting /\ ~TaskDone(c)
  /\ Receives(m, Here(c))
  /\ OnLookup(c, m) \/ OnAcceptPropose(m) \/ OnPropose(c, m)
  /\ UNCHANGED <<validTypes, runs, waiting, serving, accepted>>

\* runThread after waitForTask: accept the proposed client; the process peers
\* server takes the connection, which nothing reads from here on.
RunThreadEnds(c) ==
  /\ c \in waiting /\ TaskDone(c)
  /\ waiting' = waiting \ {c}
  /\ sent' = sent \cup {Msg("RunThreadPeerLookupAcceptPropose", Here(c), mProposedClient[c])}
  /\ accepted' = accepted \cup {[call |-> Here(c), to |-> mProposedClient[c]]}
  /\ UNCHANGED <<validTypes, mIsComplete, mProposedClient, runs, serving, proposals>>

-----------------------------------------------------------------------------
\* PeerLookupServer::run and handleMessage.  A message it cannot receive ends it.
ServerReceives(s, m) ==
  /\ s \in serving
  /\ Receives(m, <<s, 0>>)
  /\ IF m.type = "RunThreadPeerLookup" THEN Propose(<<s, 0>>, m.from) ELSE UNCHANGED <<sent, proposals>>
  /\ UNCHANGED <<validTypes, mIsComplete, mProposedClient, runs, waiting, serving, accepted>>

ServerReturns(s) ==
  /\ s \in serving
  /\ ReceiveError(<<s, 0>>)
  /\ serving' = serving \ {s}
  /\ UNCHANGED <<validTypes, mIsComplete, mProposedClient, runs, waiting, sent, proposals, accepted>>

\* The network loses what it has not delivered, or stops repeating it.
Lose(m) ==
  /\ m \in sent
  /\ sent' = sent \ {m}
  /\ UNCHANGED <<validTypes, mIsComplete, mProposedClient, runs, waiting, serving, proposals, accepted>>

ClientStep(c) ==
  \/ \E m \in sent : WaitReceives(c, m)
  \/ RunThreadEnds(c)

Next ==
  \/ \E c \in Client : RunThread(c) \/ ClientStep(c)
  \/ \E s \in Server : ServerReturns(s) \/ \E m \in sent : ServerReceives(s, m)
  \/ \E m \in sent : Lose(m)

Spec == Init /\ [][Next]_vars

\* The loops of the client and the servers keep running.
FairSpec ==
  /\ Spec
  /\ \A c \in Client : WF_vars(ClientStep(c))
  /\ \A s \in Server : WF_vars(\E m \in sent : ServerReceives(s, m))

-----------------------------------------------------------------------------
\* Each call accepts one peer at most, and that peer proposed itself to the
\* client: to the connection of this call or of an earlier one, over all losses
\* and repetitions, although the task and the proposed client outlive the call
\* (GlobalPeers.cpp 32-51, 64-85; GlobalPeers.hpp 80-136).
AcceptsOneProposer ==
  /\ \A a \in accepted : \E r \in 1 .. a.call[2] :
       Msg("RunThreadPeerLookupPropose", a.to, <<a.call[1], r>>) \in proposals
  /\ \A a, b \in accepted : a.call = b.call => a = b

\* "If no response received, the client shall send the request again (from the
\* same connection as the first one)" (Message.hpp 61-62): a client that waits
\* stops waiting or has a lookup of its connection in flight again and again.
LookupRetried ==
  \A c \in Client :
    (c \in waiting) ~> (c \notin waiting \/ \E m \in sent : m.from = Here(c))
=============================================================================
