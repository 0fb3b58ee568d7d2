---------------------------- MODULE PeersProofs -----------------------------
(***************************************************************************)
(* Proofs about PeerLookup and HostedThreads, for any number of clients,   *)
(* servers, calls, threads and requests.                                   *)
(***************************************************************************)
EXTENDS MCCore, Integers, Sequences, SequenceTheorems, TLAPS

-----------------------------------------------------------------------------
(* PeerLookup.                                                             *)

\* What AcceptsOneProposer needs: a proposal in flight was sent; a client that
\* has no proposal is in its first call at most; a client with one has accepted
\* it in every call it has finished, and nothing else was accepted.
LookupInv ==
  /\ mIsComplete \in [Client -> BOOLEAN]
  /\ mProposedClient \in [Client -> {m.from : m \in proposals} \cup {None}]
  /\ runs \in [Client -> Nat]
  /\ waiting \subseteq Client
  /\ \A m \in sent : m.type = "RunThreadPeerLookupPropose" =>
       m \in proposals /\ m = Msg(m.type, m.from, m.to)
  /\ \A c \in Client :
       /\ c \in waiting => runs[c] >= 1
       /\ ~mIsComplete[c] => runs[c] = (IF c \in waiting THEN 1 ELSE 0)
       /\ mIsComplete[c] =>
            /\ runs[c] >= 1
            /\ Msg("RunThreadPeerLookupPropose", mProposedClient[c], <<c, 1>>) \in proposals
            /\ \A i \in 1 .. (IF c \in waiting THEN runs[c] - 1 ELSE runs[c]) :
                 [call |-> <<c, i>>, to |-> mProposedClient[c]] \in accepted
  /\ \A a \in accepted : \E c \in Client : \E i \in 1..runs[c] :
       mIsComplete[c] /\ a = [call |-> <<c, i>>, to |-> mProposedClient[c]]

\* A message on its way to a waiting client, taken out of the network in its loop.
LEMMA WaitReceivesInv ==
  ASSUME LookupInv, NEW c \in Client, NEW m \in sent, WaitReceives(c, m)
  PROVE  LookupInv'
  <1> USE DEF LookupInv, WaitReceives, TaskDone, Receives, Here
  <1>1. CASE OnLookup(c, m)
    BY <1>1 DEF OnLookup, Propose, Msg
  <1>2. CASE OnAcceptPropose(m)
    BY <1>2 DEF OnAcceptPropose
  <1>3. CASE OnPropose(c, m)
    <2>1. runs[c] = 1 /\ m.to = <<c, 1>> /\ m \in proposals
          /\ m = Msg("RunThreadPeerLookupPropose", m.from, <<c, 1>>)
      BY <1>3 DEF OnPropose
    <2>2. /\ mProposedClient' = [mProposedClient EXCEPT ![c] = m.from]
          /\ mIsComplete' = [mIsComplete EXCEPT ![c] = TRUE]
          /\ UNCHANGED <<sent, proposals, runs, waiting, accepted>>
      BY <1>3 DEF OnPropose
    <2>3. mIsComplete' \in [Client -> BOOLEAN] /\ mIsComplete'[c]
          /\ \A d \in Client \ {c} : mIsComplete'[d] = mIsComplete[d]
      BY <2>2
    <2>4. /\ mProposedClient' \in [Client -> {p.from : p \in proposals'} \cup {None}]
          /\ mProposedClient'[c] = m.from
          /\ \A d \in Client \ {c} : mProposedClient'[d] = mProposedClient[d]
      BY <2>1, <2>2
    <2>5. \A a \in accepted : \E d \in Client \ {c} : \E i \in 1..runs[d] :
            mIsComplete[d] /\ a = [call |-> <<d, i>>, to |-> mProposedClient[d]]
      BY <1>3
    <2>6. c \in waiting
      OBVIOUS
    <2>7. ASSUME NEW d \in Client
          PROVE  /\ d \in waiting' => runs'[d] >= 1
                 /\ ~mIsComplete'[d] => runs'[d] = (IF d \in waiting' THEN 1 ELSE 0)
                 /\ mIsComplete'[d] =>
                      /\ runs'[d] >= 1
                      /\ Msg("RunThreadPeerLookupPropose", mProposedClient'[d], <<d, 1>>) \in proposals'
                      /\ \A i \in 1 .. (IF d \in waiting' THEN runs'[d] - 1 ELSE runs'[d]) :
                           [call |-> <<d, i>>, to |-> mProposedClient'[d]] \in accepted'
      <3>1. CASE d = c
        BY <2>1, <2>2, <2>3, <2>4, <2>6, <3>1
      <3>2. CASE d # c
        BY <2>2, <2>3, <2>4, <3>2
      <3> QED
        BY <3>1, <3>2
    <2> QED
      BY <2>2, <2>3, <2>4, <2>5, <2>7
  <1> QED
    BY <1>1, <1>2, <1>3

\* The end of a call: the peer of the first call is accepted, again if need be.
LEMMA RunThreadEndsInv ==
  ASSUME LookupInv, NEW c \in Client, RunThreadEnds(c)
  PROVE  LookupInv'
  <1> USE DEF LookupInv
  <1>1. /\ c \in waiting /\ mIsComplete[c] /\ runs[c] >= 1
        /\ waiting' = waiting \ {c}
        /\ accepted' = accepted \cup {[call |-> <<c, runs[c]>>, to |-> mProposedClient[c]]}
        /\ UNCHANGED <<mIsComplete, mProposedClient, runs, proposals>>
    BY DEF RunThreadEnds, TaskDone, Here
  <1>2. \A m \in sent' : m.type = "RunThreadPeerLookupPropose" =>
          m \in proposals' /\ m = Msg(m.type, m.from, m.to)
    BY DEF RunThreadEnds, Msg
  <1>3. \A a \in accepted' : \E d \in Client : \E i \in 1..runs[d] :
          mIsComplete[d] /\ a = [call |-> <<d, i>>, to |-> mProposedClient[d]]
    BY <1>1
  <1> QED
    BY <1>1, <1>2, <1>3

\* A call accepts one peer at most, which proposed itself to the connection of
\* this call or of an earlier one of the client.
THEOREM AlwaysAcceptsOneProposer == Spec => []AcceptsOneProposer
  <1>1. Init => LookupInv
    BY DEF Init, LookupInv
  <1>2. LookupInv /\ [Next]_vars => LookupInv'
    <2> SUFFICES ASSUME LookupInv, [Next]_vars PROVE LookupInv'
      OBVIOUS
    <2>1. ASSUME NEW c \in Client, RunThread(c) PROVE LookupInv'
      <3>1. /\ c \notin waiting /\ runs' = [runs EXCEPT ![c] = @ + 1] /\ waiting' = waiting \cup {c}
            /\ UNCHANGED <<mIsComplete, mProposedClient, proposals, accepted>>
        BY <2>1 DEF RunThread
      <3>2. \A m \in sent' : m.type = "RunThreadPeerLookupPropose" =>
              m \in proposals' /\ m = Msg(m.type, m.from, m.to)
        BY <2>1 DEF RunThread, Lookups, Msg, LookupInv
      <3> QED
        BY <3>1, <3>2 DEF LookupInv
    <2>2. ASSUME NEW c \in Client, ClientStep(c) PROVE LookupInv'
      BY <2>2, WaitReceivesInv, RunThreadEndsInv DEF ClientStep
    <2>3. ASSUME NEW s \in Server, ServerReturns(s) PROVE LookupInv'
      BY <2>3 DEF ServerReturns, LookupInv
    <2>4. ASSUME NEW s \in Server, NEW m \in sent, ServerReceives(s, m) PROVE LookupInv'
      BY <2>4 DEF ServerReceives, Propose, Msg, LookupInv
    <2>5. ASSUME NEW m \in sent, Lose(m) PROVE LookupInv'
      BY <2>5 DEF Lose, LookupInv
    <2>6. CASE UNCHANGED vars
      BY <2>6 DEF vars, LookupInv
    <2> QED
      BY <2>1, <2>2, <2>3, <2>4, <2>5, <2>6 DEF Next
  <1>3. LookupInv => AcceptsOneProposer
    <2> SUFFICES ASSUME LookupInv PROVE AcceptsOneProposer
      OBVIOUS
    <2>1. ASSUME NEW a \in accepted
          PROVE  \E c \in Client : \E i \in 1 .. runs[c] :
                   /\ a = [call |-> <<c, i>>, to |-> mProposedClient[c]]
                   /\ Msg("RunThreadPeerLookupPropose", mProposedClient[c], <<c, 1>>) \in proposals
      BY DEF LookupInv
    <2>2. ASSUME NEW a \in accepted
          PROVE  \E r \in 1 .. a.call[2] : Msg("RunThreadPeerLookupPropose", a.to, <<a.call[1], r>>) \in proposals
      <3>0. PICK c \in Client : \E i \in 1 .. runs[c] :
              /\ a = [call |-> <<c, i>>, to |-> mProposedClient[c]]
              /\ Msg("RunThreadPeerLookupPropose", mProposedClient[c], <<c, 1>>) \in proposals
        BY <2>1
      <3>1. PICK i \in 1 .. runs[c] :
              /\ a = [call |-> <<c, i>>, to |-> mProposedClient[c]]
              /\ Msg("RunThreadPeerLookupPropose", mProposedClient[c], <<c, 1>>) \in proposals
        BY <3>0
      <3>2. a.call[1] = c /\ a.call[2] = i /\ a.to = mProposedClient[c] /\ 1 \in 1 .. i
        BY <3>1 DEF LookupInv
      <3>3. PICK r \in 1 .. i : r = 1
        BY <3>2
      <3> QED
        BY <3>1, <3>2, <3>3, Zenon
    <2>3. ASSUME NEW a \in accepted, NEW b \in accepted, a.call = b.call PROVE a = b
      <3>1. PICK c \in Client : \E i \in 1 .. runs[c] : a = [call |-> <<c, i>>, to |-> mProposedClient[c]]
        <4>1. PICK c \in Client : \E i \in 1 .. runs[c] :
                /\ a = [call |-> <<c, i>>, to |-> mProposedClient[c]]
                /\ Msg("RunThreadPeerLookupPropose", mProposedClient[c], <<c, 1>>) \in proposals
          BY <2>1
        <4> QED
          BY <4>1, Zenon
      <3>2. PICK d \in Client : \E i \in 1 .. runs[d] : b = [call |-> <<d, i>>, to |-> mProposedClient[d]]
        <4>1. PICK d \in Client : \E i \in 1 .. runs[d] :
                /\ b = [call |-> <<d, i>>, to |-> mProposedClient[d]]
                /\ Msg("RunThreadPeerLookupPropose", mProposedClient[d], <<d, 1>>) \in proposals
          BY <2>1
        <4> QED
          BY <4>1, Zenon
      <3>3. PICK i : a = [call |-> <<c, i>>, to |-> mProposedClient[c]]
        BY <3>1
      <3>4. PICK j : b = [call |-> <<d, j>>, to |-> mProposedClient[d]]
        BY <3>2
      <3>5. c = d /\ i = j
        BY <2>3, <3>3, <3>4
      <3> QED
        BY <3>3, <3>4, <3>5
    <2> QED
      BY <2>2, <2>3 DEF AcceptsOneProposer
  <1> QED
    BY <1>1, <1>2, <1>3, PTL DEF Spec

-----------------------------------------------------------------------------
(* HostedThreads.                                                          *)

\* What AnsweredWasDone needs: the handler works on a request of the protocol,
\* and without a thread only if the request names none.
HostInv ==
  /\ requests \subseteq H!Request
  /\ calls \in [H!Request -> Nat] /\ answers \in [H!Request -> Nat]
  /\ hpc # "idle" => request \in H!Request
  /\ hpc = "reject" => request.id \notin LocalThread
  /\ H!AnsweredWasDone

\* The steps of the handler keep answers behind calls.
LEMMA HandlerStepInv ==
  ASSUME HostInv, H!HandlerStep
  PROVE  HostInv'
  <1>1. UNCHANGED <<requests, request>> /\ hpc # "idle" /\ request \in H!Request
    BY DEF H!HandlerStep, H!FindThread, H!RejectThread, H!CallThread, H!CallNoThread, H!Answer, HostInv
  <1>2. CASE H!FindThread
    <2>1. UNCHANGED <<calls, answers>> /\ hpc = "find"
          /\ hpc' = (IF H!GlobalToLocalThread(request.id) = NULL THEN "reject" ELSE "call")
      BY <1>2 DEF H!FindThread, H!AfterFind
    <2>2. hpc' = "reject" => request.id \notin LocalThread
      BY <2>1, HostAssumption DEF H!GlobalToLocalThread
    <2> QED
      BY <1>1, <2>1, <2>2 DEF HostInv, H!AnsweredWasDone
  <1>3. CASE H!RejectThread
    <2>1. hpc = "reject" /\ hpc' = "call" /\ UNCHANGED calls /\ answers' = [answers EXCEPT ![request] = @ + 1]
      BY <1>3 DEF H!RejectThread, H!Sends
    <2>2. request.id \notin LocalThread
      BY <2>1 DEF HostInv
    <2> QED
      BY <1>1, <2>1, <2>2 DEF HostInv, H!AnsweredWasDone
  <1>4. CASE H!CallThread
    <2>1. hpc = "call" /\ hpc' = "answer" /\ UNCHANGED answers /\ calls' = [calls EXCEPT ![request] = @ + 1]
      BY <1>4 DEF H!CallThread
    <2> QED
      BY <1>1, <2>1 DEF HostInv, H!AnsweredWasDone
  <1>5. CASE H!CallNoThread
    <2>1. hpc = "call" /\ hpc' = "crashed" /\ UNCHANGED <<calls, answers>>
      BY <1>5 DEF H!CallNoThread
    <2> QED
      BY <1>1, <2>1 DEF HostInv, H!AnsweredWasDone
  <1>6. CASE H!Answer
    <2>1. hpc = "answer" /\ hpc' = "idle" /\ UNCHANGED calls /\ answers' = [answers EXCEPT ![request] = @ + 1]
      BY <1>6 DEF H!Answer, H!Sends
    <2> QED
      BY <1>1, <2>1 DEF HostInv, H!AnsweredWasDone
  <1> QED
    BY <1>2, <1>3, <1>4, <1>5, <1>6 DEF H!HandlerStep

\* Whoever gets an answer for a thread had its request done, once for each answer.
THEOREM AnsweredAlwaysDone == H!Spec => []AnsweredWasDone
  <1>1. H!Init => HostInv
    BY DEF H!Init, HostInv, H!AnsweredWasDone
  <1>2. HostInv /\ [H!Next]_H!vars => HostInv'
    <2> SUFFICES ASSUME HostInv, [H!Next]_H!vars PROVE HostInv'
      OBVIOUS
    <2>1. ASSUME UNCHANGED <<hpc, request, calls, answers>>, requests' \subseteq H!Request
          PROVE  HostInv'
      BY <2>1 DEF HostInv, H!AnsweredWasDone
    <2>2. ASSUME NEW op \in H!Op, NEW id \in H!ThreadID, H!Send(op, id) PROVE HostInv'
      BY <2>1, <2>2 DEF H!Send, H!Request, HostInv
    <2>3. ASSUME NEW r \in requests, H!Lose(r) PROVE HostInv'
      BY <2>1, <2>3 DEF H!Lose, HostInv
    <2>4. ASSUME NEW r \in requests, H!Receive(r) PROVE HostInv'
      <3>1. UNCHANGED <<requests, calls, answers>> /\ hpc = "idle" /\ hpc' = "find" /\ request' = r
        BY <2>4 DEF H!Receive
      <3> QED
        BY <3>1 DEF HostInv, H!AnsweredWasDone
    <2>5. CASE H!OnStopThreadReceived \/ H!OnContinueThread \/ H!OnKillThreadReceived
      BY <2>4, <2>5 DEF H!OnStopThreadReceived, H!OnContinueThread, H!OnKillThreadReceived
    <2>6. ASSUME NEW type \in H!TaskType, H!DoTask(type) PROVE HostInv'
      BY <2>1, <2>6 DEF H!DoTask, H!server, HostInv
    <2>7. CASE H!Wait
      BY <2>1, <2>7 DEF H!Wait, H!server, HostInv
    <2>8. CASE UNCHANGED H!vars
      BY <2>1, <2>8 DEF H!vars, H!server, HostInv
    <2> QED
      BY <2>2, <2>3, <2>5, <2>6, <2>7, <2>8, HandlerStepInv DEF H!Next
  <1>3. HostInv => AnsweredWasDone
    BY DEF HostInv, AnsweredWasDone
  <1> QED
    BY <1>1, <1>2, <1>3, PTL DEF H!Spec
=============================================================================
