--------------------------- MODULE HostedThreads ----------------------------
(***************************************************************************)
(* Threads that run on another machine: ProcessPeersServer's handlers that *)
(* stop, continue and kill a local thread for a peer and answer it, and    *)
(* ThreadClient, through which a hosted thread has its system calls made   *)
(* by its owner.  Requests are lost, repeated and reordered.               *)
(* LocalThread's stop, cont and kill are declared only: the model counts   *)
(* their calls and gives them no effect.  onMessageReceived                *)
(* (ProcessPeersServer.cpp 35-57) selects the type and calls nothing; the  *)
(* handlers are taken as called for their message, one at a time.          *)
(***************************************************************************)
EXTENDS Naturals

CONSTANTS
  LocalThread,  \* the keys of mProcessLocalThreads, which nothing in the code fills
  Unknown,      \* a thread id that is not in it
  NULL,
  MaxRequests   \* bound: requests of the peer, receipts, rounds of the client's loop

VARIABLES
  requests,   \* sent to the server and not lost
  count,      \* requests made
  hpc, request, thread, \* the handler: its step, its message, its local variable
  calls,      \* of each request: the calls of the thread's method for it
  answers,    \* and the "OK" messages sent for it
  receipts,
  mCurrentTaskType,  \* ThreadClient: the task it waits for
  isComplete,        \* of its two tasks
  received           \* messages its loop received

server == <<requests, count, hpc, request, thread, calls, answers, receipts>>
client == <<mCurrentTaskType, isComplete, received>>
vars == <<server, client>>

Op == {"StopThread", "ContinueThread", "KillThread"}
ThreadID == LocalThread \cup {Unknown}
TaskType == {"DoSystemCall", "GetAndReserveMemory"}
Request == [op : Op, id : ThreadID]

TypeOK ==
  /\ requests \subseteq Request /\ count \in 0..MaxRequests
  /\ hpc \in {"idle", "find", "reject", "call", "answer", "crashed"}
  /\ request \in Request \cup {NULL} /\ thread \in LocalThread \cup {NULL}
  /\ calls \in [Request -> Nat] /\ answers \in [Request -> Nat]
  /\ receipts \in 0..MaxRequests
  /\ mCurrentTaskType \in TaskType \cup {"None"}
  /\ isComplete \in [TaskType -> BOOLEAN]
  /\ received \in 0..MaxRequests

Init ==
  /\ requests = {} /\ count = 0
  /\ hpc = "idle" /\ request = NULL /\ thread = NULL
  /\ calls = [r \in Request |-> 0] /\ answers = [r \in Request |-> 0]
  /\ receipts = 0
  /\ mCurrentTaskType = "None"
  /\ isComplete = [k \in TaskType |-> FALSE]
  /\ received = 0

-----------------------------------------------------------------------------
\* The peer's message with a thread id: StopThreadMessage, ContiniueThreadMessage,
\* KillThreadMessage.
Send(op, id) ==
  /\ count < MaxRequests
  /\ requests' = requests \cup {[op |-> op, id |-> id]} /\ count' = count + 1
  /\ UNCHANGED <<hpc, request, thread, calls, answers, receipts, client>>

Lose(r) ==
  /\ r \in requests
  /\ requests' = requests \ {r}
  /\ UNCHANGED <<count, hpc, request, thread, calls, answers, receipts, client>>

-----------------------------------------------------------------------------
\* onStopThreadReceived, onContinueThread and onKillThreadReceived have one shape;
\* their steps follow.  A request is handled as often as the network repeats it.
Receive(r) ==
  /\ hpc = "idle" /\ r \in requests /\ receipts < MaxRequests
  /\ hpc' = "find" /\ request' = r /\ receipts' = receipts + 1
  /\ UNCHANGED <<requests, count, thread, calls, answers, client>>

OnStopThreadReceived == \E r \in requests : r.op = "StopThread" /\ Receive(r)
OnContinueThread == \E r \in requests : r.op = "ContinueThread" /\ Receive(r)
OnKillThreadReceived == \E r \in requests : r.op = "KillThread" /\ Receive(r)

\* auto thread = globalToLocalThread (threadID)
GlobalToLocalThread(id) == IF id \in LocalThread THEN id ELSE NULL

AnswerFirst(t) == IF t = NULL THEN "reject" ELSE "answer"
AfterFind(t) == IF t = NULL THEN "reject" ELSE "call"

FindThread ==
  /\ hpc = "find"
  /\ thread' = GlobalToLocalThread(request.id)
  /\ hpc' = AfterFind(GlobalToLocalThread(request.id))
  /\ UNCHANGED <<requests, count, request, calls, answers, receipts, client>>

Sends == answers' = [answers EXCEPT ![request] = @ + 1]

\* Without a thread the handler answers "OK", and does not return.
RejectThread ==
  /\ hpc = "reject" /\ hpc' = "call"
  /\ Sends
  /\ UNCHANGED <<requests, count, request, thread, calls, receipts, client>>

\* thread->stop (), cont () or kill ().
CallThread ==
  /\ hpc = "call" /\ thread # NULL /\ hpc' = "answer"
  /\ calls' = [calls EXCEPT ![request] = @ + 1]
  /\ UNCHANGED <<requests, count, request, thread, answers, receipts, client>>

\* A method of nullptr.
CallNoThread ==
  /\ hpc = "call" /\ thread = NULL /\ hpc' = "crashed"
  /\ UNCHANGED <<requests, count, request, thread, calls, answers, receipts, client>>

\* stream.sendMessage of the "OK".
Answer ==
  /\ hpc = "answer" /\ hpc' = "idle"
  /\ Sends
  /\ UNCHANGED <<requests, count, request, thread, calls, receipts, client>>

HandlerStep == FindThread \/ RejectThread \/ CallThread \/ CallNoThread \/ Answer

-----------------------------------------------------------------------------
\* doSystemCall and getAndReserveMemory: send the request to the owner and wait.
DoTask(type) ==
  /\ mCurrentTaskType = "None"
  /\ mCurrentTaskType' = type
  /\ UNCHANGED <<server, isComplete, received>>

\* ThreadClient's onMessageReceived looks at the task and completes none.
OnMessageReceived(complete) == complete

\* waitUntilTaskComplete: a round of its loop.  receiveMessage's result is not
\* looked at; it is taken to call onMessageReceived for what it receives.
Wait ==
  /\ mCurrentTaskType # "None" /\ ~isComplete[mCurrentTaskType]
  /\ received < MaxRequests
  /\ received' = received + 1
  /\ isComplete' = OnMessageReceived(isComplete)
  /\ UNCHANGED <<server, mCurrentTaskType>>

Next ==
  \/ \E op \in Op, id \in ThreadID : Send(op, id)
  \/ \E r \in requests : Lose(r)
  \/ OnStopThreadReceived \/ OnContinueThread \/ OnKillThreadReceived
  \/ HandlerStep
  \/ \E type \in TaskType : DoTask(type)
  \/ Wait

Spec == Init /\ [][Next]_vars

-----------------------------------------------------------------------------
\* Over all losses, repetitions and orders of the requests, a peer has no more
\* answers for a thread of the server than times its request was done: "OK" is
\* sent after the thread's method returned, once for each receipt
\* (ProcessPeersServer.cpp 59-93).
AnsweredWasDone ==
  \A r \in Request : r.id \in LocalThread =>
    answers[r] = calls[r] - (IF hpc = "answer" /\ request = r THEN 1 ELSE 0)
=============================================================================
