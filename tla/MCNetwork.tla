----------------------------- MODULE MCNetwork ------------------------------
(***************************************************************************)
(* The network classes on small instances, each by itself: the first state *)
(* chooses whether the behavior reads fields from received segments,       *)
(* writes and sends segments, sends and parses messages, creates and moves *)
(* sockets, or receives or sends through one.                              *)
(***************************************************************************)
EXTENDS InputStream

CONSTANTS
  ByteValues, WordValues, AutoSendSizes, Fields, MaxVector, MaxSent,
  ThreadID, IDSize, MaxIDs,
  OsSocket, Holder, Invalid, NotMade,
  Host, NoAddress, MaxPacket, MaxArrived, MaxReceives, DataSize, MaxSends

VARIABLES
  which,  \* the class under check
  kind, mVector, mIndexBegin, mIndexEnd, mAutoSendDataSize, mNextMessage, sent, received,
  header, written, crossed, flushed, overran,
  reader, validTypes, framing, mReader, type, messages, outcomes, desynced,
  platform, mSocket, os, purpose, leaked,
  how, pending, packets, ended, bufferSize, results,
  layer, loop, target, bytesSent, wire, errors, failed, sends

O == INSTANCE OutputStream
M == INSTANCE Messages WITH MaxSent <- 2, sent <- messages
S == INSTANCE Sockets
T == INSTANCE Transfer WITH WordValues <- 2 * DataSize, arrived <- packets

\* The invalid socket and no socket are no sockets of the operating system.
ASSUME SocketAssumption == Invalid \notin OsSocket /\ NotMade \notin OsSocket /\ Invalid # NotMade
\* There is someone to talk to, NULL is no address, and a length that is sent
\* fits a ZqSizeType.
ASSUME TransferAssumption ==
  /\ Host # {}
  /\ \A host \in Host : NoAddress # T!CreateIn6(host) /\ NoAddress # T!CreateIn4(host)
  /\ {DataSize, MaxPacket, MaxArrived, MaxReceives, MaxSends} \subseteq Nat /\ DataSize > 0
\* A vector with room for a header, and a field behind it, take less than all the
\* memory a SizeType can count.
ASSUME OutputAssumption ==
  /\ ByteValues \in Nat \ {0} /\ WordValues \in Nat /\ AutoSendSizes \subseteq Nat
  /\ MaxVector \in Nat /\ 4 <= MaxVector /\ MaxVector + 4 < WordValues
  /\ \A f \in Fields : f.size \in Nat /\ MaxVector + f.size < WordValues
\* The flags of a header fit into its field of two bytes, whose weights are the
\* first powers of ByteValues.
ASSUME HeaderAssumption ==
  O!IsLastFragment < O!MaxNumber /\ ByteValues ^ 0 = 1 /\ ByteValues ^ 1 = ByteValues
\* A thread id takes IDSize bytes, the size of an array of them two, and the
\* weights of the bytes are the powers of 256.
ASSUME MessageAssumption ==
  /\ IDSize \in Nat \ {0} /\ MaxIDs \in Nat /\ MaxIDs < 256 * 256
  /\ ThreadID \subseteq 0 .. 256 ^ IDSize - 1
  /\ 256 ^ 0 = 1
  /\ \A i \in {0, 1} \cup 0 .. IDSize - 1 : 256 ^ i \in Nat \ {0} /\ 256 ^ (i + 1) = 256 * 256 ^ i

MCFields == {[size |-> 1, value |-> 3], [size |-> 2, value |-> 6], [size |-> 4, value |-> 27]}

inputVars == vars
outputVars == <<kind, mVector, mIndexBegin, mIndexEnd, mAutoSendDataSize, mNextMessage, sent, received,
                header, written, crossed, flushed, overran>>
messageVars == <<reader, validTypes, framing, mReader, type, messages, outcomes, desynced>>
socketVars == <<platform, mSocket, os, purpose, leaked>>
receiving == <<how, pending, packets, ended, bufferSize, results>>
sending == <<layer, loop, target, bytesSent, wire, errors, failed, sends>>

\* The initial states of some are many: a class not under check starts from one.
MCInit ==
  /\ which \in {"input", "output", "messages", "sockets", "receive", "send"}
  /\ Init /\ O!Init /\ M!Init /\ S!Init /\ T!Init
  /\ which # "output" => kind = "tcp" /\ mAutoSendDataSize = 100
  /\ which # "messages" => reader = "big" /\ validTypes = {} /\ framing = "tcp"
  /\ which # "sockets" => platform = "linux"
  /\ which # "receive" => how = "receive"
  /\ which # "send" => layer = "linux" /\ loop /\ target = NoAddress

MCNext ==
  \/ which = "input" /\ Next /\ UNCHANGED <<outputVars, messageVars, socketVars, receiving, sending>>
  \/ which = "output" /\ O!Next /\ UNCHANGED <<inputVars, messageVars, socketVars, receiving, sending>>
  \/ which = "messages" /\ M!Next /\ UNCHANGED <<inputVars, outputVars, socketVars, receiving, sending>>
  \/ which = "sockets" /\ S!Next /\ UNCHANGED <<inputVars, outputVars, messageVars, receiving, sending>>
  \/ which = "receive" /\ T!Next /\ UNCHANGED <<inputVars, outputVars, messageVars, socketVars, sending>>
  \/ which = "send" /\ T!Next /\ UNCHANGED <<inputVars, outputVars, messageVars, socketVars, receiving>>

MCSpec ==
  MCInit /\ [][MCNext /\ UNCHANGED which]_<<which, vars, outputVars, messageVars, socketVars, receiving, sending>>

\* The type invariants of the four modules instantiated here.
NetworkTypeOK == O!TypeOK /\ M!TypeOK /\ S!TypeOK /\ T!TypeOK
\* A field is written inside of ExtendedVector's buffer.
WritesInBounds == O!WritesInBounds
\* A segment sent holds the fields written since the one before it.
SegmentHoldsWrites == O!SegmentHoldsWrites
\* A datagram's header decodes to the message it was written from.
HeaderDecodes == O!HeaderDecodes
\* UdpOutputVector repeats a message number only after a sync.
NumbersRepeatAfterSync == O!NumbersRepeatAfterSync
\* receiveMessage and ReadFrom return the messages sendMessage wrote.
MessagesReadBack == M!MessagesReadBack
\* Every open socket of the operating system has one Socket object.
SocketsOwned == S!SocketsOwned
\* receive returns datagrams whole and streams in order.
PacketsWhole == T!PacketsWhole
\* sendAll hands every byte to the kernel once, or reports why not.
SendsAll == T!SendsAll
=============================================================================
