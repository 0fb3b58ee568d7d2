------------------------------ MODULE Transfer ------------------------------
(***************************************************************************)
(* Bytes through a Socket.  Receiving: receive, receiveWithAddress and     *)
(* TcpStream's receiveRawPacket over the Linux ZqSocketReceive, which asks *)
(* how many bytes there are before it takes them, while more arrive: the   *)
(* size of the first datagram, or all that a stream socket has queued.     *)
(* Sending: the loops of sendAll and sendAllToAddress, and the single call *)
(* of send and sendToAddress, which is what the streams use.  A packet is  *)
(* its arrival number, its size and its sender; a stream socket keeps no   *)
(* boundaries, and each packet it holds is a byte.                         *)
(***************************************************************************)
EXTENDS Integers, Sequences, SequencesExt

CONSTANTS
  Host,         \* the other ends: an address and a port each
  NoAddress,    \* no address: ziqe_sendmsg and ziqe_recvmsg are given NULL
  MaxPacket,    \* bound: the size of a packet
  MaxArrived,   \* bound: the packets that arrive
  MaxReceives,  \* bound: the calls that receive
  DataSize,     \* the bytes of the array that is sent
  MaxSends,     \* bound: the iterations of sendAll's loop
  WordValues    \* 2^64: how many values a ZqSizeType has

VARIABLES
  how,         \* the function that receives: "receive", "withAddress" or "tcp"
  pending,     \* the packets the kernel holds
  arrived,     \* history: the packets that have arrived
  ended,       \* the other end of a stream socket has closed it
  bufferSize,  \* what get_next_packet_size returned; -1 outside of ZqSocketReceive
  results,     \* what it returned, in order, with what it took from the kernel
  layer,       \* sending: the C layer, "linux" or "posix"
  loop,        \* sendAll's loop, or a single call
  target,      \* the address that is sent to, NoAddress if the socket's own peer
  bytesSent, wire, \* its variable, the bytes that left
  errors,      \* assertions that logged an error
  failed, sends  \* history: the calls that failed, all calls

receiving == <<how, pending, arrived, ended, bufferSize, results>>
sending == <<layer, loop, target, bytesSent, wire, errors, failed, sends>>
vars == <<receiving, sending>>

-----------------------------------------------------------------------------
(* Addresses.                                                              *)

CreateIn6(host) == [family |-> "in6", host |-> host, socklen |-> 28]
CreateIn4(host) == [family |-> "in", host |-> host, socklen |-> 16]

SocketAddress == {CreateIn6(h) : h \in Host} \cup {CreateIn4(h) : h \in Host}

\* The senders that are told apart: one, unless the receiver asks for it.
Sender == IF how = "withAddress" THEN SocketAddress ELSE {CHOOSE a \in SocketAddress : TRUE}

\* The kernel takes an address of its family's length.
IsName(address) == address.socklen = (IF address.family = "in6" THEN 28 ELSE 16)

TypeOK ==
  /\ how \in {"receive", "withAddress", "tcp"}
  /\ pending \in Seq([number : 1 .. MaxArrived, size : 0 .. MaxPacket, from : SocketAddress])
  /\ arrived \in 0 .. MaxArrived /\ ended \in BOOLEAN
  /\ bufferSize \in -1 .. MaxPacket + MaxArrived
  /\ layer \in {"linux", "posix"} /\ loop \in BOOLEAN /\ target \in SocketAddress \cup {NoAddress}
  /\ bytesSent \in 0 .. WordValues - 1
  /\ sends \in 0 .. MaxSends /\ failed \in 0 .. sends /\ errors \in 0 .. sends

Init ==
  /\ how \in {"receive", "withAddress", "tcp"}
  /\ pending = <<>> /\ arrived = 0 /\ ended = FALSE /\ bufferSize = -1 /\ results = <<>>
  /\ layer \in {"linux", "posix"} /\ loop \in BOOLEAN /\ target \in SocketAddress \cup {NoAddress}
  /\ bytesSent = 0 /\ wire = <<>> /\ errors = 0 /\ failed = 0 /\ sends = 0

-----------------------------------------------------------------------------
\* TcpStream's socket is a stream, the others' are datagram sockets.
Stream == how = "tcp"

\* The network's: a datagram of n bytes arrives, or n bytes of a stream do.
Incoming(n, from) ==
  IF Stream THEN [i \in 1 .. n |-> [number |-> arrived + i, size |-> 1, from |-> from]]
  ELSE <<[number |-> arrived + 1, size |-> n, from |-> from]>>

Arrive(n, from) ==
  /\ ~ended /\ arrived + Len(Incoming(n, from)) <= MaxArrived
  /\ arrived' = arrived + Len(Incoming(n, from))
  /\ pending' = pending \o Incoming(n, from)
  /\ UNCHANGED <<how, ended, bufferSize, results, sending>>

PeerCloses == Stream /\ ~ended /\ ended' = TRUE /\ UNCHANGED <<how, pending, arrived, bufferSize, results, sending>>

\* get_next_packet_size: the bytes a stream has queued, the first datagram's size.
LastPacketSize == IF pending = <<>> THEN 0 ELSE Last(pending).size
NextPacketSize ==
  IF Stream THEN Len(pending) ELSE IF pending = <<>> THEN 0 ELSE Head(pending).size

\* A receive begins: the buffer is allocated, none for no bytes.
AskSize ==
  /\ bufferSize = -1 /\ Len(results) < MaxReceives /\ bufferSize' = NextPacketSize
  /\ UNCHANGED <<how, pending, arrived, ended, results, sending>>

\* ziqe_recvmsg takes the first datagram, or what the buffer has room for.
Smaller(m, n) == IF m < n THEN m ELSE n
Recvmsg ==
  IF Stream THEN SubSeq(pending, 1, Smaller(bufferSize, Len(pending))) ELSE <<pending[1]>>

\* A datagram is cut to the buffer.
BytesReceived(packets) == IF Stream THEN Len(packets) ELSE Smaller(bufferSize, packets[1].size)

\* With an address, the kernel writes the sender's and its length there.
AddressOf(packets) == IF how = "withAddress" THEN packets[1].from ELSE NoAddress

\* TcpStream's socketReceiveErrorToError.
SocketReceiveErrorToError(e) == IF e = "Timeout" THEN "Timeout" ELSE "Other"
ReceiveRawPacket(e) == IF how = "tcp" THEN SocketReceiveErrorToError(e) ELSE e

\* What a call returned: data, with an address, or an error.  With it: how many
\* packets were taken before, those that it took and the size that it asked for.
ReceiveResult(packets, data, from, error) ==
  [after |-> arrived - Len(pending), packets |-> packets, asked |-> bufferSize,
   data |-> data, from |-> from, error |-> error]

\* receive and receiveWithAddress take no bytes for a disconnection.
Received(packets) ==
  IF BytesReceived(packets) = 0
  THEN ReceiveResult(packets, 0, NoAddress, ReceiveRawPacket("Disconnected"))
  ELSE ReceiveResult(packets, BytesReceived(packets), AddressOf(packets), "none")

\* recvmsg waits for a datagram, a byte or the stream's end.
ReceivePacket ==
  /\ bufferSize # -1 /\ (pending # <<>> \/ ended)
  /\ results' = Append(results, Received(Recvmsg))
  /\ pending' = SubSeq(pending, Len(Recvmsg) + 1, Len(pending)) /\ bufferSize' = -1
  /\ UNCHANGED <<how, arrived, ended, sending>>

\* recvmsg fails, with ZQ_E_AGAIN or otherwise: the bytes stay, and the buffer
\* that was allocated is forgotten.
ReceiveError(e) ==
  /\ bufferSize # -1 /\ bufferSize' = -1
  /\ results' = Append(results, ReceiveResult(<<>>, 0, NoAddress, ReceiveRawPacket(e)))
  /\ UNCHANGED <<how, pending, arrived, ended, sending>>

-----------------------------------------------------------------------------
\* RawArray: its bytes from an index on.
RestFrom(first, k) == [i \in 1 .. k |-> first + i]

\* ziqe_sendmsg: the bytes the kernel takes, and where they go.
Sendmsg(first, k) ==
  [i \in DOMAIN RestFrom(first, k) |-> [byte |-> RestFrom(first, k)[i], to |-> target]]

\* What *bytesSent holds after the call: a negative result leaves it alone.
ZqSocketSend(ret, before) == IF ret < 0 THEN before ELSE ret
ZqSocketSendTo(ret, before) ==
  IF ~IsName(target) \/ ret < 0 THEN before ELSE ret

LastBytesSent(ret, before) ==
  IF target = NoAddress THEN ZqSocketSend(ret, before) ELSE ZqSocketSendTo(ret, before)

\* What the call returns: an error or ZQ_E_OK, which is zero; on Posix ZQ_FALSE,
\* which is zero, or ZQ_TRUE.
LinuxResult(ret) == IF ret < 0 THEN ret ELSE 0
PosixResult(ret) == IF ret < 0 THEN 0 ELSE 1
Result(ret) == IF layer = "linux" THEN LinuxResult(ret) ELSE PosixResult(ret)

\* sendAll asserts the result, the other three that it is ZQ_E_OK.
Asserted(result) == IF loop /\ target = NoAddress THEN result # 0 ELSE result = 0

\* The assertion logs an error and goes on.
Called(ret) ==
  /\ sends' = sends + 1
  /\ failed' = failed + (IF ret < 0 THEN 1 ELSE 0)
  /\ errors' = errors + (IF Asserted(Result(ret)) THEN 0 ELSE 1)
  /\ UNCHANGED <<layer, loop, target, receiving>>

AdvanceByOne(k) == (bytesSent + 1) % WordValues
Advance(k) == (bytesSent + k) % WordValues

\* An iteration of sendAll and sendAllToAddress: the kernel takes some of the
\* bytes that are left, or fails; lastBytesSent, which is not initialised, is
\* added all the same.
SendPart(ret, garbage) ==
  /\ loop /\ bytesSent < DataSize /\ ret <= DataSize - bytesSent /\ sends < MaxSends
  /\ wire' = wire \o Sendmsg(bytesSent, ret)
  /\ bytesSent' = Advance(LastBytesSent(ret, garbage))
  /\ Called(ret)

\* send and sendToAddress: one call, whose count, zero at first, is returned.
Send(ret) ==
  /\ ~loop /\ sends = 0
  /\ wire' = Sendmsg(0, ret)
  /\ bytesSent' = LastBytesSent(ret, 0)
  /\ Called(ret)

Next ==
  \/ \E n \in 0 .. MaxPacket, from \in Sender : Arrive(n, from)
  \/ PeerCloses \/ AskSize \/ ReceivePacket
  \/ \E e \in {"Timeout", "Other"} : ReceiveError(e)
  \/ \E ret \in 0 .. DataSize : SendPart(ret, 0)
  \/ \E garbage \in 0 .. WordValues - 1 : SendPart(-1, garbage)
  \/ \E ret \in -1 .. DataSize : Send(ret)

Spec == Init /\ [][Next]_vars

-----------------------------------------------------------------------------
\* Whether a result holds all of the packets it took.
HoldsAll(r) ==
  /\ r.data = (IF Stream THEN Len(r.packets) ELSE r.packets[1].size)
  /\ how = "withAddress" => r.from = r.packets[1].from

\* What the kernel hands out are the packets that arrived, once each and in order,
\* through errors and whatever arrives between the question for the size and the
\* receipt; data that is returned is a whole datagram with its own sender, or all
\* the bytes taken from a stream; and a call that found bytes when it asked for the
\* size returns some (Linux/Socket.c 37-44, 107-173; Base/Socket.cpp 108-125, 143-163).
PacketsWhole ==
  \A i \in DOMAIN results :
    LET r == results[i] IN
    /\ r.after = IF i = 1 THEN 0 ELSE results[i - 1].after + Len(results[i - 1].packets)
    /\ \A k \in DOMAIN r.packets : r.packets[k].number = r.after + k
    /\ r.asked > 0 /\ r.packets # <<>> => r.data > 0
    /\ r.data > 0 => HoldsAll(r)

\* sendAll sends every byte of the array once and in order to the address it was
\* given, however the kernel splits them, unless a call failed; the count that
\* send returns is of the bytes that left, also when the call failed; and an
\* error is logged for each call that failed and no other, where the assertion
\* fits the layer's codes: not in sendAll on Linux, nor in the others on Posix
\* (Base/Socket.cpp 93-141, 201-223; Linux/Socket.c 131-215; Posix/Socket.c 107-180).
SendsAll ==
  /\ \A i \in DOMAIN wire : wire[i].to = target
  /\ ~loop \/ failed = 0 =>
        [i \in DOMAIN wire |-> wire[i].byte] = RestFrom(0, bytesSent) /\ bytesSent <= DataSize
  /\ (layer = "linux") # (loop /\ target = NoAddress) => errors = failed
=============================================================================
