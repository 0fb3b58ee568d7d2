---------------------------- MODULE OutputStream ----------------------------
(***************************************************************************)
(* The output side of a stream: fields written by Base/FieldWriter into a  *)
(* Base/ExtendedVector, sent in segments by UdpStream or TcpStream, and    *)
(* the datagrams as UdpInputVector takes them from a network that loses,   *)
(* repeats and reorders them.  The bytes a stream then reads are the       *)
(* module InputStream's.                                                   *)
(*                                                                         *)
(* A byte is a number below ByteValues.  UdpOutputVector's constructor     *)
(* gives mAutoSendDataSize no value, so it may be any.  A byte written     *)
(* outside of the vector is lost and the program goes on, as a release     *)
(* build does; overran records it.                                         *)
(***************************************************************************)
EXTENDS Integers, Sequences, SequencesExt, FiniteSetsExt

CONSTANTS
  ByteValues,     \* 256: how many values a byte has
  WordValues,     \* 2^64: how many values a SizeType has
  AutoSendSizes,  \* the values mAutoSendDataSize may have
  Fields,         \* the fields users write: [size, value] records
  MaxVector,      \* bound: the bytes of the vector
  MaxSent         \* bound: the segments sent, and the datagrams received

VARIABLES
  kind,                          \* "udp" or "tcp"
  mVector, mIndexBegin, mIndexEnd, mAutoSendDataSize,
  mNextMessage,                  \* the UdpMessage: flags and messageNumber
  sent,      \* the segments sent: data, and the message their header was written from
  received,  \* what receiveData returned, in order: data or "ParseError"
  header,    \* history: the message last written to the current segment
  written,   \* history: the bytes written to the current segment, until one overran
  crossed,   \* history: mIndexBegin was beyond mIndexEnd when a field was written
  flushed,   \* history: expand has sent the segment instead of expanding it
  overran    \* history: a byte of the current segment went outside of the vector

output == <<mVector, mIndexBegin, mIndexEnd, mAutoSendDataSize, mNextMessage, sent>>
history == <<header, written, crossed, flushed, overran>>
vars == <<kind, output, received, history>>

-----------------------------------------------------------------------------
(* ExtendedVector.  A view is the vector with its two indexes.             *)

View == [vector |-> mVector, begin |-> mIndexBegin, end |-> mIndexEnd]

Size(v) == (v.end - v.begin) % WordValues

\* expand: an end that is not the vector's moves to what the vector had left
\* over, and the vector grows by howMuch if that was too little.  The new bytes
\* stay behind mIndexEnd.
Grown(v, howMuch) == [v EXCEPT !.vector = @ \o [i \in 1 .. howMuch |-> 0]]
MoveEndOrGrow(v, howMuch) ==
  LET available == Len(v.vector) - v.end IN
  IF v.end # Len(v.vector) THEN [v EXCEPT !.end = available - Min({howMuch, available})]
  ELSE Grown(v, howMuch)
Expand(v, howMuch) ==
  LET available == Len(v.vector) - v.end
      virtual == Min({howMuch, available})
      moved == IF v.end # Len(v.vector) THEN [v EXCEPT !.end = available - virtual] ELSE v
      newSize == (Size(v) + howMuch - (IF v.end # Len(v.vector) THEN virtual ELSE 0)) % WordValues
  IN IF newSize > 0 THEN Grown(moved, howMuch) ELSE moved

StoreInPlace(v, bytes) ==
  [v EXCEPT !.vector = [i \in 1 .. Len(@) |-> IF i - v.begin \in 1 .. Len(bytes) THEN bytes[i - v.begin] ELSE @[i]]]

\* operator[] and increaseBegin for the bytes of a field.
Store(v, bytes) ==
  [v EXCEPT !.vector = [i \in 1 .. Len(@) |-> IF i - v.begin \in 1 .. Len(bytes) THEN bytes[i - v.begin] ELSE @[i]],
            !.begin = @ + Len(bytes)]

-----------------------------------------------------------------------------
(* FieldWriter and FieldReader: both byte orders.                          *)

Unmasked(field) == [i \in 1 .. field.size |-> field.value \div ByteValues ^ (field.size - i)]
BigEndianWriter(field) ==
  [i \in 1 .. field.size |-> (field.value \div ByteValues ^ (field.size - i)) % ByteValues]
LittleEndianWriter(field) == Reverse(BigEndianWriter(field))

BigEndianValueReader(bytes) ==
  FoldLeft(LAMBDA value, byte : value * ByteValues + byte, 0, bytes)
LittleEndianValueReader(bytes) == BigEndianValueReader(Reverse(bytes))

\* writeT on an ExtendedVector: it expands when size() is too small.
WriteT(v, bytes) ==
  Store(IF Size(v) < Len(bytes) THEN Expand(v, Len(bytes) - Size(v)) ELSE v, bytes)

Outside(v, n) == v.begin + n > Len(v.vector)

-----------------------------------------------------------------------------
(* UdpMessage.                                                             *)

None == 0
SYN == 1
IsLastFragment == 4
MaxNumber == ByteValues * ByteValues

Bit(flags, bit) == (flags \div bit) % 2 = 1

\* setFlag: an "and" with the bit, or with zero.
SetFlag(flags, bit, on) == IF on /\ Bit(flags, bit) THEN bit ELSE None

HeaderBytes(m) ==
  BigEndianWriter([size |-> 2, value |-> m.flags]) \o BigEndianWriter([size |-> 2, value |-> m.messageNumber])

ReadFrom(data) ==
  IF Len(data) < 4 THEN [error |-> "NotEnoughData"]
  ELSE [flags |-> BigEndianValueReader(SubSeq(data, 1, 2)),
        messageNumber |-> BigEndianValueReader(SubSeq(data, 3, 4))]

Numbered(m, n) == [m EXCEPT !.messageNumber = n % MaxNumber]

-----------------------------------------------------------------------------
(* UdpOutputVector and TcpOutputStreamVector.  A segment is the view, the  *)
(* message, the message of its header and the datagram just sent.          *)

\* createNewSegment.
SameNumberSegment(v, m) ==
  [view |-> WriteT([v EXCEPT !.end = 0, !.begin = 0], HeaderBytes(m)), message |-> m, header |-> m]
CreateNewSegment(v, m) ==
  [view |-> WriteT([v EXCEPT !.end = 0, !.begin = 0], HeaderBytes(m)),
   message |-> Numbered(m, m.messageNumber + 1), header |-> m]

\* The rewrite of the header in a segment that is not full: the message goes
\* back to the number of the segment, and loses its flags.
LastMessage(m) == Numbered([m EXCEPT !.flags = SetFlag(@, IsLastFragment, TRUE)], m.messageNumber - 1)
AppendedHeader(v, m) == WriteT(v, HeaderBytes(m))
RewrittenHeader(v, m) == [WriteT([v EXCEPT !.begin = 0], HeaderBytes(m)) EXCEPT !.begin = v.begin]

\* sendCurrentSegment of UdpOutputVector: the whole vector is sent.
UdpSend(v, m, h) ==
  LET last == LastMessage(m)
      next == [last EXCEPT !.flags = SetFlag(@, IsLastFragment, FALSE)]
  IN IF mAutoSendDataSize > Len(v.vector)
     THEN [segment |-> CreateNewSegment(RewrittenHeader(v, last), next),
           datagram |-> [data |-> RewrittenHeader(v, last).vector, message |-> last]]
     ELSE [segment |-> CreateNewSegment(v, m), datagram |-> [data |-> v.vector, message |-> h]]

\* sendCurrentSegment of TcpOutputStreamVector: the bytes stay in the vector.
TcpSend(v, m, h) ==
  [segment |-> [view |-> [v EXCEPT !.begin = 0, !.end = 0], message |-> m, header |-> h],
   datagram |-> [data |-> v.vector, message |-> h]]

SendCurrentSegment(v, m, h) == IF kind = "udp" THEN UdpSend(v, m, h) ELSE TcpSend(v, m, h)
InHeader(m) == IF kind = "udp" THEN HeaderBytes(m) ELSE <<>>

-----------------------------------------------------------------------------
FirstMessage(syn) == [flags |-> IF syn THEN SYN ELSE None, messageNumber |-> 0]
NoBytes == [vector |-> <<>>, begin |-> 0, end |-> 0]

\* The constructors of both output vectors.
Init ==
  /\ kind \in {"udp", "tcp"} /\ mAutoSendDataSize \in AutoSendSizes
  /\ sent = <<>> /\ received = <<>>
  /\ crossed = FALSE /\ flushed = FALSE /\ overran = FALSE
  /\ \E syn \in BOOLEAN :
       LET segment == IF kind = "udp" THEN CreateNewSegment(NoBytes, FirstMessage(syn))
                      ELSE [view |-> NoBytes, message |-> FirstMessage(FALSE), header |-> FirstMessage(FALSE)]
       IN /\ mVector = segment.view.vector
          /\ mIndexBegin = segment.view.begin /\ mIndexEnd = segment.view.end
          /\ mNextMessage = segment.message /\ header = segment.header
          /\ written = InHeader(segment.header)

TypeOK ==
  /\ kind \in {"udp", "tcp"}
  /\ mVector \in Seq(0 .. ByteValues - 1)
  /\ {mIndexBegin, mIndexEnd, mAutoSendDataSize} \subseteq 0 .. WordValues - 1
  /\ mNextMessage \in [flags : 0 .. MaxNumber - 1, messageNumber : 0 .. MaxNumber - 1]
  /\ {crossed, flushed, overran} \subseteq BOOLEAN

BecomesView(v) == mVector' = v.vector /\ mIndexBegin' = v.begin /\ mIndexEnd' = v.end
Bounded(v) == Len(v.vector) <= MaxVector /\ v.begin <= MaxVector

\* The bytes of a field go into the view v of the current segment.
PutField(v, bytes) ==
  /\ BecomesView(Store(v, bytes)) /\ Bounded(Store(v, bytes))
  /\ overran' = (overran \/ Outside(v, Len(bytes)))
  /\ written' = IF overran' THEN <<>> ELSE written \o bytes
  /\ crossed' = (crossed \/ mIndexBegin > mIndexEnd)
  /\ UNCHANGED <<mNextMessage, sent, header, flushed>>

\* The segment is sent, and the bytes start the one after it.
SendAndPut(bytes) ==
  LET s == SendCurrentSegment(View, mNextMessage, header)
      v == Store(s.segment.view, bytes)
  IN /\ Len(sent) < MaxSent /\ Bounded(v)
     /\ BecomesView(v)
     /\ mNextMessage' = s.segment.message /\ header' = s.segment.header
     /\ sent' = Append(sent, s.datagram)
     /\ overran' = Outside(s.segment.view, Len(bytes))
     /\ written' = IF overran' THEN <<>> ELSE InHeader(header') \o bytes
     /\ crossed' = FALSE /\ flushed' = (bytes # <<>>)

\* writeT of a user's field: it fits; it does not, and OutputStreamVector's
\* expand expands the vector; or that sends the segment and expands nothing.
WriteFits(f) ==
  /\ Size(View) >= f.size
  /\ PutField(View, BigEndianWriter(f))
  /\ UNCHANGED <<kind, mAutoSendDataSize, received>>

WriteExpands(f) ==
  /\ Size(View) < f.size /\ Size(View) < mAutoSendDataSize
  /\ PutField(Expand(View, f.size - Size(View)), BigEndianWriter(f))
  /\ UNCHANGED <<kind, mAutoSendDataSize, received>>

WriteSends(f) ==
  /\ Size(View) < f.size /\ Size(View) >= mAutoSendDataSize
  /\ SendAndPut(BigEndianWriter(f))
  /\ UNCHANGED <<kind, mAutoSendDataSize, received>>

Sync == SendAndPut(<<>>) /\ UNCHANGED <<kind, mAutoSendDataSize, received>>

\* UdpInputVector's receiveData, on a datagram that may be lost, repeated, late
\* or another program's: the data keeps its header, and the number and the
\* flags that were read from it are dropped.
ForeignData == {<<>>, <<1, 0, 1>>}
ReceiveData(data) ==
  /\ kind = "udp" /\ Len(received) < MaxSent
  /\ received' = Append(received, IF "error" \in DOMAIN ReadFrom(data) THEN <<"ParseError">> ELSE data)
  /\ UNCHANGED <<kind, output, history>>

Next ==
  \/ \E f \in Fields : WriteFits(f) \/ WriteExpands(f) \/ WriteSends(f)
  \/ Sync
  \/ \E data \in {sent[i].data : i \in DOMAIN sent} \cup ForeignData : ReceiveData(data)

Spec == Init /\ [][Next]_vars

-----------------------------------------------------------------------------
\* A field is written outside of the vector only in a segment whose indexes had
\* crossed before it, or that expand sent instead of expanding: the arithmetic
\* of expand itself always makes room (ExtendedVector.hpp 144-162, FieldWriter.hpp
\* 143-154, Stream.hpp 103-109).
WritesInBounds == overran => crossed \/ flushed

\* A segment holds the fields written to it, in order and from its first byte, as
\* long as none of them went outside: neither an expansion nor the bytes of the
\* segment before it come in between.
SegmentHoldsWrites ==
  ~overran =>
    /\ mIndexBegin = Len(written)
    /\ IsPrefix(written, mVector)

\* Every datagram sent starts with a header that ReadFrom decodes to the very
\* message it was written from, rewritten or not, and what receiveData accepts is
\* such a datagram (UdpStream.cpp 94-146, UdpMessage.cpp 31-55).
HeaderDecodes ==
  kind = "udp" =>
    /\ \A i \in DOMAIN sent : ReadFrom(sent[i].data) = sent[i].message
    /\ \A i \in DOMAIN received :
         received[i] # <<"ParseError">> => \E j \in DOMAIN sent : ReadFrom(received[i]) = sent[j].message

\* Two full segments never carry the same number, up to the wrap of its 16 bits;
\* after a segment that was not full, its number is used again (UdpStream.cpp 102, 109).
NumbersRepeatAfterSync ==
  kind = "udp" /\ Len(sent) < MaxNumber =>
    \A i, j \in DOMAIN sent :
      i < j /\ sent[i].message.messageNumber = sent[j].message.messageNumber =>
        mAutoSendDataSize > Len(sent[i].data)
=============================================================================
