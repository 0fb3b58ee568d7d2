------------------------------ MODULE Messages ------------------------------
(***************************************************************************)
(* Messages through a MessageStream: the layouts of Protocol/Message.hpp   *)
(* written by FieldWriter, read back by receiveMessage and ReadFrom.  The  *)
(* bytes in between are in order, as the module InputStream shows.         *)
(*                                                                         *)
(* ReadFrom and writeToWriter take any reader and writer.  MessageStream   *)
(* names LittleEndianFieldWriter, an alias of the big-endian writer, and   *)
(* LittleEndianFieldReader, which is little-endian; UdpMessage names the   *)
(* big-endian ones.  The first state chooses the reader; whether           *)
(* IsValidMessageType accepts no type, as it is ("TODO"), or those of the  *)
(* enumeration; and whether the stream is UDP's, which leaves the datagram *)
(* header in the data.                                                     *)
(***************************************************************************)
EXTENDS Integers, Sequences, SequencesExt

CONSTANTS
  ThreadID,  \* the thread ids sent, numbers of IDSize bytes
  IDSize,    \* 8: the bytes of a HostedThreadID or a parameter
  MaxIDs,    \* bound: the ids of one message
  MaxSent    \* bound: the messages sent

VARIABLES
  reader, validTypes, framing,
  mReader,   \* the bytes received and not read
  type,      \* the type receiveMessage returned; 0 when no body is being read
  sent,      \* the messages given to sendMessage
  outcomes,  \* what the receiver got, in order: a message or an error
  desynced   \* history: a message was cut, or rejected before its end

stream == <<reader, validTypes, framing>>
vars == <<stream, mReader, type, sent, outcomes, desynced>>

\* Message::Type, by the kind of body that follows.
WithThreadID == {32800, 32801, 32805, 32806, 32816, 32817}
WithThreadIDs == {32837, 32848}
DoSystemCall == 16384
BodyLess == {32769, 32773, 32784, 32789, 32853, 32854, 32855, 16385, 8192, 8193, 8194}
Type == WithThreadID \cup WithThreadIDs \cup {DoSystemCall} \cup BodyLess

\* One type of each kind is enough for what is sent.  A system call request is
\* neither sent nor read: its writeToWriter calls a writer.write that does not
\* exist, its constructor has no body, and its ReadFrom drops what it reads.
Message ==
  [type : {32800}, threadID : ThreadID]
  \cup [type : {32837}, ids : SeqOf(ThreadID, MaxIDs)]
  \cup [type : {8192}]

TypeOK ==
  /\ reader \in {"little", "big"} /\ validTypes \subseteq Type /\ framing \in {"tcp", "udp"}
  /\ mReader \in Seq(0 .. 255) /\ type \in Type \cup {0}
  /\ sent \in Seq(Message) /\ desynced \in BOOLEAN

Init ==
  /\ reader \in {"little", "big"} /\ validTypes \in {{}, Type} /\ framing \in {"tcp", "udp"}
  /\ mReader = <<>> /\ type = 0 /\ sent = <<>> /\ outcomes = <<>> /\ desynced = FALSE

-----------------------------------------------------------------------------
(* The fields.                                                             *)

LittleBytes(size, value) == [i \in 1 .. size |-> (value \div 256 ^ (i - 1)) % 256]

\* writeT of a number, by both writer aliases.
WriteOneT(size, value) == Reverse(LittleBytes(size, value))

\* writeT of a vector: its elements and no length.
WriteVector(ids) == FlattenSeq([i \in DOMAIN ids |-> WriteOneT(IDSize, ids[i])])

\* readT.  Bytes beyond the end are not the message's.
Number(bytes) == FoldLeft(LAMBDA value, byte : value * 256 + byte, 0, bytes)
ReadT(size, bytes) ==
  LET field == SubSeq(bytes, 1, size) IN Number(IF reader = "big" THEN field ELSE Reverse(field))

CanReadT(size) == Len(mReader) >= size
Dropped(size) == SubSeq(mReader, size + 1, Len(mReader))

\* readTVector: no test of the length.
ReadTVector(n, bytes) ==
  [i \in 1 .. n |-> ReadT(IDSize, SubSeq(bytes, (i - 1) * IDSize + 1, i * IDSize))]

-----------------------------------------------------------------------------
(* writeToWriter and writableSize.                                         *)

TypeBytes(m) == WriteOneT(2, m.type)
WriteThreadID(m) == TypeBytes(m) \o WriteOneT(IDSize, m.threadID)
WithoutSize(m) == TypeBytes(m) \o WriteVector(m.ids)
WriteThreadIDs(m) == TypeBytes(m) \o WriteOneT(2, Len(m.ids)) \o WriteVector(m.ids)

WriteToWriter(m) ==
  CASE m.type \in BodyLess -> TypeBytes(m)
    [] m.type \in WithThreadID -> WriteThreadID(m)
    [] m.type \in WithThreadIDs -> WriteThreadIDs(m)

WritableSizeOfID == 2 + IDSize
WritableSizeOfIDs(m) == 2 + 2 + Len(m.ids) * IDSize
WritableSize(m) ==
  IF m.type \in WithThreadID THEN WritableSizeOfID
  ELSE IF m.type \in WithThreadIDs THEN WritableSizeOfIDs(m)
  ELSE 2

\* What a datagram of the stream starts with: flags and number.
Frame == IF framing = "udp" THEN WriteOneT(2, 0) \o WriteOneT(2, Len(sent)) ELSE <<>>

\* sendMessage, once the receiver is through with what came before.
SendMessage(m) ==
  /\ Len(sent) < MaxSent /\ Len(outcomes) = Len(sent) /\ type = 0
  /\ sent' = Append(sent, m)
  /\ mReader' = mReader \o Frame \o WriteToWriter(m)
  /\ UNCHANGED <<stream, type, outcomes, desynced>>

\* The end of a message does not arrive.
Cut(n) ==
  /\ Len(outcomes) < Len(sent) /\ type = 0 /\ ~desynced /\ n < Len(mReader)
  /\ mReader' = SubSeq(mReader, 1, n) /\ desynced' = TRUE
  /\ UNCHANGED <<stream, type, sent, outcomes>>

-----------------------------------------------------------------------------
IsValidMessageType(t) == t \in validTypes

Reject(e) == outcomes' = Append(outcomes, [error |-> e]) /\ desynced' = TRUE

\* receiveMessage.  A type that is not valid is read, and its body is not skipped.
ReceiveMessage ==
  /\ Len(outcomes) < Len(sent) /\ type = 0
  /\ IF ~CanReadT(2) THEN Reject("TooShort") /\ UNCHANGED <<mReader, type>>
     ELSE LET t == ReadT(2, mReader) IN
          /\ mReader' = Dropped(2)
          /\ IF IsValidMessageType(t) THEN type' = t /\ UNCHANGED <<outcomes, desynced>>
             ELSE Reject("InvalidType") /\ UNCHANGED type
  /\ UNCHANGED <<stream, sent>>

Parsed(m) == outcomes' = Append(outcomes, m) /\ type' = 0 /\ UNCHANGED <<stream, sent, desynced>>
TooShort == Reject("TooShort") /\ type' = 0 /\ UNCHANGED <<stream, mReader, sent>>

\* A message that is its type.
ReadBodyLess == type \in BodyLess /\ Parsed([type |-> type]) /\ UNCHANGED mReader

\* MessageWithThreadID::ReadFrom
ReadThreadID ==
  /\ type \in WithThreadID
  /\ IF ~CanReadT(IDSize) THEN TooShort
     ELSE mReader' = Dropped(IDSize) /\ Parsed([type |-> type, threadID |-> ReadT(IDSize, mReader)])

\* MessageWithThreadIDs::ReadFrom.  readTVector reads beyond the end; the test
\* after it, of a vector for being false, may report that or not.
ReadThreadIDs ==
  /\ type \in WithThreadIDs
  /\ IF ~CanReadT(2) THEN TooShort
     ELSE LET n == ReadT(2, mReader) IN
          /\ mReader' = Dropped(2 + n * IDSize)
          /\ IF Len(mReader) >= 2 + n * IDSize
             THEN Parsed([type |-> type, ids |-> ReadTVector(n, Dropped(2))])
             ELSE /\ \E e \in {"TooShort", "Overread"} : Reject(e)
                  /\ type' = 0 /\ UNCHANGED <<stream, sent>>

Next ==
  \/ \E m \in Message : SendMessage(m)
  \/ \E n \in 0 .. 4 + 2 * IDSize : Cut(n)
  \/ ReceiveMessage
  \/ ReadBodyLess \/ ReadThreadID \/ ReadThreadIDs

Spec == Init /\ [][Next]_vars

-----------------------------------------------------------------------------
\* What the receiver parses is what was sent, message by message and to its last
\* byte, until one is cut or rejected; and the reader leaves the message only
\* after that.  A message takes the room that writeT asks for (Message.hpp
\* 223-308, MessageStream.cpp 96-112, FieldReader.hpp 104-137).
MessagesReadBack ==
  /\ ~desynced => /\ IsPrefix(outcomes, sent)
                  /\ Len(outcomes) = Len(sent) => mReader = <<>>
  /\ \A i \in DOMAIN sent : Len(WriteToWriter(sent[i])) = WritableSize(sent[i])
=============================================================================
