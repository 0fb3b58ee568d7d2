---------------------------- MODULE InputStream ----------------------------
(***************************************************************************)
(* Network/Stream.cpp, InputStreamVector: the bytes of a stream as the     *)
(* segments they arrived in, read through Base/FieldReader.hpp.            *)
(* mCurrentVector is the segment being read, mVectors the ones after it,   *)
(* mVectorsSize the bytes of all of them that are not read yet.            *)
(*                                                                         *)
(* A byte is the number of its arrival, so a segment is a run of numbers.  *)
(* The loop of hasLength (receive until there is enough) and the one of    *)
(* increaseBegin (drop whole segments) are taken one iteration per step.   *)
(* receiveData is the network's: any segment, or an error.                 *)
(***************************************************************************)
EXTENDS Integers, Sequences, SequencesExt

CONSTANTS
  MaxField,    \* the longest field read
  MaxSegment,  \* bound: the longest segment that arrives
  MaxBytes,    \* bound: the bytes that arrive in all
  MaxQueue     \* bound: the segments in mVectors at once

ASSUME BoundsAssumption == {MaxField, MaxSegment, MaxBytes, MaxQueue} \subseteq Nat \ {0}

VARIABLES
  mCurrentVector, mVectors, mVectorsSize,
  pc,        \* "idle", "hasLength", "increaseBegin" or "crashed"
  length,    \* the bytes of the field being read
  howMuch,   \* increaseBegin's argument, counted down by its loop
  result,    \* the bytes of the last field read; empty when tryReadT failed
  arrived,   \* history: the bytes received so far
  consumed   \* history: the bytes of the fields read so far

segments == <<mCurrentVector, mVectors, mVectorsSize>>
vars == <<segments, pc, length, howMuch, result, arrived, consumed>>

Init ==
  /\ mCurrentVector = <<>> /\ mVectors = <<>> /\ mVectorsSize = 0
  /\ pc = "idle" /\ length = 0 /\ howMuch = 0 /\ result = <<>>
  /\ arrived = 0 /\ consumed = 0

\* operator[]: the current segment, then the ones after it in order.
ByteAtSameIndex(i) ==
  IF Len(mCurrentVector) <= i THEN FlattenSeq(mVectors)[i + 1] ELSE mCurrentVector[i + 1]
ByteAt(i) ==
  IF Len(mCurrentVector) <= i
  THEN FlattenSeq(mVectors)[i - Len(mCurrentVector) + 1]
  ELSE mCurrentVector[i + 1]

\* tryReadT of a field of n bytes: canReadT asks for them with hasLength.
TryReadT(n) ==
  /\ pc = "idle"
  /\ pc' = "hasLength" /\ length' = n
  /\ UNCHANGED <<segments, howMuch, result, arrived, consumed>>

\* An iteration of hasLength: receiveNewData puts a segment at the end.  A
\* datagram may be empty.
QueueFirst(segment) == <<segment>> \o mVectors
QueueLast(segment) == Append(mVectors, segment)

ReceiveNewData(n) ==
  /\ pc = "hasLength"
  /\ mVectorsSize < length
  /\ arrived + n <= MaxBytes /\ Len(mVectors) < MaxQueue
  /\ arrived' = arrived + n
  /\ mVectorsSize' = mVectorsSize + n
  /\ mVectors' = QueueLast([i \in 1..n |-> arrived + i])
  /\ UNCHANGED <<mCurrentVector, pc, length, howMuch, result, consumed>>

\* receiveData reports an error: hasLength is false and nothing is read.
ReceiveFails ==
  /\ pc = "hasLength"
  /\ mVectorsSize < length
  /\ pc' = "idle" /\ length' = 0 /\ result' = <<>>
  /\ UNCHANGED <<segments, howMuch, arrived, consumed>>

\* readT: the value is read with operator[], then increaseBegin is called.
ReadT ==
  /\ pc = "hasLength"
  /\ mVectorsSize >= length
  /\ result' = [i \in 1..length |-> ByteAt(i - 1)]
  /\ consumed' = consumed + length
  /\ pc' = "increaseBegin" /\ howMuch' = length /\ length' = 0
  /\ UNCHANGED <<segments, arrived>>

\* The test of increaseBegin's loop.
CurrentUsedUp == howMuch >= Len(mCurrentVector)

\* Its body, with switchToNextVector: front() of an empty mVectors is null.
SizeLessCurrent == mVectorsSize - Len(mCurrentVector)

HowMuchKept == howMuch
HowMuchLeft == howMuch - Len(mCurrentVector)

SwitchToNextVector ==
  /\ pc = "increaseBegin"
  /\ CurrentUsedUp
  /\ mVectorsSize' = SizeLessCurrent
  /\ howMuch' = HowMuchLeft
  /\ IF mVectors = <<>>
     THEN pc' = "crashed" /\ UNCHANGED <<mCurrentVector, mVectors>>
     ELSE mCurrentVector' = Head(mVectors) /\ mVectors' = Tail(mVectors) /\ UNCHANGED pc
  /\ UNCHANGED <<length, result, arrived, consumed>>

\* The rest is an offset into the current segment.
IncreaseBegin ==
  /\ pc = "increaseBegin"
  /\ ~CurrentUsedUp
  /\ mCurrentVector' = SubSeq(mCurrentVector, howMuch + 1, Len(mCurrentVector))
  /\ mVectorsSize' = mVectorsSize - howMuch
  /\ pc' = "idle" /\ howMuch' = 0
  /\ UNCHANGED <<mVectors, length, result, arrived, consumed>>

Next ==
  \/ \E n \in 1..MaxField : TryReadT(n)
  \/ \E n \in 0..MaxSegment : ReceiveNewData(n)
  \/ ReceiveFails \/ ReadT \/ SwitchToNextVector \/ IncreaseBegin

Spec == Init /\ [][Next]_vars

-----------------------------------------------------------------------------
Unread == mCurrentVector \o FlattenSeq(mVectors)

\* The segments hold exactly the bytes that arrived and were not read, in the
\* order of their arrival, and mVectorsSize counts them: none is lost, repeated
\* or moved, however fields and segments overlap.
UnreadInOrder ==
  pc \in {"idle", "hasLength"} =>
    /\ Unread = [i \in 1..(arrived - consumed) |-> consumed + i]
    /\ mVectorsSize = arrived - consumed

\* A field is made of the bytes that follow the field before it.
FieldInOrder ==
  pc = "increaseBegin" =>
    result = [i \in 1..Len(result) |-> consumed - Len(result) + i]

\* Both: what is read and what is left to read are the bytes that arrived, once
\* each and in order (Stream.cpp 45-108, FieldReader.hpp 104-111).
BytesInOrder == UnreadInOrder /\ FieldInOrder

\* The one way to the null front(): the reader has read every byte received.
CrashOnlyWhenDrained == pc = "crashed" => consumed = arrived
=============================================================================
