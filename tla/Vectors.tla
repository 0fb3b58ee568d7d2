------------------------------ MODULE Vectors -------------------------------
(***************************************************************************)
(* Base/Vector: a dynamic array.  A buffer is a heap allocation, a         *)
(* sequence of cells; a cell holds an element or is Dead, which is memory  *)
(* no object was constructed in, or whose object was destructed.           *)
(***************************************************************************)
EXTENDS Integers, Sequences

CONSTANTS
  Vector,  \* variables of type Vector
  Buffer,  \* addresses the allocator hands out, each once
  Element,
  Default, \* an element constructed without arguments
  MaxSize, \* bound: the size of a vector
  SizeValues, \* the number of values of SizeType, far more than a buffer has cells
  Dead, Null

VARIABLES
  made,           \* the vectors between constructor and destructor
  mPointer, mSize,
  heap,           \* the cells of each buffer
  allocated, freed,
  contents,       \* history: the sequence each vector stands for
  tainted,        \* history: the vectors an operation has broken
  stopped         \* undefined behaviour has ended the program

vars == <<made, mPointer, mSize, heap, allocated, freed, contents, tainted, stopped>>

Sizes == 0 .. MaxSize
Ranges == UNION {[1 .. n -> Element] : n \in 0 .. 1}  \* what callers pass

TypeOK ==
  /\ made \subseteq Vector /\ tainted \subseteq Vector /\ stopped \in BOOLEAN
  /\ mPointer \in [Vector -> Buffer \cup {Null}] /\ mSize \in [Vector -> 0 .. SizeValues - 1]
  /\ heap \in [Buffer -> Seq(Element \cup {Dead})]
  /\ allocated \subseteq Buffer /\ freed \subseteq allocated
  /\ contents \in [Vector -> Seq(Element)]

Init ==
  /\ made = {} /\ allocated = {} /\ freed = {} /\ tainted = {} /\ stopped = FALSE
  /\ mPointer = [v \in Vector |-> Null] /\ mSize = [v \in Vector |-> 0]
  /\ heap = [b \in Buffer |-> <<>>]
  /\ contents = [v \in Vector |-> <<>>]

-----------------------------------------------------------------------------
\* A memory is the vector's pointer and size, with the heap around them.
Memory(v) == [pointer |-> mPointer[v], size |-> mSize[v],
              heap |-> heap, allocated |-> allocated, freed |-> freed]
EmptyMemory(m) == [m EXCEPT !.pointer = Null, !.size = 0]  \* makeEmpty

Cells(m) == IF m.size = 0 THEN <<>> ELSE SubSeq(m.heap[m.pointer], 1, m.size)
FilledWith(n, x) == [i \in 1 .. n |-> x]

\* CustomStorageConstructor's destruct(pointer, n).
DestructAll(m) ==
  IF m.size = 0 THEN m
  ELSE [m EXCEPT !.heap[m.pointer] = FilledWith(m.size, Dead) \o SubSeq(@, m.size + 1, Len(@))]

\* deleteAll destructs the elements and frees the buffer, which has no cells
\* from then on; a vector of size zero frees nothing.
DeleteAll(m) ==
  IF m.size = 0 THEN m ELSE [m EXCEPT !.freed = @ \cup {m.pointer}, !.heap[m.pointer] = <<>>]

\* insertToUninitilizedBuffer.
InsertAt(m, index, s) ==
  IF s = <<>> THEN m
  ELSE [m EXCEPT !.heap[m.pointer] =
          SubSeq(@, 1, index) \o s \o SubSeq(@, index + Len(s) + 1, Len(@))]

\* mAllocator.allocate(n).
Allocate(m, n) ==
  LET b == CHOOSE x \in Buffer : x \notin m.allocated IN
  [m EXCEPT !.pointer = b, !.size = n, !.allocated = @ \cup {b}, !.heap[b] = FilledWith(n, Dead)]

\* A MoveIterator over n cells: the elements, which it does not remove.
MovedCells(m, n) == SubSeq(Cells(m), 1, n)

\* moveOldBufferToNew: what fits of the old cells.
OldCellsButOne(m, newSize) == MovedCells(m, IF newSize > m.size THEN m.size - 1 ELSE newSize)
OldCells(m, newSize) == MovedCells(m, IF newSize > m.size THEN m.size ELSE newSize)

\* resizeBuffer: the same size destructs in place; another one moves the old
\* elements into a new buffer and deletes the old one.
ResizeBuffer(m, newSize) ==
  IF m.size = newSize THEN DestructAll(m)
  ELSE LET n == IF newSize = 0 THEN EmptyMemory(m)
                ELSE InsertAt(Allocate(m, newSize), 0, OldCells(m, newSize))
           old == DeleteAll([n EXCEPT !.pointer = m.pointer, !.size = m.size])
       IN [old EXCEPT !.pointer = n.pointer, !.size = n.size]

\* iteratorsRange: the steps from begin to end.
IteratorsRange(s) == Len(s)

AssignRange(m, s) == InsertAt(ResizeBuffer(m, IteratorsRange(s)), 0, s)

-----------------------------------------------------------------------------
\* v has the cells it counts: its buffer is not freed, its size did not wrap.
Usable(v) == mSize[v] > 0 => mPointer[v] \notin freed /\ mSize[v] <= MaxSize

\* The step of an operation on v alone that leaves memory m.
Becomes(v, m) ==
  /\ mPointer' = [mPointer EXCEPT ![v] = m.pointer]
  /\ mSize' = [mSize EXCEPT ![v] = m.size]
  /\ heap' = m.heap /\ allocated' = m.allocated /\ freed' = m.freed
Means(v, s) == contents' = [contents EXCEPT ![v] = s]
CanAllocate == allocated # Buffer

\* Vector(), Vector(begin, end) and the copy constructor.
MakeVector(v, s) ==
  /\ v \notin made /\ made' = made \cup {v}
  /\ Becomes(v, AssignRange(EmptyMemory(Memory(v)), s)) /\ Means(v, s)
  /\ UNCHANGED <<tainted, stopped>>

MoveVector(v, w) ==
  /\ v \notin made /\ w \in made /\ made' = made \cup {v}
  /\ mPointer' = [mPointer EXCEPT ![v] = mPointer[w], ![w] = Null]
  /\ mSize' = [mSize EXCEPT ![v] = mSize[w], ![w] = 0]
  /\ contents' = [contents EXCEPT ![v] = contents[w], ![w] = <<>>]
  /\ tainted' = IF w \in tainted THEN (tainted \cup {v}) \ {w} ELSE tainted
  /\ UNCHANGED <<heap, allocated, freed, stopped>>

\* Move assignment: deleteAll, then a swap that gives w the deleted buffer, and
\* leaves it to v itself when w is v.
AssignMoved(v, w) ==
  /\ {v, w} \subseteq made /\ Usable(v)
  /\ LET m == DeleteAll(Memory(v)) IN
     /\ heap' = m.heap /\ freed' = m.freed
     /\ mPointer' = [mPointer EXCEPT ![v] = mPointer[w], ![w] = mPointer[v]]
     /\ mSize' = [mSize EXCEPT ![v] = mSize[w], ![w] = mSize[v]]
  /\ contents' = [contents EXCEPT ![v] = contents[w], ![w] = <<>>]
  /\ tainted' = (IF w \in tainted THEN tainted \cup {v} ELSE tainted \ {v})
                \cup (IF mSize[v] > 0 THEN {w} ELSE {})
  /\ UNCHANGED <<made, allocated, stopped>>

\* assign and copy assignment.
Assign(v, s) ==
  /\ v \in made /\ Usable(v) /\ CanAllocate
  /\ Becomes(v, AssignRange(Memory(v), s)) /\ Means(v, s)
  /\ UNCHANGED <<made, tainted, stopped>>

AssignCopied(v, w) ==
  /\ v # w /\ w \in made \ tainted
  /\ \/ Assign(v, Cells(Memory(w)))
     \/ CanAllocate /\ MakeVector(v, Cells(Memory(w)))

\* Onto itself: the elements are destructed, then constructed from themselves.
AssignSelf(v) ==
  /\ v \in made /\ Usable(v)
  /\ Becomes(v, DestructAll(Memory(v)))
  /\ tainted' = IF mSize[v] > 0 THEN tainted \cup {v} ELSE tainted
  /\ UNCHANGED <<made, contents, stopped>>

\* resize, and expand(size).
Resize(v, n) ==
  /\ v \in made /\ Usable(v) /\ CanAllocate
  /\ Means(v, SubSeq(contents[v] \o FilledWith(MaxSize, Default), 1, n))
  /\ \/ n = mSize[v] /\ Becomes(v, Memory(v))
     \/ n = 0 /\ n # mSize[v] /\ Becomes(v, EmptyMemory(DeleteAll(Memory(v))))
     \/ /\ n # 0 /\ n # mSize[v]
        /\ LET more == IF n > mSize[v] THEN FilledWith(n - mSize[v], Default) ELSE <<>>
           IN Becomes(v, InsertAt(ResizeBuffer(Memory(v), n), mSize[v], more))
  /\ UNCHANGED <<made, tainted, stopped>>

\* The subtraction wraps when a caller takes off more than there is, which an
\* assertion reports and nothing prevents.  Bound: a size wraps once.
ShrinkWithoutFree(v, howMuch) ==
  /\ v \in made /\ mSize[v] <= MaxSize
  /\ mSize' = [mSize EXCEPT ![v] = IF howMuch > @ THEN @ - howMuch + SizeValues ELSE @ - howMuch]
  /\ Means(v, SubSeq(contents[v], 1, Len(contents[v]) - howMuch))
  /\ tainted' = IF howMuch > mSize[v] THEN tainted \cup {v} ELSE tainted
  /\ UNCHANGED <<made, mPointer, heap, allocated, freed, stopped>>

\* expand(begin, end): an empty range leaves the size, so resizeBuffer
\* destructs the elements and nothing constructs them again.
ExpandRange(v, s) ==
  /\ v \in made /\ Usable(v) /\ CanAllocate /\ mSize[v] + Len(s) <= MaxSize
  /\ Becomes(v, InsertAt(ResizeBuffer(Memory(v), mSize[v] + Len(s)), mSize[v], s))
  /\ Means(v, contents[v] \o s)
  /\ tainted' = IF s = <<>> /\ mSize[v] > 0 THEN tainted \cup {v} ELSE tainted
  /\ UNCHANGED <<made, stopped>>

\* expandFew: several ranges, one after the other.
ExpandFew(v, s, t) == ExpandRange(v, s \o t)

Swap(v, w) ==
  /\ v # w /\ {v, w} \subseteq made
  /\ mPointer' = [mPointer EXCEPT ![v] = mPointer[w], ![w] = mPointer[v]]
  /\ mSize' = [mSize EXCEPT ![v] = mSize[w], ![w] = mSize[v]]
  /\ contents' = [contents EXCEPT ![v] = contents[w], ![w] = contents[v]]
  /\ tainted' = {IF x = v THEN w ELSE IF x = w THEN v ELSE x : x \in tainted}
  /\ UNCHANGED <<made, heap, allocated, freed, stopped>>

Destroy(v) ==
  /\ v \in made /\ Usable(v) /\ made' = made \ {v}
  /\ Becomes(v, EmptyMemory(DeleteAll(Memory(v)))) /\ Means(v, <<>>)
  /\ tainted' = tainted \ {v}
  /\ UNCHANGED stopped

\* Any operation that reads or frees a buffer that was freed, or reads past it.
TouchUnusable(v) ==
  /\ v \in made /\ ~Usable(v) /\ stopped' = TRUE
  /\ UNCHANGED <<made, mPointer, mSize, heap, allocated, freed, contents, tainted>>

Next ==
  /\ ~stopped
  /\ \/ \E v \in Vector : Destroy(v) \/ TouchUnusable(v) \/ AssignSelf(v)
     \/ \E v \in Vector, s \in Ranges : ExpandRange(v, s) \/ Assign(v, s) \/ (CanAllocate /\ MakeVector(v, s))
     \/ \E v \in Vector, s, t \in Ranges : ExpandFew(v, s, t)
     \/ \E v \in Vector, n \in Sizes : Resize(v, n) \/ ShrinkWithoutFree(v, n)
     \/ \E v, w \in Vector : MoveVector(v, w) \/ AssignMoved(v, w) \/ AssignCopied(v, w) \/ Swap(v, w)

Spec == Init /\ [][Next]_vars

-----------------------------------------------------------------------------
\* A vector is the sequence its operations describe, in a buffer of its own
\* that is not freed: whatever was resized, shrunk, expanded, swapped or copied
\* before, except a vector a move assignment has left with the deleted buffer,
\* one that was expanded by an empty range or assigned to itself, and one that
\* was shrunk by more than its size (Vector.hpp 94-187, 266-316).
VectorIsSequence ==
  \A v \in made \ tainted :
    /\ Usable(v)
    /\ Cells(Memory(v)) = contents[v]
    /\ \A w \in made \ {v} : mSize[v] > 0 /\ mSize[w] \in 1 .. MaxSize => mPointer[v] # mPointer[w]
=============================================================================
