------------------------------ MODULE MCValues ------------------------------
(***************************************************************************)
(* The value classes of Base/ on small instances, each by itself: the      *)
(* first state chooses the class whose operations the behavior takes.      *)
(***************************************************************************)
EXTENDS Variants, TLC

CONSTANTS
  Object, Reference, Shared, Unique, Callback, Weak, OfUnique, MaxSlots, MaxCount, NotMade,
  Vector, Buffer, Element, Default, MaxSize, Dead,
  List, Cell, Datum, SizeValues

\* A variable is of one class, and null is the address of nothing.
ASSUME VariantsBoxAssumption == Variant \cap (Optional \cup Scoped) = {}
ASSUME PointersAssumption ==
  /\ Null \notin Object \cup Reference /\ NotMade \notin Reference
  /\ NotMade \notin [mPointer : Object \cup {Null}, mReference : Reference \cup {Null}]
  /\ Shared \cap Unique = {} /\ Callback \cap (Shared \cup Unique) = {} /\ OfUnique \subseteq Callback
\* A SizeType counts far more elements than memory holds.
ASSUME VectorsAssumption ==
  /\ Null \notin Buffer /\ Default \in Element
  /\ MaxSize \in Nat \ {0} /\ SizeValues \in Nat /\ SizeValues > 2 * MaxSize
\* A list has fewer nodes than a SizeType has values: each takes memory.
ASSUME ListsAssumption ==
  /\ IsFiniteSet(Cell) /\ Null \notin Cell /\ Datum # {}
  /\ SizeValues \in Nat /\ Cardinality(Cell) < SizeValues

VARIABLES
  which,  \* the class under check
  slot, weak, mReferenceCount, mWeakCount, raw, deletions, freed, spoiled,
  mPointer, mSize, heap, allocated, contents, tainted, vectorMade, vectorFreed,
  lists, mBegin, mBeforeEnd, listSize, chain, datum, listNodes, listContents, unsized

P == INSTANCE Pointers
V == INSTANCE Vectors WITH made <- vectorMade, freed <- vectorFreed
L == INSTANCE Lists WITH mSize <- listSize, allocated <- listNodes, contents <- listContents

MCInit ==
  /\ which \in {"optionals", "variants", "scoped", "pointers", "vectors", "lists"}
  /\ Init /\ P!Init /\ V!Init /\ L!Init

pointerVars == <<slot, weak, mReferenceCount, mWeakCount, raw, deletions, freed, spoiled>>
vectorVars == <<mPointer, mSize, heap, allocated, contents, tainted, vectorMade, vectorFreed>>
listVars == <<lists, mBegin, mBeforeEnd, listSize, chain, datum, listNodes, listContents, unsized>>
variantVars == <<made, storage, status, destructs, lost, explicit, typeOf>>

MCNext ==
  \/ /\ Running /\ UNCHANGED <<pointerVars, vectorVars, listVars>>
     /\ \/ which = "optionals" /\ OptionalNext
        \/ which = "variants" /\ VariantNext
        \/ which = "scoped" /\ ScopedNext
  \/ which = "pointers" /\ P!Next /\ UNCHANGED <<variantVars, vectorVars, listVars>>
  \/ which = "vectors" /\ V!Next /\ UNCHANGED <<variantVars, pointerVars, listVars>>
  \/ which = "lists" /\ L!Next /\ UNCHANGED <<variantVars, pointerVars, vectorVars, stopped>>

MCSpec ==
  MCInit /\ [][MCNext /\ UNCHANGED which]_<<which, stopped, variantVars, pointerVars, vectorVars, listVars>>

\* The type invariants of the four modules.
ValuesTypeOK == TypeOK /\ P!TypeOK /\ V!TypeOK /\ L!TypeOK
\* A heap object is deleted once, and somebody has it until then (UniquePointer, SharedPointer, Callback).
OwnedOnce == P!OwnedOnce
\* A Vector is the sequence its operations describe, in a live buffer of its own.
VectorIsSequence == V!VectorIsSequence
\* Copies, moves and swaps of LinkedLists lose, share and leak no node.
ListsKeepNodes == L!ListsKeepNodes
=============================================================================
