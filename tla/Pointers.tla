------------------------------ MODULE Pointers ------------------------------
(***************************************************************************)
(* Base/UniquePointer, Base/SharedPointer and Base/Callback: who deletes a *)
(* heap object.  A slot is a C++ variable that holds a pointer object, or  *)
(* NotMade before its constructor and after its destructor.  A pointer     *)
(* object is its two members, mPointer and mReference; mReference stays    *)
(* Null in a unique pointer and in a plain pointer.                        *)
(*                                                                         *)
(* reset() and lock() of the shared and the weak pointer are left out: a   *)
(* temporary does not bind to swap's parameter, and no constructor takes a *)
(* WeakContainer, so no program can call them.                             *)
(***************************************************************************)
EXTENDS Integers, FiniteSets

CONSTANTS
  Object,     \* addresses operator new hands out, each once
  Reference,  \* addresses of _SharedPointerReferenceType objects
  Shared, Unique, Callback, Weak,  \* slots, by the class of their variable
  OfUnique,   \* the callbacks whose manager is a UniqueObjectManager
  MaxSlots,   \* bound: the slots in use at a time
  MaxCount,   \* bound: the reference count
  Null, NotMade

VARIABLES
  slot,      \* the shared and unique pointers and the callbacks' managers
  weak,      \* the reference of each weak pointer
  mReferenceCount, mWeakCount,
  raw,       \* objects a caller owns through a plain pointer
  deletions, \* how often each object was deleted; -1 before new
  freed,     \* references that were deleted
  spoiled,   \* history: objects whose owner an operation has mixed up
  stopped    \* undefined behaviour has ended the program

vars == <<slot, weak, mReferenceCount, mWeakCount, raw, deletions, freed, spoiled, stopped>>
counts == <<mReferenceCount, mWeakCount>>

Slot == Shared \cup Unique \cup Callback
PointerTo(p, r) == [mPointer |-> p, mReference |-> r]
Nothing == PointerTo(Null, Null)
Made(s) == slot[s] # NotMade
FreeSlot(s) == ~Made(s) /\ Cardinality({x \in Slot : Made(x)}) < MaxSlots
Allocated == {o \in Object : deletions[o] >= 0}
Running == ~stopped /\ \A o \in Object : deletions[o] < 2

TypeOK ==
  /\ slot \in [Slot -> [mPointer : Object \cup {Null}, mReference : Reference \cup {Null}] \cup {NotMade}]
  /\ weak \in [Weak -> Reference \cup {NotMade}]
  /\ mReferenceCount \in [Reference -> Nat] /\ mWeakCount \in [Reference -> Nat]
  /\ raw \subseteq Object /\ spoiled \subseteq Object /\ freed \subseteq Reference
  /\ deletions \in [Object -> -1 .. 2] /\ stopped \in BOOLEAN

Init ==
  /\ slot = [s \in Slot |-> NotMade]
  /\ weak = [w \in Weak |-> NotMade]
  /\ mReferenceCount = [r \in Reference |-> 0]
  /\ mWeakCount = [r \in Reference |-> 0]
  /\ raw = {} /\ freed = {} /\ spoiled = {}
  /\ deletions = [o \in Object |-> -1]
  /\ stopped = FALSE

New(o) == o \notin Allocated /\ deletions' = [deletions EXCEPT ![o] = 0]
Delete(o) == deletions' = [deletions EXCEPT ![o] = @ + 1] /\ UNCHANGED stopped

-----------------------------------------------------------------------------
(* SharedPointerBase: the counting.                                        *)

\* decreaseCount: the object is deleted when there is no reference, or one
\* whose count is zero; a freed reference reads as anything.  deleteObject
\* finds the deleter through mReference, which is undefined when it is null:
\* the program deletes the object or ends.  The count is never lowered.
DecreaseCount(p) ==
  LET r == p.mReference IN
  \/ p.mPointer = Null /\ UNCHANGED <<deletions, stopped>>
  \/ p.mPointer # Null /\ r = Null /\ Delete(p.mPointer)
  \/ p.mPointer # Null /\ r = Null /\ stopped' = TRUE /\ UNCHANGED deletions
  \/ p.mPointer # Null /\ r # Null /\ (r \in freed \/ mReferenceCount[r] = 0) /\ Delete(p.mPointer)
  \/ p.mPointer # Null /\ r # Null /\ (r \in freed \/ mReferenceCount[r] # 0) /\ UNCHANGED <<deletions, stopped>>

FreshReference == {r \in Reference : mReferenceCount[r] = 0}

\* increaseCount in a copy of p, kept in slot s.  The first copy makes the
\* reference; the pointer it was copied from keeps its null.
ShareNothing(s, p) == slot' = [slot EXCEPT ![s] = p] /\ UNCHANGED mReferenceCount
IncreaseCount(s, p) ==
  \/ p.mPointer = Null /\ slot' = [slot EXCEPT ![s] = p] /\ UNCHANGED mReferenceCount
  \/ /\ p.mPointer # Null /\ p.mReference = Null /\ FreshReference # {}
     /\ LET r == CHOOSE x \in FreshReference : TRUE IN
        /\ slot' = [slot EXCEPT ![s] = PointerTo(p.mPointer, r)]
        /\ mReferenceCount' = [mReferenceCount EXCEPT ![r] = 1]
  \/ /\ p.mPointer # Null /\ p.mReference # Null /\ mReferenceCount[p.mReference] < MaxCount
     /\ slot' = [slot EXCEPT ![s] = p]
     /\ mReferenceCount' = [mReferenceCount EXCEPT ![p.mReference] = @ + 1]

-----------------------------------------------------------------------------
(* SharedPointerBase: constructors, destructor, assignments.               *)

MakeEmpty(s) ==
  /\ FreeSlot(s) /\ slot' = [slot EXCEPT ![s] = Nothing]
  /\ UNCHANGED <<weak, counts, raw, deletions, freed, spoiled, stopped>>

\* makeShared and makeUnique.
MakeNew(s, o) ==
  /\ FreeSlot(s) /\ New(o)
  /\ slot' = [slot EXCEPT ![s] = PointerTo(o, Null)]
  /\ UNCHANGED <<weak, counts, raw, freed, spoiled, stopped>>

CopyShared(s, t) ==
  /\ FreeSlot(s) /\ Made(t) /\ IncreaseCount(s, slot[t])
  /\ UNCHANGED <<weak, mWeakCount, raw, deletions, freed, spoiled, stopped>>

\* The move constructors of both pointers.
MoveFrom(s, t) ==
  /\ FreeSlot(s) /\ Made(t)
  /\ slot' = [slot EXCEPT ![s] = slot[t], ![t] = Nothing]
  /\ UNCHANGED <<weak, counts, raw, deletions, freed, spoiled, stopped>>

DestroyShared(s) ==
  /\ Made(s) /\ DecreaseCount(slot[s])
  /\ slot' = [slot EXCEPT ![s] = NotMade]
  /\ UNCHANGED <<weak, counts, raw, freed, spoiled>>

\* operator= from a shared pointer of another type.
AssignMoved(s, t) ==
  /\ s # t /\ Made(s) /\ Made(t) /\ DecreaseCount(slot[s])
  /\ slot' = [slot EXCEPT ![s] = slot[t], ![t] = Nothing]
  /\ UNCHANGED <<weak, counts, raw, freed, spoiled>>

AssignCopied(s, t) ==
  /\ s # t /\ Made(s) /\ Made(t) /\ DecreaseCount(slot[s]) /\ IncreaseCount(s, slot[t])
  /\ UNCHANGED <<weak, mWeakCount, raw, freed, spoiled>>

Spoil(os) == spoiled' = spoiled \cup (os \ {Null})

\* operator= within one type: swap() exchanges the references alone, and the
\* copy takes over the other's reference alone.  The pointers stay.
SwapReferences(s, t) ==
  /\ s # t /\ Made(s) /\ Made(t)
  /\ slot' = [slot EXCEPT ![s].mReference = slot[t].mReference, ![t].mReference = slot[s].mReference]
  /\ Spoil({slot[s].mPointer, slot[t].mPointer})
  /\ UNCHANGED <<weak, counts, raw, deletions, freed, stopped>>

CopyReference(s, t) ==
  /\ s # t /\ Made(s) /\ Made(t)
  /\ slot' = [slot EXCEPT ![s].mReference = slot[t].mReference]
  /\ Spoil({slot[s].mPointer, slot[t].mPointer})
  /\ UNCHANGED <<weak, counts, raw, deletions, freed, stopped>>

-----------------------------------------------------------------------------
(* WeakPointer.  The reference dies with its last weak pointer, whoever    *)
(* else uses it, and a shared pointer that was never copied has none.      *)

MakeWeak(w, s) ==
  /\ weak[w] = NotMade /\ Made(s)
  /\ \/ /\ slot[s].mReference = Null
        /\ stopped' = TRUE /\ UNCHANGED <<weak, mWeakCount>>
     \/ /\ slot[s].mReference # Null
        /\ weak' = [weak EXCEPT ![w] = slot[s].mReference]
        /\ mWeakCount' = [mWeakCount EXCEPT ![slot[s].mReference] = @ + 1]
        /\ UNCHANGED stopped
  /\ UNCHANGED <<slot, mReferenceCount, raw, deletions, freed, spoiled>>

DestroyWeak(w) ==
  LET r == weak[w] IN
  /\ r # NotMade
  /\ weak' = [weak EXCEPT ![w] = NotMade]
  /\ mWeakCount' = [mWeakCount EXCEPT ![r] = @ - 1]
  /\ \/ mWeakCount[r] # 1 /\ UNCHANGED <<freed, spoiled>>
     \/ /\ mWeakCount[r] = 1 /\ freed' = freed \cup {r}
        /\ Spoil({slot[s].mPointer : s \in {x \in Slot : Made(x) /\ slot[x].mReference = r}})
  /\ UNCHANGED <<slot, mReferenceCount, raw, deletions, stopped>>

-----------------------------------------------------------------------------
(* UniquePointerBase.                                                      *)

Reset(s, p) ==
  /\ \/ slot[s].mPointer = Null /\ UNCHANGED <<deletions, stopped>>
     \/ slot[s].mPointer # Null /\ Delete(slot[s].mPointer)
  /\ slot' = [slot EXCEPT ![s] = PointerTo(p, Null)]

DestroyUnique(s) ==
  /\ Made(s)
  /\ \/ slot[s].mPointer = Null /\ UNCHANGED <<deletions, stopped>>
     \/ slot[s].mPointer # Null /\ Delete(slot[s].mPointer)
  /\ slot' = [slot EXCEPT ![s] = NotMade]
  /\ UNCHANGED <<weak, counts, raw, freed, spoiled>>

\* operator=(&&): reset, then the other is set to null; also onto itself.
ForgetOther(s, t) == [slot EXCEPT ![s] = slot[t]]
TakeOther(s, t) == [slot EXCEPT ![s] = slot[t], ![t] = Nothing]

AssignUnique(s, t) ==
  /\ Made(s) /\ Made(t)
  /\ \/ slot[s].mPointer = Null /\ UNCHANGED <<deletions, stopped>>
     \/ slot[s].mPointer # Null /\ Delete(slot[s].mPointer)
  /\ slot' = TakeOther(s, t)
  /\ UNCHANGED <<weak, counts, raw, freed, spoiled>>

\* operator=(T *) and the constructor from TakeUniquePointer.
TakePointer(s, o) ==
  /\ o \in raw /\ raw' = raw \ {o}
  /\ \/ FreeSlot(s) /\ slot' = [slot EXCEPT ![s] = PointerTo(o, Null)] /\ UNCHANGED <<deletions, stopped>>
     \/ Made(s) /\ Reset(s, o)
  /\ UNCHANGED <<weak, counts, freed, spoiled>>

Release(s) ==
  /\ Made(s) /\ slot[s].mPointer # Null
  /\ raw' = raw \cup {slot[s].mPointer}
  /\ slot' = [slot EXCEPT ![s] = Nothing]
  /\ UNCHANGED <<weak, counts, deletions, freed, spoiled, stopped>>

-----------------------------------------------------------------------------
(* Callback: the pointer its object manager keeps, as the class of the     *)
(* manager copies or moves it.  A plain pointer's manager deletes nothing  *)
(* and owns nothing, so it is no slot; a callback's class is fixed.        *)

FromUnique(c, s) == c \in Callback /\ s \in Unique /\ MoveFrom(c, s)
FromShared(c, s) == c \in Callback /\ s \in Shared /\ CopyShared(c, s)

-----------------------------------------------------------------------------
SharedLike == Shared \cup (Callback \ OfUnique)
UniqueLike == Unique \cup OfUnique

Next ==
  /\ Running
  /\ \/ \E s \in Shared \cup Unique : MakeEmpty(s) \/ \E o \in Object : MakeNew(s, o)
     \/ \E s, t \in Shared : MoveFrom(s, t) \/ CopyShared(s, t)
     \/ \E s, t \in Shared : AssignMoved(s, t) \/ AssignCopied(s, t)
     \/ \E s, t \in Shared : SwapReferences(s, t) \/ CopyReference(s, t)
     \/ \E s \in SharedLike : DestroyShared(s)
     \/ \E w \in Weak : DestroyWeak(w) \/ \E s \in Shared : MakeWeak(w, s)
     \/ \E s, t \in Unique : MoveFrom(s, t) \/ AssignUnique(s, t)
     \/ \E s \in Unique : Release(s) \/ \E o \in Object : TakePointer(s, o)
     \/ \E s \in UniqueLike : DestroyUnique(s)
     \/ \E c \in OfUnique, s \in Unique : FromUnique(c, s)
     \/ \E c \in Callback \ OfUnique, s \in Shared : FromShared(c, s)

Spec == Init /\ [][Next]_vars

-----------------------------------------------------------------------------
Holders(o) == {s \in Slot : Made(s) /\ slot[s].mPointer = o}

\* A heap object is deleted at most once and not before its last pointer is gone
\* without deleting it: until then a pointer object, or a caller, has it.  The
\* object of a unique pointer or a plain pointer is alive, and nobody else has
\* it.  This is for every chain of constructions, moves, releases, callbacks and
\* destructions, as long as no assignment within one shared type and no weak
\* pointer touched its count (UniquePointer.hpp 88-120, SharedPointer.hpp
\* 127-182, 287-304).
OwnedOnce ==
  ~stopped =>
    \A o \in Allocated \ spoiled :
      /\ deletions[o] <= 1
      /\ deletions[o] = 0 => Holders(o) # {} \/ o \in raw
      /\ Holders(o) \cap UniqueLike # {} \/ o \in raw =>
           deletions[o] = 0 /\ Cardinality(Holders(o)) + Cardinality({o} \cap raw) = 1

\* A shared object lives as long as a shared pointer to it, which is what the
\* count is for ("if --count == 0", SharedPointer.hpp 292).  The code deletes it
\* with the pointer that was copied first, whatever the copies' count.
LivesWhileShared ==
  ~stopped =>
    \A s \in SharedLike : Made(s) /\ slot[s].mPointer \notin spoiled \cup {Null} => deletions[slot[s].mPointer] = 0
=============================================================================
