------------------------------ MODULE Variants ------------------------------
(***************************************************************************)
(* The classes of Base/ that construct a value in place or release one in  *)
(* their destructor: Optional, TwoVariant under Expected, and the movable  *)
(* ScopedContainer.  A box is a variable of such a class; its storage is   *)
(* the value whose bytes lie in it.  A value is constructed once; what the *)
(* project asks is that it is destructed (released) once.                  *)
(***************************************************************************)
EXTENDS Integers, FiniteSets

CONSTANTS
  Value,     \* the objects constructed, the resources acquired: each once
  Optional, Variant, Scoped,  \* boxes, by the class of their variable
  Null

ASSUME VariantsNullAssumption == Null \notin Value

VARIABLES
  made,      \* boxes between their constructor and their destructor
  storage,   \* the value in each box's storage; Null: uninitialised bytes
  status,    \* mCurrentStatus; "first" when an optional or scoped box is valid
  destructs, \* how often each value was destructed; -1 before construction
  lost,      \* history: values that a move left in no box's care
  explicit,  \* history: values on which destruct() of a variant was called
  typeOf,    \* history: the status under which a variant's value was constructed
  stopped    \* a null pointer was dereferenced

vars == <<made, storage, status, destructs, lost, explicit, typeOf, stopped>>
Box == Optional \cup Variant \cup Scoped
Status == {"none", "first", "second"}

TypeOK ==
  /\ made \subseteq Box
  /\ storage \in [Box -> Value \cup {Null}]
  /\ status \in [Box -> Status]
  /\ typeOf \in [Value -> Status]
  /\ destructs \in [Value -> -1 .. 2]
  /\ lost \subseteq Value /\ explicit \subseteq Value /\ stopped \in BOOLEAN

Init ==
  /\ made = {} /\ lost = {} /\ explicit = {} /\ stopped = FALSE
  /\ storage = [b \in Box |-> Null]
  /\ status = [b \in Box |-> "none"]
  /\ destructs = [v \in Value |-> -1]
  /\ typeOf = [v \in Value |-> "none"]

Fresh(v) == destructs[v] = -1
Active(b) == status[b] # "none"

\* CustomStorageConstructor and ConstructableStorage: construct v in b, after
\* the destruction of what the caller chose to destruct there.
Destructed(d, v) == [d EXCEPT ![v] = @ + 1]
ConstructIn(b, v, d) == storage' = [storage EXCEPT ![b] = v] /\ destructs' = [d EXCEPT ![v] = 0]

-----------------------------------------------------------------------------
(* Optional.                                                               *)

MakeOptional(b) ==
  /\ b \notin made /\ made' = made \cup {b}
  /\ status' = [status EXCEPT ![b] = "none"]
  /\ UNCHANGED <<storage, destructs, lost, explicit, typeOf, stopped>>

MakeOptionalOf(b, v) ==
  /\ b \notin made /\ Fresh(v)
  /\ made' = made \cup {b} /\ ConstructIn(b, v, destructs)
  /\ status' = [status EXCEPT ![b] = "first"]
  /\ UNCHANGED <<lost, explicit, typeOf, stopped>>

\* The move constructor constructs v from c's object, and makes c invalid
\* without destructing that object.
MoveOptional(b, c, v) ==
  /\ b \notin made /\ c \in made /\ Fresh(v)
  /\ \/ ~Active(c) /\ stopped' = TRUE /\ UNCHANGED <<made, storage, status, destructs, lost>>
     \/ /\ Active(c)
        /\ made' = made \cup {b} /\ ConstructIn(b, v, destructs)
        /\ status' = [status EXCEPT ![b] = "first", ![c] = "none"]
        /\ lost' = lost \cup {storage[c]}
        /\ UNCHANGED stopped
  /\ UNCHANGED <<explicit, typeOf>>

\* construct(): destruct(), then construct.
KeepOld(b) == destructs
AfterDestruct(b) == IF Active(b) THEN Destructed(destructs, storage[b]) ELSE destructs

Construct(b, v) ==
  /\ b \in made /\ Fresh(v)
  /\ ConstructIn(b, v, AfterDestruct(b))
  /\ status' = [status EXCEPT ![b] = "first"]
  /\ UNCHANGED <<made, lost, explicit, typeOf, stopped>>

\* Move assignment constructs from c's object, which c keeps.  Onto itself it
\* constructs from the object it has just destructed, which is undefined.
AssignOptional(b, c, v) ==
  /\ c \in made
  /\ \/ (~Active(c) \/ b = c) /\ b \in made /\ stopped' = TRUE
        /\ UNCHANGED <<made, storage, status, destructs, lost, explicit, typeOf>>
     \/ Active(c) /\ Construct(b, v)

DestructOptional(b) ==
  /\ b \in made /\ Active(b)
  /\ destructs' = AfterDestruct(b)
  /\ status' = [status EXCEPT ![b] = "none"]
  /\ UNCHANGED <<made, storage, lost, explicit, typeOf, stopped>>

DestroyOptional(b) ==
  /\ b \in made /\ made' = made \ {b}
  /\ destructs' = AfterDestruct(b)
  /\ status' = [status EXCEPT ![b] = "none"]
  /\ UNCHANGED <<storage, lost, explicit, typeOf, stopped>>

-----------------------------------------------------------------------------
(* TwoVariant, and Expected: "first" is a value, "second" an error.        *)

\* Expected's constructors: constructFirst or constructSecond in a new variant.
MakeExpected(b, which, v) ==
  /\ b \notin made /\ Fresh(v)
  /\ made' = made \cup {b} /\ ConstructIn(b, v, destructs)
  /\ status' = [status EXCEPT ![b] = which]
  /\ typeOf' = [typeOf EXCEPT ![v] = which]
  /\ UNCHANGED <<lost, explicit, stopped>>

\* isActive, as swap asks it: true when nothing is active.
IsActive(b) == status[b] = "none"

\* swap: exchanges two variants that are both "active"; of one that is and one
\* that is not, the "active" one overwrites the other and becomes inactive.
Overwrite(b, c) ==
  /\ storage' = [storage EXCEPT ![c] = storage[b]]
  /\ status' = [status EXCEPT ![c] = status[b], ![b] = "none"]
Exchange(b, c) ==
  /\ storage' = [storage EXCEPT ![b] = storage[c], ![c] = storage[b]]
  /\ status' = [status EXCEPT ![b] = status[c], ![c] = status[b]]
Swap(b, c) ==
  \/ IsActive(b) /\ IsActive(c) /\ Exchange(b, c)
  \/ IsActive(b) /\ ~IsActive(c) /\ Overwrite(b, c)
  \/ ~IsActive(b) /\ IsActive(c) /\ Overwrite(c, b)
  \/ ~IsActive(b) /\ ~IsActive(c) /\ UNCHANGED <<storage, status>>

Holders(v) == {b \in made : Active(b) /\ storage[b] = v}
LoseUnheld == lost' = lost \cup {v \in Value : Holders(v) # {} /\ Holders(v)' = {}}

\* The move constructor is a swap with the new, inactive variant.
MoveVariant(b, c) ==
  /\ b \notin made /\ c \in made /\ made' = made \cup {b}
  /\ Swap(b, c) /\ LoseUnheld
  /\ UNCHANGED <<destructs, explicit, typeOf, stopped>>

SwapVariants(b, c) ==
  /\ {b, c} \subseteq made /\ UNCHANGED made
  /\ Swap(b, c) /\ LoseUnheld
  /\ UNCHANGED <<destructs, explicit, typeOf, stopped>>

\* constructFromOtherVariant: v is a copy of c's object, or nothing is made.
ConstructFrom(b, c, v, d) ==
  \/ Active(c) /\ Fresh(v) /\ ConstructIn(b, v, d) /\ typeOf' = [typeOf EXCEPT ![v] = status[c]]
  \/ ~Active(c) /\ destructs' = d /\ UNCHANGED <<storage, typeOf>>

CopyVariant(b, c, v) ==
  /\ b \notin made /\ c \in made /\ made' = made \cup {b}
  /\ ConstructFrom(b, c, v, destructs)
  /\ status' = [status EXCEPT ![b] = status[c]]
  /\ UNCHANGED <<lost, explicit, stopped>>

\* operator=, which is also Expected's move assignment: the same status assigns
\* in place; another one destructs, constructs a copy and takes the status.
KeepStatus(b, c) == status
TakeStatus(b, c) == [status EXCEPT ![b] = status[c]]

AssignVariant(b, c, v) ==
  /\ {b, c} \subseteq made
  /\ \/ status[b] = status[c] /\ UNCHANGED <<storage, status, destructs, typeOf>>
     \/ /\ status[b] # status[c]
        /\ ConstructFrom(b, c, v, AfterDestruct(b))
        /\ status' = TakeStatus(b, c)
  /\ UNCHANGED <<made, lost, explicit, stopped>>

\* destruct() leaves the status, so the destructor destructs again.
DestructVariant(b) ==
  /\ b \in made /\ Active(b)
  /\ destructs' = AfterDestruct(b)
  /\ explicit' = explicit \cup {storage[b]}
  /\ UNCHANGED <<made, storage, status, lost, typeOf, stopped>>

DestroyVariant(b) ==
  /\ b \in made /\ made' = made \ {b}
  /\ destructs' = AfterDestruct(b)
  /\ status' = [status EXCEPT ![b] = "none"]
  /\ UNCHANGED <<storage, lost, explicit, typeOf, stopped>>

-----------------------------------------------------------------------------
(* MovableScopedContainer.  T() is the value the deleter takes as nothing: *)
(* the box that was moved from runs its deleter on it.                     *)

MakeScoped(b, v) ==
  /\ b \notin made /\ Fresh(v)
  /\ made' = made \cup {b} /\ ConstructIn(b, v, destructs)
  /\ status' = [status EXCEPT ![b] = "first"]
  /\ UNCHANGED <<lost, explicit, typeOf, stopped>>

KeepScoped(b, c) == status' = [status EXCEPT ![b] = status[c]]
ClearScoped(b, c) == status' = [status EXCEPT ![b] = status[c], ![c] = "none"]

MoveScoped(b, c) ==
  /\ b \notin made /\ c \in made /\ made' = made \cup {b}
  /\ storage' = [storage EXCEPT ![b] = storage[c]]
  /\ ClearScoped(b, c)
  /\ UNCHANGED <<destructs, lost, explicit, typeOf, stopped>>

AssignScoped(b, c) ==
  /\ {b, c} \subseteq made
  /\ Exchange(b, c)
  /\ UNCHANGED <<made, destructs, lost, explicit, typeOf, stopped>>

DestroyScoped(b) ==
  /\ b \in made /\ made' = made \ {b}
  /\ destructs' = AfterDestruct(b)
  /\ status' = [status EXCEPT ![b] = "none"]
  /\ UNCHANGED <<storage, lost, explicit, typeOf, stopped>>

-----------------------------------------------------------------------------
Running == ~stopped /\ \A v \in Value : destructs[v] < 2

OptionalNext ==
  \/ \E b \in Optional : MakeOptional(b) \/ DestructOptional(b) \/ DestroyOptional(b)
  \/ \E b \in Optional, v \in Value : MakeOptionalOf(b, v) \/ Construct(b, v)
  \/ \E b, c \in Optional, v \in Value : MoveOptional(b, c, v) \/ AssignOptional(b, c, v)

VariantNext ==
  \/ \E b \in Variant, which \in {"first", "second"}, v \in Value : MakeExpected(b, which, v)
  \/ \E b, c \in Variant : MoveVariant(b, c) \/ SwapVariants(b, c)
  \/ \E b, c \in Variant, v \in Value : CopyVariant(b, c, v) \/ AssignVariant(b, c, v)
  \/ \E b \in Variant : DestructVariant(b) \/ DestroyVariant(b)

ScopedNext ==
  \/ \E b \in Scoped, v \in Value : MakeScoped(b, v)
  \/ \E b, c \in Scoped : MoveScoped(b, c) \/ AssignScoped(b, c)
  \/ \E b \in Scoped : DestroyScoped(b)

Next == Running /\ (OptionalNext \/ VariantNext \/ ScopedNext)

Spec == Init /\ [][Next]_vars

-----------------------------------------------------------------------------
\* A value that was constructed is held by one box, was destructed once, or was
\* abandoned by a move, and never two of these: no sequence of moves, swaps and
\* assignments destructs a value twice, or loses one elsewhere.  A variant's
\* destruct() is the one exception (Optional.hpp 51-94, Expected.hpp 24-157,
\* ScopedContainer.hpp 40-64).
ConstructedOnce ==
  \A v \in Value \ explicit :
    ~Fresh(v) =>
      Cardinality(Holders(v)) + destructs[v] + Cardinality({v} \cap lost) = 1

\* The status of a variant tells the type of the value in its storage: getFirst
\* and getSecond never take the bytes of the one for the other, whatever was
\* copied, moved, swapped or left behind (Expected.hpp 41-90, 124-157).
StatusTellsType == \A b \in Variant \cap made : Active(b) => status[b] = typeOf[storage[b]]
=============================================================================
