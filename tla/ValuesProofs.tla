---------------------------- MODULE ValuesProofs ----------------------------
(***************************************************************************)
(* Proofs about the value classes of Base/, for any number of objects,     *)
(* references, variables and buffers: the optionals, variants and scoped   *)
(* containers of Variants (TypeInv, ConstructInv), the shared and unique   *)
(* pointers and the callbacks of Pointers (PointerInv), the linked lists   *)
(* of Lists (ListsInv) and the dynamic arrays of Vectors (VectorsInv).     *)
(***************************************************************************)
EXTENDS MCValues, Integers, Sequences, FiniteSetTheorems, SequenceTheorems, TLAPS

-----------------------------------------------------------------------------
(* Variants.                                                               *)

\* A box takes care of v.
Held(v) == \E b \in made : Active(b) /\ storage[b] = v

\* An active box is made and holds a value that was constructed.
BoxesInv ==
  /\ made \subseteq Box
  /\ storage \in [Box -> Value \cup {Null}]
  /\ status \in [Box -> Status]
  /\ destructs \in [Value -> -1 .. 2]
  /\ lost \subseteq Value /\ explicit \subseteq Value
  /\ \A b \in Box : Active(b) => b \in made /\ storage[b] \in Value /\ ~Fresh(storage[b])

\* A value is not yet constructed, in the care of a box, destructed, or lost.
Kept(v) ==
  \/ Fresh(v) /\ ~Held(v) /\ v \notin lost
  \/ destructs[v] = 0 /\ Held(v) /\ v \notin lost
  \/ destructs[v] = 1 /\ ~Held(v) /\ v \notin lost
  \/ destructs[v] = 0 /\ ~Held(v) /\ v \in lost

\* What ConstructedOnce needs: no two boxes take care of one value.
ConstructInv ==
  /\ BoxesInv
  /\ \A v \in explicit : ~Fresh(v)
  /\ \A b, c \in made : Active(b) /\ Active(c) /\ storage[b] = storage[c] /\ storage[b] \notin explicit => b = c
  /\ \A v \in Value \ explicit : Kept(v)

\* What StatusTellsType needs.
TypeInv ==
  /\ BoxesInv
  /\ typeOf \in [Value -> Status]
  /\ \A b \in Variant : Active(b) => status[b] = typeOf[storage[b]]

\* Every step keeps the boxes right.
LEMMA BoxesStep == BoxesInv /\ [Next]_vars => BoxesInv'
  <1> SUFFICES ASSUME BoxesInv, [Next]_vars PROVE BoxesInv'
    OBVIOUS
  <1> USE VariantsNullAssumption DEF BoxesInv, Box, Status, Active, Fresh
  <1>1. CASE UNCHANGED vars
    BY <1>1 DEF vars
  <1> SUFFICES ASSUME Next PROVE BoxesInv'
    BY <1>1
  <1>2. Running
    BY DEF Next
  <1>3. ASSUME NEW b \in Box PROVE AfterDestruct(b) \in [Value -> -1 .. 2]
          /\ \A v \in Value : AfterDestruct(b)[v] = -1 => destructs[v] = -1
    BY <1>2 DEF Running, AfterDestruct, Destructed
  <1>4. ASSUME NEW b \in Optional, MakeOptional(b) \/ DestructOptional(b) \/ DestroyOptional(b) PROVE BoxesInv'
    BY <1>3, <1>4 DEF MakeOptional, DestructOptional, DestroyOptional
  <1>5. ASSUME NEW b \in Box, NEW v \in Value,
               MakeOptionalOf(b, v) \/ MakeScoped(b, v)
        PROVE  BoxesInv'
    BY <1>5 DEF MakeOptionalOf, MakeScoped, ConstructIn
  <1>6. ASSUME NEW b \in Box, NEW v \in Value, Construct(b, v) PROVE BoxesInv'
    BY <1>3, <1>6 DEF Construct, ConstructIn
  <1>7. ASSUME NEW b \in Optional, NEW c \in Optional, NEW v \in Value, MoveOptional(b, c, v) PROVE BoxesInv'
    BY <1>7 DEF MoveOptional, ConstructIn
  <1>8. ASSUME NEW b \in Optional, NEW c \in Optional, NEW v \in Value, AssignOptional(b, c, v) PROVE BoxesInv'
    BY <1>6, <1>8 DEF AssignOptional
  <1>9. ASSUME NEW b \in Variant, NEW which_ \in {"first", "second"}, NEW v \in Value, MakeExpected(b, which_, v)
        PROVE  BoxesInv'
    BY <1>9 DEF MakeExpected, ConstructIn
  <1>10. ASSUME NEW b \in Variant, NEW c \in Variant, MoveVariant(b, c) \/ SwapVariants(b, c) PROVE BoxesInv'
    <2>1. lost' \subseteq Value
      BY <1>10 DEF MoveVariant, SwapVariants, LoseUnheld
    <2>2. c \in made /\ made' = made \cup {b} /\ Swap(b, c) /\ UNCHANGED <<destructs, explicit>>
      BY <1>10 DEF MoveVariant, SwapVariants
    <2> QED
      BY <2>1, <2>2 DEF Swap, IsActive, Exchange, Overwrite
  <1>11. ASSUME NEW b \in Variant, NEW c \in Variant, NEW v \in Value, CopyVariant(b, c, v) PROVE BoxesInv'
    BY <1>11 DEF CopyVariant, ConstructFrom, ConstructIn
  <1>12. ASSUME NEW b \in Variant, NEW c \in Variant, NEW v \in Value, AssignVariant(b, c, v) PROVE BoxesInv'
    BY <1>3, <1>12 DEF AssignVariant, ConstructFrom, ConstructIn, TakeStatus
  <1>13. ASSUME NEW b \in Variant, DestructVariant(b) \/ DestroyVariant(b) PROVE BoxesInv'
    BY <1>3, <1>13 DEF DestructVariant, DestroyVariant
  <1>14. ASSUME NEW b \in Scoped, NEW c \in Scoped, MoveScoped(b, c) \/ AssignScoped(b, c) PROVE BoxesInv'
    BY <1>14 DEF MoveScoped, ClearScoped, AssignScoped, Exchange
  <1>15. ASSUME NEW b \in Scoped, DestroyScoped(b) PROVE BoxesInv'
    BY <1>3, <1>15 DEF DestroyScoped
  <1> QED
    BY <1>4, <1>5, <1>6, <1>7, <1>8, <1>9, <1>10, <1>11, <1>12, <1>13, <1>14, <1>15
       DEF Next, OptionalNext, VariantNext, ScopedNext

\* Before the first construction nothing is held.
LEMMA BoxesInit == Init => BoxesInv
  BY DEF Init, BoxesInv, Box, Status, Active, Fresh

\* The status of a variant tells the type of the value in its storage, whatever
\* was copied, moved, swapped or left behind.
THEOREM StatusAlwaysTellsType == Spec => []StatusTellsType
  <1>1. Init => TypeInv
    BY BoxesInit DEF Init, TypeInv, Status, Active, Box
  <1>2. TypeInv /\ [Next]_vars => TypeInv'
    <2> SUFFICES ASSUME TypeInv, BoxesInv, BoxesInv', [Next]_vars PROVE TypeInv'
      BY BoxesStep DEF TypeInv
    <2> USE VariantsNullAssumption, VariantsBoxAssumption DEF TypeInv, BoxesInv, Box, Status, Active, Fresh
    <2>1. ASSUME UNCHANGED typeOf,
                 \A b \in Variant : Active(b)' => Active(b) /\ status'[b] = status[b] /\ storage'[b] = storage[b]
          PROVE  TypeInv'
      BY <2>1
    <2>2. ASSUME NEW b \in Optional, MakeOptional(b) \/ DestructOptional(b) \/ DestroyOptional(b) PROVE TypeInv'
      BY <2>1, <2>2 DEF MakeOptional, DestructOptional, DestroyOptional
    <2>3. ASSUME NEW b \in Optional \cup Scoped, NEW v \in Value,
                 MakeOptionalOf(b, v) \/ Construct(b, v) \/ MakeScoped(b, v)
          PROVE  TypeInv'
      BY <2>1, <2>3 DEF MakeOptionalOf, MakeScoped, Construct, ConstructIn
    <2>4. ASSUME NEW b \in Optional, NEW c \in Optional, NEW v \in Value,
                 MoveOptional(b, c, v) \/ AssignOptional(b, c, v)
          PROVE  TypeInv'
      BY <2>1, <2>3, <2>4 DEF MoveOptional, AssignOptional, ConstructIn
    <2>5. ASSUME NEW b \in Variant, NEW type \in {"first", "second"}, NEW v \in Value, MakeExpected(b, type, v)
          PROVE  TypeInv'
      BY <2>5 DEF MakeExpected, ConstructIn
    <2>6. ASSUME NEW b \in Variant, NEW c \in Variant, MoveVariant(b, c) \/ SwapVariants(b, c) PROVE TypeInv'
      <3>1. Swap(b, c) /\ UNCHANGED typeOf
        BY <2>6 DEF MoveVariant, SwapVariants
      <3> QED
        BY <3>1 DEF Swap, IsActive, Exchange, Overwrite
    <2>7. ASSUME NEW b \in Variant, NEW c \in Variant, NEW v \in Value, CopyVariant(b, c, v) PROVE TypeInv'
      BY <2>7 DEF CopyVariant, ConstructFrom, ConstructIn
    <2>8. ASSUME NEW b \in Variant, NEW c \in Variant, NEW v \in Value, AssignVariant(b, c, v) PROVE TypeInv'
      BY <2>8 DEF AssignVariant, ConstructFrom, ConstructIn, TakeStatus
    <2>9. ASSUME NEW b \in Variant, DestructVariant(b) \/ DestroyVariant(b) PROVE TypeInv'
      BY <2>1, <2>9 DEF DestructVariant, DestroyVariant
    <2>10. ASSUME NEW b \in Scoped, NEW c \in Scoped, MoveScoped(b, c) \/ AssignScoped(b, c) PROVE TypeInv'
      BY <2>1, <2>10 DEF MoveScoped, ClearScoped, AssignScoped, Exchange
    <2>11. ASSUME NEW b \in Scoped, DestroyScoped(b) PROVE TypeInv'
      BY <2>1, <2>11 DEF DestroyScoped
    <2>12. CASE UNCHANGED vars
      BY <2>1, <2>12 DEF vars
    <2> QED
      BY <2>2, <2>3, <2>4, <2>5, <2>6, <2>7, <2>8, <2>9, <2>10, <2>11, <2>12
         DEF Next, OptionalNext, VariantNext, ScopedNext
  <1>3. TypeInv => StatusTellsType
    BY DEF TypeInv, StatusTellsType
  <1> QED
    BY <1>1, <1>2, <1>3, PTL DEF Spec

\* A step that constructs, destructs and moves nothing.
LEMMA KeptUnchanged ==
  ASSUME ConstructInv, BoxesInv', UNCHANGED <<destructs, lost, explicit>>,
         \A b \in Box : (Active(b)' <=> Active(b)) /\ (Active(b) => storage'[b] = storage[b])
  PROVE  ConstructInv'
  <1> USE DEF ConstructInv, BoxesInv
  <1>1. ASSUME NEW v \in Value PROVE Held(v)' <=> Held(v)
    BY DEF Held
  <1>2. \A v \in Value \ explicit' : Kept(v)'
    BY <1>1 DEF Kept, Fresh
  <1>3. \A c, d \in made' : Active(c)' /\ Active(d)' /\ storage'[c] = storage'[d] /\ storage'[c] \notin explicit' => c = d
    OBVIOUS
  <1> QED
    BY <1>2, <1>3 DEF Fresh

\* Box b, which holds nothing any more, gets the new value v.
LEMMA KeptConstruct ==
  ASSUME ConstructInv, BoxesInv', NEW b \in Box, NEW v \in Value, Fresh(v), UNCHANGED <<lost, explicit>>,
         Running,
         destructs' = [AfterDestruct(b) EXCEPT ![v] = 0],
         Active(b)' /\ storage'[b] = v,
         \A c \in Box \ {b} : /\ Active(c)' <=> Active(c)
                              /\ Active(c) => storage'[c] = storage[c]
  PROVE  ConstructInv'
  <1> USE DEF ConstructInv, BoxesInv
  <1>1. ASSUME NEW w \in Value \ explicit PROVE Kept(w)'
    <2>1. CASE w = v
      <3>1. destructs'[v] = 0 /\ Held(v)' /\ v \notin lost'
        BY <2>1, <1>1 DEF Held, Kept, Fresh, AfterDestruct, Destructed
      <3> QED
        BY <2>1, <3>1 DEF Kept
    <2>2. CASE w # v /\ Active(b) /\ storage[b] = w
      <3>1. Held(w) /\ ~Held(w)'
        BY <1>1, <2>2 DEF Held
      <3>2. destructs'[w] = destructs[w] + 1
        BY <2>2 DEF AfterDestruct, Destructed
      <3>3. destructs[w] = 0 /\ w \notin lost
        BY <1>1, <3>1 DEF Kept, Fresh
      <3> QED
        BY <3>1, <3>2, <3>3 DEF Kept
    <2>3. CASE w # v /\ ~(Active(b) /\ storage[b] = w)
      <3>1. Held(w)' <=> Held(w)
        BY <2>3 DEF Held
      <3>2. destructs'[w] = destructs[w]
        BY <2>3 DEF AfterDestruct, Destructed, Active
      <3> QED
        BY <1>1, <3>1, <3>2 DEF Kept, Fresh
    <2> QED
      BY <2>1, <2>2, <2>3
  <1>2. \A w \in explicit' : ~Fresh(w)'
    BY DEF Fresh, AfterDestruct, Destructed
  <1>3. \A c, d \in made' : Active(c)' /\ Active(d)' /\ storage'[c] = storage'[d] /\ storage'[c] \notin explicit' => c = d
    OBVIOUS
  <1> QED
    BY <1>1, <1>2, <1>3

\* Box b destructs its value, if it has one, and is not active any more.
LEMMA KeptDestruct ==
  ASSUME ConstructInv, BoxesInv', NEW b \in Box, Running, UNCHANGED <<lost, explicit>>,
         destructs' = AfterDestruct(b), ~Active(b)',
         \A c \in Box \ {b} : (Active(c)' <=> Active(c)) /\ (Active(c) => storage'[c] = storage[c])
  PROVE  ConstructInv'
  <1> USE DEF ConstructInv, BoxesInv
  <1>1. ASSUME NEW w \in Value \ explicit PROVE Kept(w)'
    <2>1. CASE Active(b) /\ storage[b] = w
      <3>1. Held(w) /\ ~Held(w)'
        BY <1>1, <2>1 DEF Held
      <3>2. destructs'[w] = destructs[w] + 1
        BY <2>1 DEF AfterDestruct, Destructed
      <3>3. destructs[w] = 0 /\ w \notin lost
        BY <1>1, <3>1 DEF Kept, Fresh
      <3> QED
        BY <3>1, <3>2, <3>3 DEF Kept
    <2>2. CASE ~(Active(b) /\ storage[b] = w)
      <3>1. Held(w)' <=> Held(w)
        BY <2>2 DEF Held
      <3>2. destructs'[w] = destructs[w]
        BY <2>2 DEF AfterDestruct, Destructed, Active
      <3> QED
        BY <1>1, <3>1, <3>2 DEF Kept, Fresh
    <2> QED
      BY <2>1, <2>2
  <1>2. \A w \in explicit' : ~Fresh(w)'
    BY DEF Fresh, AfterDestruct, Destructed
  <1>3. \A c, d \in made' : Active(c)' /\ Active(d)' /\ storage'[c] = storage'[d] /\ storage'[c] \notin explicit' => c = d
    OBVIOUS
  <1> QED
    BY <1>1, <1>2, <1>3

\* A variant's destruct() marks its value as explicitly destructed.
LEMMA KeptExplicit ==
  ASSUME ConstructInv, BoxesInv', NEW b \in Box, Running, DestructVariant(b)
  PROVE  ConstructInv'
  <1> USE DEF ConstructInv, BoxesInv
  <1>1. /\ Active(b) /\ destructs' = [destructs EXCEPT ![storage[b]] = @ + 1]
        /\ storage[b] \in Value
        /\ explicit' = explicit \cup {storage[b]} /\ UNCHANGED <<made, storage, status, lost>>
    BY DEF DestructVariant, AfterDestruct, Destructed
  <1>2. ASSUME NEW w \in Value \ explicit' PROVE Kept(w)'
    <2>1. destructs'[w] = destructs[w] /\ (Held(w)' <=> Held(w))
      BY <1>1, <1>2 DEF Held, Active
    <2> QED
      BY <1>1, <1>2, <2>1 DEF Kept, Fresh
  <1>3. \A w \in explicit' : ~Fresh(w)'
    BY <1>1 DEF Fresh
  <1>4. \A c, d \in made' : Active(c)' /\ Active(d)' /\ storage'[c] = storage'[d] /\ storage'[c] \notin explicit' => c = d
    BY <1>1 DEF Active
  <1> QED
    BY <1>2, <1>3, <1>4

\* The values of two boxes are moved between them, and none is dropped.
LEMMA KeptMoved ==
  ASSUME ConstructInv, BoxesInv', NEW b \in Box, NEW c \in Box, b # c,
         UNCHANGED <<destructs, lost, explicit>>,
         (Active(b)' <=> Active(c)) /\ (Active(c) => storage'[b] = storage[c]),
         (Active(c)' <=> Active(b)) /\ (Active(b) => storage'[c] = storage[b]),
         \A d \in Box \ {b, c} : (Active(d)' <=> Active(d)) /\ (Active(d) => storage'[d] = storage[d])
  PROVE  ConstructInv'
  <1> USE DEF ConstructInv, BoxesInv
  <1>1. ASSUME NEW v \in Value PROVE Held(v)' <=> Held(v)
    <2>1. ASSUME Held(v) PROVE Held(v)'
      <3>1. PICK d \in made : Active(d) /\ storage[d] = v
        BY <2>1 DEF Held
      <3>2. \E e \in Box : Active(e)' /\ storage'[e] = v
        BY <3>1
      <3> QED
        BY <3>2 DEF Held
    <2>2. ASSUME Held(v)' PROVE Held(v)
      <3>1. PICK d \in made' : Active(d)' /\ storage'[d] = v
        BY <2>2 DEF Held
      <3>2. \E e \in Box : Active(e) /\ storage[e] = v
        BY <3>1
      <3> QED
        BY <3>2 DEF Held
    <2> QED
      BY <2>1, <2>2
  <1>2. \A v \in Value \ explicit' : Kept(v)'
    BY <1>1 DEF Kept, Fresh
  <1>3. \A d, e \in made' : Active(d)' /\ Active(e)' /\ storage'[d] = storage'[e] /\ storage'[d] \notin explicit' => d = e
    <2> SUFFICES ASSUME NEW d \in made', NEW e \in made', Active(d)', Active(e)', storage'[d] = storage'[e],
                        storage'[d] \notin explicit'
                 PROVE  d = e
      OBVIOUS
    <2> DEFINE From(x) == IF x = b THEN c ELSE IF x = c THEN b ELSE x
    <2>1. \A x \in {d, e} : From(x) \in made /\ Active(From(x)) /\ storage[From(x)] = storage'[x]
      OBVIOUS
    <2>2. From(d) = From(e)
      BY <2>1
    <2> QED
      BY <2>2
  <1> QED
    BY <1>2, <1>3 DEF Fresh

\* swap of an inactive and an active variant: what the latter held is lost.
LEMMA KeptLost ==
  ASSUME ConstructInv, BoxesInv', NEW c \in Box, Active(c), ~Active(c)',
         UNCHANGED <<destructs, explicit>>, LoseUnheld, made \subseteq made', made' \subseteq Box,
         \A d \in Box \ {c} : (Active(d)' <=> Active(d)) /\ (Active(d) => storage'[d] = storage[d])
  PROVE  ConstructInv'
  <1> USE DEF ConstructInv, BoxesInv
  <1>1. ASSUME NEW v \in Value PROVE (Held(v) <=> Holders(v) # {}) /\ (Held(v)' <=> Holders(v)' # {})
    BY DEF Held, Holders
  <1>2. lost' = lost \cup {v \in Value : Held(v) /\ ~Held(v)'}
    BY <1>1 DEF LoseUnheld
  <1>3. ASSUME NEW v \in Value \ explicit PROVE Kept(v)'
    <2>1. CASE v = storage[c]
      <3>1. Held(v) /\ ~Held(v)'
        BY <1>3, <2>1 DEF Held
      <3> QED
        BY <1>2, <1>3, <3>1 DEF Kept, Fresh
    <2>2. CASE v # storage[c]
      <3>1. Held(v)' <=> Held(v)
        BY <2>2 DEF Held
      <3> QED
        BY <1>2, <1>3, <3>1 DEF Kept, Fresh
    <2> QED
      BY <2>1, <2>2
  <1>4. \A d, e \in made' : Active(d)' /\ Active(e)' /\ storage'[d] = storage'[e] /\ storage'[d] \notin explicit' => d = e
    OBVIOUS
  <1> QED
    BY <1>3, <1>4 DEF Fresh

\* Optional's move constructor: the new box gets a new value, the other's is lost.
LEMMA KeptMoveOptional ==
  ASSUME ConstructInv, BoxesInv', NEW b \in Box, NEW c \in Box, NEW v \in Value, MoveOptional(b, c, v)
  PROVE  ConstructInv'
  <1> USE DEF ConstructInv, BoxesInv
  <1>1. CASE ~Active(c)
    <2>1. UNCHANGED <<made, storage, status, destructs, lost, explicit>>
      BY <1>1 DEF MoveOptional
    <2> QED
      BY <2>1, KeptUnchanged DEF Active
  <1>2. CASE Active(c)
    <2>1. /\ b \notin made /\ c \in made /\ Fresh(v) /\ UNCHANGED explicit
          /\ made' = made \cup {b} /\ storage' = [storage EXCEPT ![b] = v]
          /\ destructs' = [destructs EXCEPT ![v] = 0]
          /\ status' = [status EXCEPT ![b] = "first", ![c] = "none"]
          /\ lost' = lost \cup {storage[c]}
      BY <1>2 DEF MoveOptional, ConstructIn
    <2>2. /\ b # c /\ ~Active(b) /\ Active(b)' /\ storage'[b] = v /\ ~Active(c)'
          /\ storage[c] \in Value /\ storage[c] # v
          /\ \A d \in Box \ {b, c} : (Active(d)' <=> Active(d)) /\ storage'[d] = storage[d]
      BY <1>2, <2>1 DEF Active
    <2>3. ASSUME NEW w \in Value \ explicit PROVE Kept(w)'
      <3>1. CASE w = v
        <4>1. Held(w)' /\ destructs'[w] = 0 /\ w \notin lost'
          BY <2>1, <2>2, <2>3, <3>1 DEF Held, Kept, Fresh
        <4> QED
          BY <4>1 DEF Kept
      <3>2. CASE w = storage[c]
        <4>1. Held(w) /\ ~Held(w)' /\ destructs'[w] = destructs[w] /\ w \in lost'
          BY <1>2, <2>1, <2>2, <2>3, <3>2 DEF Held
        <4> QED
          BY <2>3, <4>1 DEF Kept, Fresh
      <3>3. CASE w # v /\ w # storage[c]
        <4>1. (Held(w)' <=> Held(w)) /\ destructs'[w] = destructs[w] /\ (w \in lost' <=> w \in lost)
          BY <2>1, <2>2, <3>3 DEF Held
        <4> QED
          BY <2>3, <4>1 DEF Kept, Fresh
      <3> QED
        BY <3>1, <3>2, <3>3
    <2>4. \A d, e \in made' : Active(d)' /\ Active(e)' /\ storage'[d] = storage'[e] /\ storage'[d] \notin explicit' => d = e
      BY <2>1, <2>2
    <2>5. \A w \in explicit' : ~Fresh(w)'
      BY <2>1 DEF Fresh
    <2> QED
      BY <2>1, <2>3, <2>4, <2>5
  <1> QED
    BY <1>1, <1>2

\* Every operation of the three classes keeps the values.
LEMMA ConstructStep == ConstructInv /\ [Next]_vars => ConstructInv'
  <1> SUFFICES ASSUME ConstructInv, BoxesInv, BoxesInv', [Next]_vars PROVE ConstructInv'
    BY BoxesStep DEF ConstructInv
  <1>1. CASE UNCHANGED vars
    BY <1>1, KeptUnchanged DEF vars, Active
  <1> SUFFICES ASSUME Next PROVE ConstructInv'
    BY <1>1
  <1>2. Running
    BY DEF Next
  <1>3. ASSUME NEW b \in Box, b \notin made PROVE ~Active(b) /\ AfterDestruct(b) = destructs
    BY <1>3 DEF BoxesInv, AfterDestruct
  <1>4. ASSUME NEW b \in Box, MakeOptional(b) PROVE ConstructInv'
    <2>1. \A c \in Box : (Active(c)' <=> Active(c)) /\ storage'[c] = storage[c]
      BY <1>3, <1>4 DEF MakeOptional, Active, BoxesInv
    <2> QED
      BY <1>4, <2>1, KeptUnchanged DEF MakeOptional
  <1>5. ASSUME NEW b \in Box, DestructOptional(b) \/ DestroyOptional(b) \/ DestroyScoped(b) \/ DestroyVariant(b)
        PROVE  ConstructInv'
    <2>1. destructs' = AfterDestruct(b) /\ status' = [status EXCEPT ![b] = "none"] /\ UNCHANGED <<storage, lost, explicit>>
      BY <1>5 DEF DestructOptional, DestroyOptional, DestroyScoped, DestroyVariant
    <2>2. ~Active(b)' /\ \A c \in Box \ {b} : Active(c)' <=> Active(c)
      BY <2>1 DEF Active, BoxesInv
    <2> QED
      BY <1>2, <2>1, <2>2, KeptDestruct
  <1>6. ASSUME NEW b \in Box, NEW v \in Value, NEW type \in {"first", "second"}, Fresh(v),
               ConstructIn(b, v, AfterDestruct(b)), status' = [status EXCEPT ![b] = type],
               UNCHANGED <<lost, explicit>>
        PROVE  ConstructInv'
    <2>1. Active(b)' /\ storage'[b] = v
          /\ \A c \in Box \ {b} : (Active(c)' <=> Active(c)) /\ storage'[c] = storage[c]
      BY <1>6 DEF Active, BoxesInv, ConstructIn
    <2> QED
      BY <1>2, <1>6, <2>1, KeptConstruct DEF ConstructIn
  <1>7. ASSUME NEW b \in Box, NEW v \in Value, MakeOptionalOf(b, v) \/ MakeScoped(b, v) \/ Construct(b, v)
        PROVE  ConstructInv'
    BY <1>3, <1>6, <1>7 DEF MakeOptionalOf, MakeScoped, Construct
  <1>8. ASSUME NEW b \in Box, NEW c \in Box, NEW v \in Value, AssignOptional(b, c, v) PROVE ConstructInv'
    BY <1>7, <1>8, KeptUnchanged DEF AssignOptional, Active
  <1>9. ASSUME NEW b \in Box, NEW type \in {"first", "second"}, NEW v \in Value, MakeExpected(b, type, v)
        PROVE  ConstructInv'
    BY <1>3, <1>6, <1>9 DEF MakeExpected
  <1>10. ASSUME NEW b \in Box, NEW c \in Box, NEW v \in Value, CopyVariant(b, c, v) \/ AssignVariant(b, c, v)
         PROVE  ConstructInv'
    <2>1. CASE status[b] = status[c] /\ UNCHANGED <<storage, status, destructs>>
      BY <1>10, <2>1, KeptUnchanged DEF AssignVariant, CopyVariant, Active
    <2>2. CASE /\ ConstructFrom(b, c, v, AfterDestruct(b)) /\ UNCHANGED <<lost, explicit>>
               /\ status' = [status EXCEPT ![b] = status[c]]
      <3>1. CASE Active(c)
        <4>1. status[c] \in {"first", "second"}
          BY <3>1 DEF Active, BoxesInv, Status
        <4> QED
          BY <1>6, <2>2, <3>1, <4>1 DEF ConstructFrom
      <3>2. CASE ~Active(c)
        <4>1. destructs' = AfterDestruct(b) /\ UNCHANGED storage
          BY <2>2, <3>2 DEF ConstructFrom
        <4>2. ~Active(b)' /\ \A d \in Box \ {b} : Active(d)' <=> Active(d)
          BY <2>2, <3>2 DEF Active, BoxesInv
        <4> QED
          BY <1>2, <2>2, <4>1, <4>2, KeptDestruct
      <3> QED
        BY <3>1, <3>2
    <2> QED
      BY <1>3, <1>10, <2>1, <2>2 DEF CopyVariant, AssignVariant, TakeStatus
  <1>11. ASSUME NEW b \in Variant, NEW c \in Variant, MoveVariant(b, c) \/ SwapVariants(b, c) PROVE ConstructInv'
    <2>1. /\ b \in Box /\ c \in Box /\ c \in made /\ made' = made \cup {b}
          /\ Swap(b, c) /\ LoseUnheld /\ UNCHANGED <<destructs, explicit>>
      BY <1>11 DEF MoveVariant, SwapVariants, Box
    <2>2. made \subseteq made' /\ made' \subseteq Box
      BY <2>1 DEF BoxesInv
    <2>3. ASSUME \A d \in Box : (Active(d)' <=> Active(d)) /\ (Active(d) => storage'[d] = storage[d])
          PROVE  ConstructInv'
      <3>1. \A v \in Value : Holders(v) # {} => Holders(v)' # {}
        BY <2>2, <2>3 DEF Holders, BoxesInv
      <3>2. UNCHANGED lost
        BY <2>1, <3>1 DEF LoseUnheld
      <3> QED
        BY <2>1, <2>3, <3>2, KeptUnchanged
    <2>4. ASSUME NEW x \in Box, NEW y \in Box, x # y, IsActive(x), ~IsActive(y), Overwrite(x, y)
          PROVE  ConstructInv'
      <3>1. /\ Active(y) /\ ~Active(y)'
            /\ \A d \in Box \ {y} : (Active(d)' <=> Active(d)) /\ storage'[d] = storage[d]
        BY <2>4 DEF IsActive, Overwrite, Active, BoxesInv
      <3> QED
        BY <2>1, <2>2, <3>1, KeptLost
    <2>5. CASE IsActive(b) /\ IsActive(c) /\ Exchange(b, c)
      <3>1. \A d \in Box : (Active(d)' <=> Active(d)) /\ (Active(d) => storage'[d] = storage[d])
        BY <2>1, <2>5 DEF IsActive, Exchange, Active, BoxesInv
      <3> QED
        BY <2>3, <3>1
    <2>6. CASE UNCHANGED <<storage, status>>
      BY <2>3, <2>6 DEF Active
    <2> QED
      BY <2>1, <2>4, <2>5, <2>6 DEF Swap
  <1>12. ASSUME NEW b \in Box, NEW c \in Box, MoveScoped(b, c) \/ AssignScoped(b, c) PROVE ConstructInv'
    <2>1. UNCHANGED <<destructs, lost, explicit>>
      BY <1>12 DEF MoveScoped, AssignScoped
    <2>3. CASE b = c
      <3>1. AssignScoped(b, b)
        BY <1>12, <2>3 DEF MoveScoped
      <3>2. \A d \in Box : (Active(d)' <=> Active(d)) /\ (Active(d) => storage'[d] = storage[d])
        BY <3>1 DEF AssignScoped, Exchange, Active, BoxesInv
      <3>3. b \in made /\ made' = made \cup {b} /\ b \in Box
        BY <3>1 DEF AssignScoped, BoxesInv
      <3> QED
        BY <2>1, <3>2, <3>3, KeptUnchanged
    <2> SUFFICES ASSUME b # c PROVE ConstructInv'
      BY <2>3
    <2>2. /\ (Active(b)' <=> Active(c)) /\ (Active(c) => storage'[b] = storage[c])
          /\ (Active(c)' <=> Active(b)) /\ (Active(b) => storage'[c] = storage[b])
          /\ \A d \in Box \ {b, c} : (Active(d)' <=> Active(d)) /\ storage'[d] = storage[d]
      BY <1>3, <1>12, <2>1 DEF MoveScoped, ClearScoped, AssignScoped, Exchange, Active, BoxesInv
    <2> QED
      BY <2>1, <2>2, KeptMoved
  <1>13. Optional \subseteq Box /\ Variant \subseteq Box /\ Scoped \subseteq Box
    BY DEF Box
  <1>14. CASE OptionalNext
    BY <1>4, <1>5, <1>7, <1>8, <1>13, <1>14, KeptMoveOptional DEF OptionalNext
  <1>15. CASE VariantNext
    BY <1>2, <1>5, <1>9, <1>10, <1>11, <1>13, <1>15, KeptExplicit DEF VariantNext
  <1>16. CASE ScopedNext
    BY <1>5, <1>7, <1>12, <1>13, <1>16 DEF ScopedNext
  <1> QED
    BY <1>14, <1>15, <1>16 DEF Next

\* A value that was constructed is held by one box, was destructed once, or was
\* abandoned by a move, and never two of these, unless a variant's destruct() was
\* called on it.
THEOREM AlwaysConstructedOnce == Spec => []ConstructedOnce
  <1>1. Init => ConstructInv
    <2> SUFFICES ASSUME Init PROVE ConstructInv
      OBVIOUS
    <2>1. \A v \in Value : Fresh(v) /\ ~Held(v) /\ v \notin lost
      BY DEF Init, Fresh, Held
    <2> QED
      BY <2>1, BoxesInit DEF Init, ConstructInv, Kept
  <1>2. ConstructInv => ConstructedOnce
    <2> SUFFICES ASSUME ConstructInv, NEW v \in Value \ explicit, ~Fresh(v)
                 PROVE  Cardinality(Holders(v)) + destructs[v] + Cardinality({v} \cap lost) = 1
      BY DEF ConstructedOnce
    <2>1. Kept(v)
      BY DEF ConstructInv
    <2>2. v \in lost => {v} \cap lost = {v}
      OBVIOUS
    <2>3. v \notin lost => {v} \cap lost = {}
      OBVIOUS
    <2>4. Cardinality({v} \cap lost) = (IF v \in lost THEN 1 ELSE 0)
      BY <2>2, <2>3, FS_Singleton, FS_EmptySet
    <2>5. CASE Held(v)
      <3>1. PICK b \in made : Active(b) /\ storage[b] = v
        BY <2>5 DEF Held
      <3>2. Holders(v) = {b}
        BY <3>1 DEF Holders, ConstructInv
      <3>3. Cardinality(Holders(v)) = 1
        BY <3>2, FS_Singleton
      <3> QED
        BY <2>1, <2>4, <2>5, <3>3 DEF Kept
    <2>6. CASE ~Held(v)
      <3>1. Holders(v) = {}
        BY <2>6 DEF Holders, Held
      <3>2. Cardinality(Holders(v)) = 0
        BY <3>1, FS_EmptySet
      <3> QED
        BY <2>1, <2>4, <2>6, <3>2 DEF Kept
    <2> QED
      BY <2>5, <2>6
  <1> QED
    BY <1>1, <1>2, ConstructStep, PTL DEF Spec

-----------------------------------------------------------------------------
(* Pointers.                                                               *)

PointerObject == [mPointer : Object \cup {Null}, mReference : Reference \cup {Null}]

\* The slot deletes o when it is destroyed: a unique pointer to o, or a shared
\* one without a reference.
Owns(s, o) ==
  /\ slot[s] # NotMade /\ slot[s].mPointer = o
  /\ s \in P!UniqueLike \/ slot[s].mReference = Null

Owned(o) == \E s \in P!Slot : Owns(s, o)

\* Pointers point to objects that exist, and a reference that is in use was
\* counted, which no operation takes back.
SlotsInv ==
  /\ slot \in [P!Slot -> PointerObject \cup {NotMade}]
  /\ weak \in [Weak -> Reference \cup {NotMade}]
  /\ mReferenceCount \in [Reference -> Nat]
  /\ raw \subseteq Object /\ freed \subseteq Reference
  /\ deletions \in [Object -> -1 .. 2]
  /\ \A o \in raw : deletions[o] # -1
  /\ \A s \in P!Slot : slot[s] # NotMade =>
       /\ slot[s].mPointer # Null => deletions[slot[s].mPointer] # -1
       /\ slot[s].mReference # Null => mReferenceCount[slot[s].mReference] # 0
  /\ \A w \in Weak : weak[w] # NotMade => mReferenceCount[weak[w]] # 0
  /\ \A r \in freed : mReferenceCount[r] # 0

\* A reference of an object that is not spoiled was not freed under it.
ReferencesLive ==
  \A s \in P!Slot : slot[s] # NotMade /\ slot[s].mPointer \notin spoiled \cup {Null} => slot[s].mReference \notin freed

\* An object is owned by a slot, by a plain pointer, or was deleted.
PointerKept(o) ==
  \/ deletions[o] = 0 /\ Owned(o) /\ o \notin raw
  \/ deletions[o] = 0 /\ ~Owned(o) /\ o \in raw
  \/ deletions[o] = 1 /\ ~Owned(o) /\ o \notin raw

\* What OwnedOnce needs: no two slots own one object.
PointerInv ==
  /\ SlotsInv /\ ReferencesLive
  /\ ~stopped =>
       \A o \in Object \ spoiled : deletions[o] # -1 =>
         /\ PointerKept(o)
         /\ \A s, t \in P!Slot : Owns(s, o) /\ Owns(t, o) => s = t

\* The classes of the slots.
LEMMA SlotClasses ==
  /\ P!Slot = P!SharedLike \cup P!UniqueLike /\ P!SharedLike \cap P!UniqueLike = {}
  /\ Shared \subseteq P!SharedLike /\ Callback \ OfUnique \subseteq P!SharedLike
  /\ Unique \subseteq P!UniqueLike /\ OfUnique \subseteq P!UniqueLike
  BY PointersAssumption DEF P!Slot, P!SharedLike, P!UniqueLike

\* decreaseCount of a shared pointer deletes an object that is not spoiled
\* exactly when that pointer owns it.
LEMMA DecreaseDeletes ==
  ASSUME PointerInv, P!Running, NEW s \in P!SharedLike, slot[s] # NotMade, P!DecreaseCount(slot[s]), ~stopped',
         NEW o \in Object \ spoiled
  PROVE  deletions'[o] = IF Owns(s, o) THEN deletions[o] + 1 ELSE deletions[o]
  <1> USE PointersAssumption, SlotClasses
  <1>1. slot[s] \in PointerObject
    BY DEF PointerInv, SlotsInv
  <1>2. CASE slot[s].mPointer # o
    BY <1>1, <1>2 DEF P!DecreaseCount, P!Delete, Owns, PointerObject, PointerInv, SlotsInv
  <1>3. CASE slot[s].mPointer = o /\ slot[s].mReference = Null
    BY <1>1, <1>3 DEF P!DecreaseCount, P!Delete, Owns, PointerObject, PointerInv, SlotsInv
  <1>4. CASE slot[s].mPointer = o /\ slot[s].mReference # Null
    <2>1. slot[s].mReference \notin freed /\ mReferenceCount[slot[s].mReference] # 0
      BY <1>1, <1>4 DEF PointerInv, SlotsInv, ReferencesLive
    <2> QED
      BY <1>4, <2>1 DEF P!DecreaseCount, P!Delete, Owns
  <1> QED
    BY <1>2, <1>3, <1>4

\* decreaseCount deletes objects that exist, at most once.
LEMMA DecreaseTypes ==
  ASSUME SlotsInv, P!Running, NEW s \in P!Slot, slot[s] # NotMade, P!DecreaseCount(slot[s])
  PROVE  /\ deletions' \in [Object -> -1 .. 2] /\ \A o \in Object : deletions'[o] = -1 <=> deletions[o] = -1
  <1> USE PointersAssumption
  <1>1. slot[s] \in PointerObject
    BY DEF SlotsInv
  <1> QED
    BY <1>1 DEF P!DecreaseCount, P!Delete, PointerObject, SlotsInv, P!Running

\* increaseCount puts p into slot s, with a counted reference if p points to an
\* object: the new pointer owns nothing.
LEMMA IncreaseShares ==
  ASSUME SlotsInv, NEW s \in P!SharedLike, NEW p \in PointerObject, P!IncreaseCount(s, p),
         p.mReference # Null => mReferenceCount[p.mReference] # 0
  PROVE  \E q \in PointerObject :
           /\ slot' = [slot EXCEPT ![s] = q] /\ q.mPointer = p.mPointer
           /\ p.mPointer # Null => q.mReference # Null
           /\ q.mReference = p.mReference \/ q.mReference \notin freed
           /\ mReferenceCount' \in [Reference -> Nat]
           /\ \A r \in Reference : mReferenceCount[r] # 0 => mReferenceCount'[r] # 0
           /\ q.mReference # Null => mReferenceCount'[q.mReference] # 0
  <1> USE PointersAssumption, SlotClasses
  <1>1. CASE p.mPointer = Null
    BY <1>1 DEF P!IncreaseCount, SlotsInv, PointerObject
  <1>2. CASE p.mPointer # Null /\ p.mReference = Null
    <2> DEFINE r == CHOOSE x \in P!FreshReference : TRUE
    <2>1. r \in P!FreshReference
      BY <1>2 DEF P!IncreaseCount
    <2>2. r \in Reference /\ mReferenceCount[r] = 0
      BY <2>1 DEF P!FreshReference
    <2>3. slot' = [slot EXCEPT ![s] = P!PointerTo(p.mPointer, r)] /\ mReferenceCount' = [mReferenceCount EXCEPT ![r] = 1]
      BY <1>2 DEF P!IncreaseCount
    <2> HIDE DEF r
    <2>4. PICK q : q = P!PointerTo(p.mPointer, r)
      OBVIOUS
    <2>5. q \in PointerObject /\ q.mPointer = p.mPointer /\ q.mReference = r
      BY <2>2, <2>4 DEF PointerObject, P!PointerTo
    <2>6. mReferenceCount' \in [Reference -> Nat] /\ mReferenceCount'[r] # 0
          /\ \A x \in Reference : mReferenceCount[x] # 0 => mReferenceCount'[x] # 0
      BY <2>2, <2>3 DEF SlotsInv
    <2>7. r \notin freed /\ r # Null
      BY <2>2 DEF SlotsInv
    <2>8. slot' = [slot EXCEPT ![s] = q]
      BY <2>3, <2>4
    <2>9. q.mReference = p.mReference \/ q.mReference \notin freed
      BY <2>5, <2>7
    <2> QED
      BY <2>5, <2>6, <2>7, <2>8, <2>9
  <1>3. CASE p.mPointer # Null /\ p.mReference # Null
    BY <1>3 DEF P!IncreaseCount, SlotsInv, PointerObject
  <1> QED
    BY <1>1, <1>2, <1>3

\* Every step keeps the pointers, the counts and the objects in step.
LEMMA SlotsStep ==
  ASSUME SlotsInv, P!Next
  PROVE  SlotsInv'
  <1> USE PointersAssumption, SlotClasses
  <1>0. P!Nothing \in PointerObject /\ P!Nothing.mPointer = Null /\ P!Nothing.mReference = Null
        /\ \A o \in Object : P!PointerTo(o, Null) \in PointerObject /\ P!PointerTo(o, Null).mPointer = o
                             /\ P!PointerTo(o, Null).mReference = Null
    BY DEF P!Nothing, P!PointerTo, PointerObject
  <1>1. ASSUME NEW s \in P!Slot, P!MakeEmpty(s) PROVE SlotsInv'
    BY <1>0, <1>1 DEF P!MakeEmpty, SlotsInv, P!counts
  <1>2. ASSUME NEW s \in P!Slot, NEW o \in Object, P!MakeNew(s, o) PROVE SlotsInv'
    <2>1. deletions' \in [Object -> -1 .. 2] /\ \A x \in Object : deletions[x] # -1 => deletions'[x] # -1
      BY <1>2 DEF P!MakeNew, P!New, SlotsInv, P!Allocated
    <2>2. deletions'[o] # -1 /\ slot' = [slot EXCEPT ![s] = P!PointerTo(o, Null)]
      BY <1>2 DEF P!MakeNew, P!New, SlotsInv
    <2> QED
      BY <1>0, <1>2, <2>1, <2>2 DEF P!MakeNew, SlotsInv, PointerObject, P!counts
  <1>3. ASSUME NEW s \in P!Slot, NEW t \in P!Slot, P!MoveFrom(s, t) PROVE SlotsInv'
    BY <1>0, <1>3 DEF P!MoveFrom, SlotsInv, P!counts, P!Made
  <1>4. ASSUME NEW s \in P!SharedLike, NEW t \in P!Slot, P!CopyShared(s, t) PROVE SlotsInv'
    <2>1. slot[t] \in PointerObject /\ (slot[t].mReference # Null => mReferenceCount[slot[t].mReference] # 0)
      BY <1>4 DEF P!CopyShared, P!Made, SlotsInv
    <2>2. PICK q \in PointerObject :
           /\ slot' = [slot EXCEPT ![s] = q] /\ q.mPointer = slot[t].mPointer
           /\ mReferenceCount' \in [Reference -> Nat]
           /\ \A r \in Reference : mReferenceCount[r] # 0 => mReferenceCount'[r] # 0
           /\ q.mReference # Null => mReferenceCount'[q.mReference] # 0
      BY <1>4, <2>1, IncreaseShares DEF P!CopyShared
    <2>3. q.mPointer # Null => deletions[q.mPointer] # -1
      BY <1>4, <2>2 DEF P!CopyShared, P!Made, SlotsInv
    <2>4. \A x \in P!Slot : slot[x] # NotMade /\ slot[x].mReference # Null => mReferenceCount'[slot[x].mReference] # 0
      BY <2>2 DEF SlotsInv, PointerObject
    <2> QED
      BY <1>4, <2>2, <2>3, <2>4 DEF P!CopyShared, SlotsInv
  <1>5. ASSUME NEW s \in P!Slot, P!DestroyShared(s) PROVE SlotsInv'
    <2>1. deletions' \in [Object -> -1 .. 2] /\ \A o \in Object : deletions'[o] = -1 <=> deletions[o] = -1
      BY <1>5, DecreaseTypes DEF P!DestroyShared, P!Made, P!Next
    <2> QED
      BY <1>5, <2>1 DEF P!DestroyShared, SlotsInv, PointerObject, P!counts
  <1>6. ASSUME NEW s \in P!Slot, NEW t \in P!Slot, P!AssignMoved(s, t) PROVE SlotsInv'
    <2>1. deletions' \in [Object -> -1 .. 2] /\ \A o \in Object : deletions'[o] = -1 <=> deletions[o] = -1
      BY <1>6, DecreaseTypes DEF P!AssignMoved, P!Made, P!Next
    <2> QED
      BY <1>0, <1>6, <2>1 DEF P!AssignMoved, SlotsInv, PointerObject, P!counts, P!Made
  <1>7. ASSUME NEW s \in P!SharedLike, NEW t \in P!Slot, P!AssignCopied(s, t) PROVE SlotsInv'
    <2>0. deletions' \in [Object -> -1 .. 2] /\ \A o \in Object : deletions'[o] = -1 <=> deletions[o] = -1
      BY <1>7, DecreaseTypes DEF P!AssignCopied, P!Made, P!Next
    <2>1. slot[t] \in PointerObject /\ (slot[t].mReference # Null => mReferenceCount[slot[t].mReference] # 0)
      BY <1>7 DEF P!AssignCopied, P!Made, SlotsInv
    <2>2. PICK q \in PointerObject :
           /\ slot' = [slot EXCEPT ![s] = q] /\ q.mPointer = slot[t].mPointer
           /\ mReferenceCount' \in [Reference -> Nat]
           /\ \A r \in Reference : mReferenceCount[r] # 0 => mReferenceCount'[r] # 0
           /\ q.mReference # Null => mReferenceCount'[q.mReference] # 0
      BY <1>7, <2>1, IncreaseShares DEF P!AssignCopied
    <2>3. q.mPointer # Null => deletions'[q.mPointer] # -1
      BY <1>7, <2>0, <2>2 DEF P!AssignCopied, P!Made, SlotsInv, PointerObject
    <2>4. \A x \in P!Slot : slot[x] # NotMade =>
             /\ slot[x].mReference # Null => mReferenceCount'[slot[x].mReference] # 0
             /\ slot[x].mPointer # Null => deletions'[slot[x].mPointer] # -1
      BY <2>0, <2>2 DEF SlotsInv, PointerObject
    <2> QED
      BY <1>7, <2>0, <2>2, <2>3, <2>4 DEF P!AssignCopied, SlotsInv
  <1>8. ASSUME NEW s \in P!Slot, NEW t \in P!Slot, P!SwapReferences(s, t) \/ P!CopyReference(s, t) PROVE SlotsInv'
    BY <1>8 DEF P!SwapReferences, P!CopyReference, SlotsInv, PointerObject, P!counts, P!Made
  <1>9. ASSUME NEW w \in Weak, P!DestroyWeak(w) PROVE SlotsInv'
    BY <1>9 DEF P!DestroyWeak, SlotsInv
  <1>10. ASSUME NEW w \in Weak, NEW s \in P!Slot, P!MakeWeak(w, s) PROVE SlotsInv'
    BY <1>10 DEF P!MakeWeak, SlotsInv, P!Made, PointerObject
  <1>11. ASSUME NEW s \in P!Slot, P!Made(s),
                \/ slot[s].mPointer = Null /\ UNCHANGED <<deletions, stopped>>
                \/ slot[s].mPointer # Null /\ P!Delete(slot[s].mPointer)
         PROVE  deletions' \in [Object -> -1 .. 2] /\ \A o \in Object : deletions'[o] = -1 <=> deletions[o] = -1
    <2>1. P!Running /\ slot[s] \in PointerObject
      BY <1>11 DEF P!Next, P!Made, SlotsInv
    <2> QED
      BY <1>11, <2>1 DEF P!Delete, SlotsInv, PointerObject, P!Running, P!Made
  <1>12. ASSUME NEW s \in P!Slot, P!DestroyUnique(s) PROVE SlotsInv'
    <2>1. deletions' \in [Object -> -1 .. 2] /\ \A o \in Object : deletions'[o] = -1 <=> deletions[o] = -1
      BY <1>11, <1>12 DEF P!DestroyUnique
    <2> QED
      BY <1>12, <2>1 DEF P!DestroyUnique, SlotsInv, PointerObject, P!counts
  <1>13. ASSUME NEW s \in P!Slot, NEW t \in P!Slot, P!AssignUnique(s, t) PROVE SlotsInv'
    <2>1. deletions' \in [Object -> -1 .. 2] /\ \A o \in Object : deletions'[o] = -1 <=> deletions[o] = -1
      BY <1>11, <1>13 DEF P!AssignUnique
    <2> QED
      BY <1>0, <1>13, <2>1 DEF P!AssignUnique, P!TakeOther, SlotsInv, PointerObject, P!counts, P!Made
  <1>14. ASSUME NEW s \in P!Slot, NEW o \in Object, P!TakePointer(s, o) PROVE SlotsInv'
    <2>1. deletions' \in [Object -> -1 .. 2] /\ \A x \in Object : deletions'[x] = -1 <=> deletions[x] = -1
      BY <1>11, <1>14 DEF P!TakePointer, P!Reset, SlotsInv
    <2>2. slot' = [slot EXCEPT ![s] = P!PointerTo(o, Null)]
      BY <1>14 DEF P!TakePointer, P!Reset
    <2> QED
      BY <1>0, <1>14, <2>1, <2>2 DEF P!TakePointer, SlotsInv, PointerObject, P!counts
  <1>15. ASSUME NEW s \in P!Slot, P!Release(s) PROVE SlotsInv'
    BY <1>0, <1>15 DEF P!Release, SlotsInv, PointerObject, P!counts, P!Made
  <1> QED
    BY <1>1, <1>2, <1>3, <1>4, <1>5, <1>6, <1>7, <1>8, <1>9, <1>10, <1>12, <1>13, <1>14, <1>15
    DEF P!Next, P!FromUnique, P!FromShared, P!Slot, P!SharedLike

\* Only the last weak pointer of a reference frees it, and it spoils the objects
\* that are still counted by it.
LEMMA ReferencesStep ==
  ASSUME PointerInv, P!Next
  PROVE  ReferencesLive'
  <1> USE PointersAssumption, SlotClasses
  <1>0. SlotsInv /\ ReferencesLive
    BY DEF PointerInv
  <1>1. P!Nothing.mPointer = Null /\ \A o : P!PointerTo(o, Null).mReference = Null
    BY DEF P!Nothing, P!PointerTo
  <1>2. ASSUME NEW s \in P!Slot, P!MakeEmpty(s) \/ P!DestroyShared(s) \/ P!DestroyUnique(s) \/ P!Release(s)
        PROVE  ReferencesLive'
    BY <1>0, <1>1, <1>2 DEF P!MakeEmpty, P!DestroyShared, P!DestroyUnique, P!Release, SlotsInv, ReferencesLive, P!counts
  <1>3. ASSUME NEW s \in P!Slot, NEW o \in Object, P!MakeNew(s, o) \/ P!TakePointer(s, o) PROVE ReferencesLive'
    <2>1. slot' = [slot EXCEPT ![s] = P!PointerTo(o, Null)] /\ UNCHANGED <<freed, spoiled>>
      BY <1>3 DEF P!MakeNew, P!TakePointer, P!Reset
    <2> QED
      BY <1>0, <1>1, <2>1 DEF SlotsInv, ReferencesLive
  <1>4. ASSUME NEW s \in P!Slot, NEW t \in P!Slot, P!MoveFrom(s, t) \/ P!AssignMoved(s, t) \/ P!AssignUnique(s, t)
        PROVE  ReferencesLive'
    <2>1. slot' = [slot EXCEPT ![s] = slot[t], ![t] = P!Nothing] /\ UNCHANGED <<freed, spoiled>> /\ slot[t] # NotMade
      BY <1>4 DEF P!MoveFrom, P!AssignMoved, P!AssignUnique, P!TakeOther, P!Made
    <2> QED
      BY <1>0, <1>1, <2>1 DEF SlotsInv, ReferencesLive
  <1>5. ASSUME NEW s \in P!SharedLike, NEW t \in P!Slot, P!CopyShared(s, t) \/ P!AssignCopied(s, t) PROVE ReferencesLive'
    <2>1. /\ UNCHANGED <<freed, spoiled>> /\ slot[t] # NotMade /\ P!IncreaseCount(s, slot[t])
          /\ slot[t] \in PointerObject /\ (slot[t].mReference # Null => mReferenceCount[slot[t].mReference] # 0)
      BY <1>0, <1>5 DEF P!CopyShared, P!AssignCopied, P!Made, SlotsInv
    <2>2. PICK q \in PointerObject :
            /\ slot' = [slot EXCEPT ![s] = q] /\ q.mPointer = slot[t].mPointer
            /\ q.mReference = slot[t].mReference \/ q.mReference \notin freed
      BY <1>0, <2>1, IncreaseShares
    <2> QED
      BY <1>0, <2>1, <2>2 DEF SlotsInv, ReferencesLive
  <1>6. ASSUME NEW s \in P!Slot, NEW t \in P!Slot, P!SwapReferences(s, t) \/ P!CopyReference(s, t) PROVE ReferencesLive'
    <2>1. /\ spoiled' = spoiled \cup ({slot[s].mPointer, slot[t].mPointer} \ {Null}) /\ UNCHANGED freed
          /\ \A x \in P!Slot \ {s, t} : slot'[x] = slot[x]
          /\ slot'[s].mPointer = slot[s].mPointer /\ slot'[t].mPointer = slot[t].mPointer
      BY <1>0, <1>6 DEF P!SwapReferences, P!CopyReference, P!Spoil, SlotsInv, PointerObject, P!Made
    <2> QED
      BY <1>0, <2>1 DEF ReferencesLive
  <1>7. ASSUME NEW w \in Weak, P!DestroyWeak(w) PROVE ReferencesLive'
    <2>1. CASE UNCHANGED <<freed, spoiled>>
      BY <1>0, <1>7, <2>1 DEF P!DestroyWeak, ReferencesLive
    <2>2. CASE /\ freed' = freed \cup {weak[w]}
               /\ P!Spoil({slot[s].mPointer : s \in {x \in P!Slot : P!Made(x) /\ slot[x].mReference = weak[w]}})
      BY <1>0, <1>7, <2>2 DEF P!DestroyWeak, P!Spoil, P!Made, ReferencesLive
    <2> QED
      BY <1>7, <2>1, <2>2 DEF P!DestroyWeak
  <1>8. ASSUME NEW w \in Weak, NEW s \in P!Slot, P!MakeWeak(w, s) PROVE ReferencesLive'
    BY <1>0, <1>8 DEF P!MakeWeak, ReferencesLive
  <1> QED
    BY <1>2, <1>3, <1>4, <1>5, <1>6, <1>7, <1>8
    DEF P!Next, P!FromUnique, P!FromShared, P!Slot, P!SharedLike

\* What PointerInv says of one object.
OneOwner(o) == PointerKept(o) /\ \A s, t \in P!Slot : Owns(s, o) /\ Owns(t, o) => s = t

\* An object whose owner a step does not touch keeps it.
LEMMA OwnerStays ==
  ASSUME NEW o, OneOwner(o), deletions'[o] = deletions[o], o \in raw' <=> o \in raw,
         \A x \in P!Slot : Owns(x, o)' <=> Owns(x, o)
  PROVE  OneOwner(o)'
  BY DEF OneOwner, PointerKept, Owned

\* An object that moves from slot t to slot s, which owns nothing, has one owner.
LEMMA OwnerMoves ==
  ASSUME NEW o, OneOwner(o), deletions'[o] = deletions[o], o \in raw' <=> o \in raw,
         NEW s \in P!Slot, NEW t \in P!Slot, ~Owns(s, o), Owns(s, o)' <=> Owns(t, o), ~Owns(t, o)',
         \A x \in P!Slot \ {s, t} : Owns(x, o)' <=> Owns(x, o)
  PROVE  OneOwner(o)'
  BY DEF OneOwner, PointerKept, Owned

\* The last owner of an object deletes it.
LEMMA OwnerDeletes ==
  ASSUME NEW o, OneOwner(o), deletions'[o] = deletions[o] + 1, o \in raw' <=> o \in raw,
         NEW s \in P!Slot, Owns(s, o), \A x \in P!Slot : ~Owns(x, o)'
  PROVE  OneOwner(o)'
  <1>1. deletions[o] = 0 /\ o \notin raw
    BY DEF OneOwner, PointerKept, Owned
  <1> QED
    BY <1>1 DEF OneOwner, PointerKept, Owned

\* Every step leaves an object that is not spoiled one owner, or deletes it once.
LEMMA OwnersStep ==
  ASSUME PointerInv, P!Next, ~stopped', NEW o \in Object \ spoiled', deletions'[o] # -1
  PROVE  OneOwner(o)'
  <1> USE PointersAssumption, SlotClasses
  <1>0. SlotsInv /\ P!Running /\ ~stopped /\ SlotsInv'
    BY SlotsStep DEF PointerInv, P!Next, P!Running
  <1>1. o \notin spoiled => (deletions[o] # -1 => OneOwner(o))
    BY <1>0 DEF PointerInv, OneOwner
  <1>2. P!Nothing.mPointer = Null /\ P!Nothing # NotMade
        /\ \A x \in Object : P!PointerTo(x, Null).mPointer = x /\ P!PointerTo(x, Null).mReference = Null
                             /\ P!PointerTo(x, Null) # NotMade
    BY DEF P!Nothing, P!PointerTo, PointerObject
  <1>3. ASSUME NEW s \in P!Slot, P!MakeEmpty(s) PROVE OneOwner(o)'
    <2>1. \A x \in P!Slot : Owns(x, o)' <=> Owns(x, o)
      BY <1>0, <1>2, <1>3 DEF P!MakeEmpty, P!FreeSlot, P!Made, Owns, SlotsInv
    <2> QED
      BY <1>1, <1>3, <2>1, OwnerStays DEF P!MakeEmpty
  <1>4. ASSUME NEW s \in P!Slot, NEW n \in Object, P!MakeNew(s, n) PROVE OneOwner(o)'
    <2>1. slot' = [slot EXCEPT ![s] = P!PointerTo(n, Null)] /\ slot[s] = NotMade /\ UNCHANGED <<raw, spoiled>>
      BY <1>4 DEF P!MakeNew, P!FreeSlot, P!Made
    <2>2. deletions[n] = -1 /\ deletions' = [deletions EXCEPT ![n] = 0]
      BY <1>0, <1>4 DEF P!MakeNew, P!New, P!Allocated, SlotsInv
    <2>3. CASE o = n
      <3>1. n \notin raw /\ \A x \in P!Slot : ~Owns(x, n)
        BY <1>0, <2>2 DEF SlotsInv, Owns
      <3>2. \A x \in P!Slot : Owns(x, n)' <=> x = s
        BY <1>0, <1>2, <2>1, <3>1 DEF SlotsInv, Owns
      <3>3. deletions'[n] = 0
        BY <1>0, <2>2 DEF SlotsInv
      <3> QED
        BY <2>1, <2>3, <3>1, <3>2, <3>3 DEF OneOwner, PointerKept, Owned
    <2>4. CASE o # n
      <3>1. \A x \in P!Slot : Owns(x, o)' <=> Owns(x, o)
        BY <1>0, <1>2, <2>1, <2>4 DEF SlotsInv, Owns
      <3>2. deletions'[o] = deletions[o]
        BY <1>0, <2>2, <2>4 DEF SlotsInv
      <3> QED
        BY <1>1, <2>1, <3>1, <3>2, OwnerStays
    <2> QED
      BY <2>3, <2>4
  <1>5. ASSUME NEW s \in P!Slot, NEW t \in P!Slot, s \in P!UniqueLike <=> t \in P!UniqueLike, P!MoveFrom(s, t)
        PROVE  OneOwner(o)'
    <2>1. slot' = [slot EXCEPT ![s] = slot[t], ![t] = P!Nothing] /\ slot[s] = NotMade /\ s # t
          /\ UNCHANGED <<raw, deletions, spoiled>>
      BY <1>5 DEF P!MoveFrom, P!FreeSlot, P!Made
    <2>2. /\ ~Owns(s, o) /\ (Owns(s, o)' <=> Owns(t, o)) /\ ~Owns(t, o)'
          /\ \A x \in P!Slot \ {s, t} : Owns(x, o)' <=> Owns(x, o)
      BY <1>0, <1>2, <1>5, <2>1 DEF Owns, SlotsInv
    <2> QED
      BY <1>1, <2>1, <2>2, OwnerMoves
  <1>6. ASSUME NEW s \in P!SharedLike, NEW t \in P!SharedLike, P!CopyShared(s, t) PROVE OneOwner(o)'
    <2>1. slot[t] \in PointerObject /\ (slot[t].mReference # Null => mReferenceCount[slot[t].mReference] # 0)
      BY <1>0, <1>6 DEF P!CopyShared, P!Made, SlotsInv
    <2>2. PICK q \in PointerObject :
            slot' = [slot EXCEPT ![s] = q] /\ q.mPointer = slot[t].mPointer /\ (slot[t].mPointer # Null => q.mReference # Null)
      BY <1>0, <1>6, <2>1, IncreaseShares DEF P!CopyShared
    <2>3. slot[s] = NotMade
      BY <1>6 DEF P!CopyShared, P!FreeSlot, P!Made
    <2>4. \A x \in P!Slot : Owns(x, o)' <=> Owns(x, o)
      BY <1>0, <2>2, <2>3 DEF Owns, SlotsInv
    <2> QED
      BY <1>1, <1>6, <2>4, OwnerStays DEF P!CopyShared
  <1>7. ASSUME NEW s \in P!SharedLike, P!DestroyShared(s) PROVE OneOwner(o)'
    <2>1. slot' = [slot EXCEPT ![s] = NotMade] /\ slot[s] # NotMade /\ UNCHANGED <<raw, spoiled>>
      BY <1>7 DEF P!DestroyShared, P!Made
    <2>2. deletions'[o] = IF Owns(s, o) THEN deletions[o] + 1 ELSE deletions[o]
      BY <1>0, <1>7, <2>1, DecreaseDeletes DEF P!DestroyShared
    <2>3. deletions[o] # -1
      BY <1>0, <2>1, <2>2 DEF Owns, SlotsInv
    <2>4. ~Owns(s, o)' /\ \A x \in P!Slot \ {s} : Owns(x, o)' <=> Owns(x, o)
      BY <1>0, <2>1 DEF Owns, SlotsInv
    <2>5. CASE Owns(s, o)
      <3>1. \A x \in P!Slot : ~Owns(x, o)'
        BY <1>1, <2>1, <2>3, <2>4, <2>5 DEF OneOwner
      <3> QED
        BY <1>1, <2>1, <2>2, <2>3, <2>5, <3>1, OwnerDeletes
    <2>6. CASE ~Owns(s, o)
      BY <1>1, <2>1, <2>2, <2>3, <2>4, <2>6, OwnerStays
    <2> QED
      BY <2>5, <2>6
  <1>8. ASSUME NEW s \in P!SharedLike, NEW t \in P!SharedLike, P!AssignMoved(s, t) PROVE OneOwner(o)'
    <2>1. slot' = [slot EXCEPT ![s] = slot[t], ![t] = P!Nothing] /\ s # t /\ slot[s] # NotMade /\ slot[t] # NotMade
          /\ UNCHANGED <<raw, spoiled>>
      BY <1>8 DEF P!AssignMoved, P!Made
    <2>2. deletions'[o] = IF Owns(s, o) THEN deletions[o] + 1 ELSE deletions[o]
      BY <1>0, <1>8, <2>1, DecreaseDeletes DEF P!AssignMoved
    <2>3. deletions[o] # -1
      BY <1>0, <2>1, <2>2 DEF Owns, SlotsInv
    <2>4. (Owns(s, o)' <=> Owns(t, o)) /\ ~Owns(t, o)' /\ \A x \in P!Slot \ {s, t} : Owns(x, o)' <=> Owns(x, o)
      BY <1>0, <1>2, <2>1 DEF Owns, SlotsInv
    <2>5. CASE Owns(s, o)
      <3>1. \A x \in P!Slot : ~Owns(x, o)'
        BY <1>1, <2>1, <2>3, <2>4, <2>5 DEF OneOwner
      <3> QED
        BY <1>1, <2>1, <2>2, <2>3, <2>5, <3>1, OwnerDeletes
    <2>6. CASE ~Owns(s, o)
      BY <1>1, <2>1, <2>2, <2>3, <2>4, <2>6, OwnerMoves
    <2> QED
      BY <2>5, <2>6
  <1>9. ASSUME NEW s \in P!SharedLike, NEW t \in P!SharedLike, P!AssignCopied(s, t) PROVE OneOwner(o)'
    <2>0. slot[t] \in PointerObject /\ (slot[t].mReference # Null => mReferenceCount[slot[t].mReference] # 0)
      BY <1>0, <1>9 DEF P!AssignCopied, P!Made, SlotsInv
    <2>1. s # t /\ slot[s] # NotMade /\ UNCHANGED <<raw, spoiled>>
      BY <1>9 DEF P!AssignCopied, P!Made
    <2>2. deletions'[o] = IF Owns(s, o) THEN deletions[o] + 1 ELSE deletions[o]
      BY <1>0, <1>9, <2>1, DecreaseDeletes DEF P!AssignCopied
    <2>3. deletions[o] # -1
      BY <1>0, <2>1, <2>2 DEF Owns, SlotsInv
    <2>4. PICK q \in PointerObject :
            slot' = [slot EXCEPT ![s] = q] /\ q.mPointer = slot[t].mPointer /\ (slot[t].mPointer # Null => q.mReference # Null)
      BY <1>0, <1>9, <2>0, IncreaseShares DEF P!AssignCopied
    <2>5. ~Owns(s, o)' /\ \A x \in P!Slot \ {s} : Owns(x, o)' <=> Owns(x, o)
      BY <1>0, <2>4 DEF Owns, SlotsInv
    <2>6. CASE Owns(s, o)
      <3>1. \A x \in P!Slot : ~Owns(x, o)'
        BY <1>1, <2>1, <2>3, <2>5, <2>6 DEF OneOwner
      <3> QED
        BY <1>1, <2>1, <2>2, <2>3, <2>6, <3>1, OwnerDeletes
    <2>7. CASE ~Owns(s, o)
      BY <1>1, <2>1, <2>2, <2>3, <2>5, <2>7, OwnerStays
    <2> QED
      BY <2>6, <2>7
  <1>10. ASSUME NEW s \in P!Slot, NEW t \in P!Slot, P!SwapReferences(s, t) \/ P!CopyReference(s, t) PROVE OneOwner(o)'
    <2>1. /\ spoiled' = spoiled \cup ({slot[s].mPointer, slot[t].mPointer} \ {Null}) /\ UNCHANGED <<raw, deletions>>
          /\ \A x \in P!Slot \ {s, t} : slot'[x] = slot[x]
          /\ slot'[s].mPointer = slot[s].mPointer /\ slot'[t].mPointer = slot[t].mPointer
      BY <1>0, <1>10 DEF P!SwapReferences, P!CopyReference, P!Spoil, SlotsInv, PointerObject, P!Made
    <2>2. \A x \in P!Slot : Owns(x, o)' <=> Owns(x, o)
      BY <2>1 DEF Owns
    <2> QED
      BY <1>1, <2>1, <2>2, OwnerStays
  <1>11. ASSUME NEW w \in Weak, P!DestroyWeak(w) \/ \E s \in P!Slot : P!MakeWeak(w, s) PROVE OneOwner(o)'
    <2>1. UNCHANGED <<slot, raw, deletions>> /\ spoiled \subseteq spoiled'
      BY <1>11 DEF P!DestroyWeak, P!MakeWeak, P!Spoil
    <2>2. \A x \in P!Slot : Owns(x, o)' <=> Owns(x, o)
      BY <2>1 DEF Owns
    <2> QED
      BY <1>1, <2>1, <2>2, OwnerStays
  <1>12. ASSUME NEW s \in P!UniqueLike, slot[s] # NotMade,
                \/ slot[s].mPointer = Null /\ UNCHANGED <<deletions, stopped>>
                \/ slot[s].mPointer # Null /\ P!Delete(slot[s].mPointer)
         PROVE  deletions[o] # -1 /\ deletions'[o] = IF Owns(s, o) THEN deletions[o] + 1 ELSE deletions[o]
    BY <1>0, <1>12 DEF P!Delete, Owns, SlotsInv, PointerObject
  <1>13. ASSUME NEW s \in P!UniqueLike, P!DestroyUnique(s) PROVE OneOwner(o)'
    <2>1. slot' = [slot EXCEPT ![s] = NotMade] /\ slot[s] # NotMade /\ UNCHANGED <<raw, spoiled>>
      BY <1>13 DEF P!DestroyUnique, P!Made
    <2>2. deletions[o] # -1 /\ deletions'[o] = IF Owns(s, o) THEN deletions[o] + 1 ELSE deletions[o]
      BY <1>12, <1>13, <2>1 DEF P!DestroyUnique
    <2>3. ~Owns(s, o)' /\ \A x \in P!Slot \ {s} : Owns(x, o)' <=> Owns(x, o)
      BY <1>0, <2>1 DEF Owns, SlotsInv
    <2>4. CASE Owns(s, o)
      <3>1. \A x \in P!Slot : ~Owns(x, o)'
        BY <1>1, <2>1, <2>2, <2>3, <2>4 DEF OneOwner
      <3> QED
        BY <1>1, <2>1, <2>2, <2>4, <3>1, OwnerDeletes
    <2>5. CASE ~Owns(s, o)
      BY <1>1, <2>1, <2>2, <2>3, <2>5, OwnerStays
    <2> QED
      BY <2>4, <2>5
  <1>14. ASSUME NEW s \in P!UniqueLike, NEW t \in P!UniqueLike, P!AssignUnique(s, t) PROVE OneOwner(o)'
    <2>1. slot' = [slot EXCEPT ![s] = slot[t], ![t] = P!Nothing] /\ slot[s] # NotMade /\ slot[t] # NotMade
          /\ UNCHANGED <<raw, spoiled>>
      BY <1>14 DEF P!AssignUnique, P!TakeOther, P!Made
    <2>2. deletions[o] # -1 /\ deletions'[o] = IF Owns(s, o) THEN deletions[o] + 1 ELSE deletions[o]
      BY <1>12, <1>14, <2>1 DEF P!AssignUnique
    <2>3. (s # t => (Owns(s, o)' <=> Owns(t, o))) /\ ~Owns(t, o)' /\ \A x \in P!Slot \ {s, t} : Owns(x, o)' <=> Owns(x, o)
      BY <1>0, <1>2, <2>1 DEF Owns, SlotsInv
    <2>4. CASE Owns(s, o)
      <3>1. \A x \in P!Slot : ~Owns(x, o)'
        BY <1>1, <2>1, <2>2, <2>3, <2>4 DEF OneOwner
      <3> QED
        BY <1>1, <2>1, <2>2, <2>4, <3>1, OwnerDeletes
    <2>5. CASE ~Owns(s, o) /\ s # t
      BY <1>1, <2>1, <2>2, <2>3, <2>5, OwnerMoves
    <2>6. CASE ~Owns(s, o) /\ s = t
      BY <1>1, <2>1, <2>2, <2>3, <2>6, OwnerStays
    <2> QED
      BY <2>4, <2>5, <2>6
  <1>15. ASSUME NEW s \in P!UniqueLike, NEW n \in Object, P!TakePointer(s, n) PROVE OneOwner(o)'
    <2>1. slot' = [slot EXCEPT ![s] = P!PointerTo(n, Null)] /\ n \in raw /\ raw' = raw \ {n} /\ UNCHANGED spoiled
      BY <1>15 DEF P!TakePointer, P!Reset
    <2>2. deletions[o] # -1 /\ deletions'[o] = IF Owns(s, o) THEN deletions[o] + 1 ELSE deletions[o]
      <3>1. CASE slot[s] = NotMade
        BY <1>15, <3>1 DEF P!TakePointer, P!Made, Owns
      <3>2. CASE slot[s] # NotMade
        BY <1>12, <1>15, <3>2 DEF P!TakePointer, P!Reset, P!FreeSlot, P!Made
      <3> QED
        BY <3>1, <3>2
    <2>3. (Owns(s, o)' <=> o = n) /\ \A x \in P!Slot \ {s} : Owns(x, o)' <=> Owns(x, o)
      BY <1>0, <1>2, <2>1 DEF Owns, SlotsInv
    <2>4. OneOwner(o)
      BY <1>1, <2>1, <2>2
    <2>5. CASE o = n
      <3>1. deletions[o] = 0 /\ \A x \in P!Slot : ~Owns(x, o)
        BY <2>1, <2>4, <2>5 DEF OneOwner, PointerKept, Owned
      <3>2. deletions'[o] = 0 /\ o \notin raw' /\ \A x \in P!Slot : Owns(x, o)' <=> x = s
        BY <2>1, <2>2, <2>3, <2>5, <3>1
      <3> QED
        BY <3>2 DEF OneOwner, PointerKept, Owned
    <2>6. CASE o # n /\ Owns(s, o)
      <3>1. \A x \in P!Slot : ~Owns(x, o)'
        BY <2>3, <2>4, <2>6 DEF OneOwner
      <3> QED
        BY <2>1, <2>2, <2>4, <2>6, <3>1, OwnerDeletes
    <2>7. CASE o # n /\ ~Owns(s, o)
      BY <2>1, <2>2, <2>3, <2>4, <2>7, OwnerStays
    <2> QED
      BY <2>5, <2>6, <2>7
  <1>16. ASSUME NEW s \in P!UniqueLike, P!Release(s) PROVE OneOwner(o)'
    <2>1. slot' = [slot EXCEPT ![s] = P!Nothing] /\ slot[s] # NotMade /\ slot[s].mPointer # Null
          /\ raw' = raw \cup {slot[s].mPointer} /\ UNCHANGED <<deletions, spoiled>>
      BY <1>16 DEF P!Release, P!Made
    <2>2. ~Owns(s, o)' /\ \A x \in P!Slot \ {s} : Owns(x, o)' <=> Owns(x, o)
      BY <1>0, <1>2, <2>1 DEF Owns, SlotsInv
    <2>3. OneOwner(o)
      BY <1>1, <2>1
    <2>4. CASE slot[s].mPointer = o
      <3>1. Owns(s, o)
        BY <2>1, <2>4 DEF Owns
      <3>2. deletions[o] = 0 /\ \A x \in P!Slot : ~Owns(x, o)'
        BY <2>2, <2>3, <3>1 DEF OneOwner, PointerKept, Owned
      <3>3. o \in raw'
        BY <2>1, <2>4
      <3> QED
        BY <2>1, <3>2, <3>3 DEF OneOwner, PointerKept, Owned
    <2>5. CASE slot[s].mPointer # o
      <3>1. ~Owns(s, o) /\ (o \in raw' <=> o \in raw)
        BY <2>1, <2>5 DEF Owns
      <3> QED
        BY <2>1, <2>2, <2>3, <3>1, OwnerStays
    <2> QED
      BY <2>4, <2>5
  <1>17. \/ \E s \in Shared \cup Unique : P!MakeEmpty(s) \/ \E n \in Object : P!MakeNew(s, n)
         \/ \E s, t \in Shared : P!MoveFrom(s, t) \/ P!CopyShared(s, t)
         \/ \E s, t \in Shared : P!AssignMoved(s, t) \/ P!AssignCopied(s, t) \/ P!SwapReferences(s, t) \/ P!CopyReference(s, t)
         \/ \E s \in P!SharedLike : P!DestroyShared(s)
         \/ \E w \in Weak : P!DestroyWeak(w) \/ \E s \in Shared : P!MakeWeak(w, s)
         \/ \E s, t \in Unique : P!MoveFrom(s, t) \/ P!AssignUnique(s, t)
         \/ \E s \in Unique : P!Release(s) \/ \E n \in Object : P!TakePointer(s, n)
         \/ \E s \in P!UniqueLike : P!DestroyUnique(s)
         \/ \E c \in OfUnique, s \in Unique : P!MoveFrom(c, s)
         \/ \E c \in Callback \ OfUnique, s \in Shared : P!CopyShared(c, s)
    BY DEF P!Next, P!FromUnique, P!FromShared
  <1>18. Shared \subseteq P!Slot /\ Unique \subseteq P!Slot /\ OfUnique \subseteq P!Slot
    BY DEF P!Slot
  <1> QED
    BY <1>3, <1>4, <1>5, <1>6, <1>7, <1>8, <1>9, <1>10, <1>11, <1>13, <1>14, <1>15, <1>16, <1>17, <1>18

\* No shared pointer points to what a unique pointer or a caller has.
Apart ==
  \A s \in P!SharedLike : slot[s] # NotMade /\ slot[s].mPointer # Null =>
    /\ slot[s].mPointer \notin raw
    /\ \A t \in P!UniqueLike : slot[t] # NotMade => slot[t].mPointer # slot[s].mPointer

\* The pointers of the slots come from the slots of the same classes.
LEMMA ApartFrom ==
  ASSUME Apart, raw' \subseteq raw,
         \A s \in P!SharedLike : slot'[s] # NotMade /\ slot'[s].mPointer # Null =>
           \E x \in P!SharedLike : slot[x] # NotMade /\ slot[x].mPointer = slot'[s].mPointer,
         \A s \in P!UniqueLike : slot'[s] # NotMade /\ slot'[s].mPointer # Null =>
           \E x \in P!UniqueLike : slot[x] # NotMade /\ slot[x].mPointer = slot'[s].mPointer
  PROVE  Apart'
  <1> SUFFICES ASSUME NEW s \in P!SharedLike, slot'[s] # NotMade, slot'[s].mPointer # Null
               PROVE  /\ slot'[s].mPointer \notin raw'
                      /\ \A t \in P!UniqueLike : slot'[t] # NotMade => slot'[t].mPointer # slot'[s].mPointer
    BY DEF Apart, P!SharedLike, P!UniqueLike
  <1>1. PICK x \in P!SharedLike : slot[x] # NotMade /\ slot[x].mPointer = slot'[s].mPointer
    OBVIOUS
  <1> QED
    BY <1>1 DEF Apart

\* Every step keeps the classes apart.
LEMMA ApartStep ==
  ASSUME SlotsInv, Apart, P!Next
  PROVE  Apart'
  <1> USE PointersAssumption, SlotClasses
  <1>0. P!Nothing.mPointer = Null /\ \A x \in Object : P!PointerTo(x, Null).mPointer = x
    BY DEF P!Nothing, P!PointerTo
  <1>1. ASSUME NEW s \in P!Slot, P!MakeEmpty(s) PROVE Apart'
    BY <1>0, <1>1, ApartFrom DEF P!MakeEmpty, SlotsInv
  <1>2. ASSUME NEW s \in P!Slot, NEW o \in Object, P!MakeNew(s, o) PROVE Apart'
    <2>1. slot' = [slot EXCEPT ![s] = P!PointerTo(o, Null)] /\ raw' = raw /\ deletions[o] = -1
      BY <1>2 DEF P!MakeNew, P!New, P!Allocated, SlotsInv
    <2>2. o \notin raw /\ \A x \in P!Slot : slot[x] # NotMade => slot[x].mPointer # o
      BY <2>1 DEF SlotsInv
    <2> QED
      BY <1>0, <2>1, <2>2 DEF SlotsInv, Apart
  <1>3. ASSUME NEW s \in P!Slot, NEW t \in P!Slot, s \in P!UniqueLike <=> t \in P!UniqueLike,
               P!MoveFrom(s, t) \/ P!AssignMoved(s, t) \/ P!AssignUnique(s, t)
        PROVE  Apart'
    <2>1. slot' = [slot EXCEPT ![s] = slot[t], ![t] = P!Nothing] /\ raw' = raw /\ slot[t] # NotMade
      BY <1>3 DEF P!MoveFrom, P!AssignMoved, P!AssignUnique, P!TakeOther, P!Made
    <2>2. \A x \in P!Slot : slot'[x] = IF x = t THEN P!Nothing ELSE IF x = s THEN slot[t] ELSE slot[x]
      BY <2>1 DEF SlotsInv
    <2>3. ASSUME NEW x \in P!Slot, slot'[x] # NotMade, slot'[x].mPointer # Null
          PROVE  \E y \in P!Slot : /\ y \in P!UniqueLike <=> x \in P!UniqueLike
                                   /\ slot[y] # NotMade /\ slot[y].mPointer = slot'[x].mPointer
      <3>1. x # t
        BY <1>0, <2>2, <2>3, Zenon
      <3>2. CASE x = s
        BY <1>3, <2>1, <2>2, <3>1, <3>2, Zenon
      <3>3. CASE x # s
        BY <2>2, <2>3, <3>1, <3>3, Zenon
      <3> QED
        BY <3>2, <3>3, Zenon
    <2> QED
      BY <2>1, <2>3, ApartFrom, Zenon DEF P!Slot, P!SharedLike, P!UniqueLike
  <1>4. ASSUME NEW s \in P!SharedLike, NEW t \in P!SharedLike, P!CopyShared(s, t) \/ P!AssignCopied(s, t) PROVE Apart'
    <2>1. slot[t] \in PointerObject /\ (slot[t].mReference # Null => mReferenceCount[slot[t].mReference] # 0)
          /\ P!IncreaseCount(s, slot[t]) /\ raw' = raw /\ slot[t] # NotMade
      BY <1>4 DEF P!CopyShared, P!AssignCopied, P!Made, SlotsInv
    <2>2. PICK q \in PointerObject : slot' = [slot EXCEPT ![s] = q] /\ q.mPointer = slot[t].mPointer
      BY <2>1, IncreaseShares
    <2>3. \A x \in P!Slot : slot'[x] = IF x = s THEN q ELSE slot[x]
      BY <2>2 DEF SlotsInv
    <2> QED
      BY <2>1, <2>2, <2>3, ApartFrom
  <1>5. ASSUME NEW s \in P!Slot, P!DestroyShared(s) \/ P!DestroyUnique(s) PROVE Apart'
    <2>1. \A x \in P!Slot : slot'[x] = IF x = s THEN NotMade ELSE slot[x]
      BY <1>5 DEF P!DestroyShared, P!DestroyUnique, SlotsInv
    <2>2. raw' = raw
      BY <1>5 DEF P!DestroyShared, P!DestroyUnique
    <2> QED
      BY <2>1, <2>2, ApartFrom
  <1>6. ASSUME NEW s \in P!Slot, NEW t \in P!Slot, P!SwapReferences(s, t) \/ P!CopyReference(s, t) PROVE Apart'
    <2>1. /\ raw' = raw /\ \A x \in P!Slot \ {s, t} : slot'[x] = slot[x]
          /\ slot'[s].mPointer = slot[s].mPointer /\ slot'[t].mPointer = slot[t].mPointer
          /\ slot[s] # NotMade /\ slot[t] # NotMade
      BY <1>6 DEF P!SwapReferences, P!CopyReference, SlotsInv, PointerObject, P!Made
    <2>2. \A x \in P!Slot : slot'[x] # NotMade => slot[x] # NotMade /\ slot[x].mPointer = slot'[x].mPointer
      BY <2>1
    <2> QED
      BY <2>1, <2>2, ApartFrom
  <1>7. ASSUME NEW w \in Weak, P!DestroyWeak(w) \/ \E s \in P!Slot : P!MakeWeak(w, s) PROVE Apart'
    BY <1>7 DEF P!DestroyWeak, P!MakeWeak, Apart, P!SharedLike, P!UniqueLike
  <1>8. ASSUME NEW s \in P!UniqueLike, NEW o \in Object, P!TakePointer(s, o) PROVE Apart'
    <2>1. slot' = [slot EXCEPT ![s] = P!PointerTo(o, Null)] /\ o \in raw /\ raw' = raw \ {o}
      BY <1>8 DEF P!TakePointer, P!Reset
    <2>2. \A x \in P!Slot : slot'[x] = IF x = s THEN P!PointerTo(o, Null) ELSE slot[x]
      BY <2>1 DEF SlotsInv
    <2> QED
      BY <1>0, <2>1, <2>2 DEF Apart, P!SharedLike, P!UniqueLike
  <1>9. ASSUME NEW s \in P!UniqueLike, P!Release(s) PROVE Apart'
    <2>1. /\ slot[s] # NotMade /\ raw' = raw \cup {slot[s].mPointer}
          /\ \A x \in P!Slot : slot'[x] = IF x = s THEN P!Nothing ELSE slot[x]
      BY <1>9 DEF P!Release, P!Made, SlotsInv
    <2> QED
      BY <1>0, <2>1 DEF Apart, P!SharedLike, P!UniqueLike
  <1> QED
    BY <1>1, <1>2, <1>3, <1>4, <1>5, <1>6, <1>7, <1>8, <1>9
    DEF P!Next, P!FromUnique, P!FromShared, P!Slot, P!SharedLike

\* The module's Cardinality is the one of FiniteSets.
LEMMA PointerCardinality ==
  ASSUME NEW S
  PROVE  P!Cardinality(S) = Cardinality(S)
  BY DEF P!Cardinality, Cardinality

\* PointerInv is inductive.
LEMMA PointerStep ==
  ASSUME PointerInv, [P!Next]_(P!vars)
  PROVE  PointerInv'
  <1>1. CASE P!Next
    <2>1. ~stopped' => \A o \in Object \ spoiled' : deletions'[o] # -1 => OneOwner(o)'
      BY <1>1, OwnersStep
    <2> QED
      BY <1>1, <2>1, SlotsStep, ReferencesStep DEF PointerInv, OneOwner
  <1>2. CASE UNCHANGED P!vars
    BY <1>2 DEF P!vars, PointerInv, SlotsInv, ReferencesLive, PointerKept, Owned, Owns
  <1> QED
    BY <1>1, <1>2

\* A heap object is deleted at most once, and somebody has it until it is; the
\* object of a unique pointer, or of a caller's plain pointer, is alive and nobody
\* else has it: over every chain of constructions, moves, copies, releases,
\* callbacks and destructions of UniquePointer, SharedPointer and Callback that
\* does not mix up the counts of the object.  That a shared object outlives every
\* shared pointer to it is not among it: LivesWhileShared fails.
THEOREM ObjectsAlwaysOwnedOnce == P!Spec => []OwnedOnce
  <1>1. P!Init => PointerInv /\ Apart
    <2> SUFFICES ASSUME P!Init PROVE PointerInv /\ Apart
      OBVIOUS
    <2>1. SlotsInv /\ ReferencesLive
      BY PointersAssumption DEF P!Init, SlotsInv, ReferencesLive
    <2>2. \A o \in Object : deletions[o] = -1
      BY DEF P!Init
    <2>3. Apart
      BY SlotClasses DEF P!Init, Apart
    <2> QED
      BY <2>1, <2>2, <2>3 DEF PointerInv
  <1>2. PointerInv /\ Apart /\ [P!Next]_(P!vars) => (PointerInv /\ Apart)'
    <2> SUFFICES ASSUME PointerInv, Apart, [P!Next]_(P!vars) PROVE PointerInv' /\ Apart'
      OBVIOUS
    <2>1. SlotsInv
      BY DEF PointerInv
    <2>2. CASE P!Next
      BY <2>1, <2>2, ApartStep, PointerStep
    <2>3. CASE UNCHANGED P!vars
      <3>1. Apart'
        BY <2>3 DEF P!vars, Apart, P!SharedLike, P!UniqueLike
      <3> QED
        BY <3>1, PointerStep
    <2> QED
      BY <2>2, <2>3
  <1>3. PointerInv /\ Apart => OwnedOnce
    <2> SUFFICES ASSUME PointerInv, Apart, ~stopped, NEW o \in P!Allocated \ spoiled
                 PROVE  /\ deletions[o] <= 1
                        /\ deletions[o] = 0 => P!Holders(o) # {} \/ o \in raw
                        /\ P!Holders(o) \cap P!UniqueLike # {} \/ o \in raw =>
                             deletions[o] = 0 /\ Cardinality(P!Holders(o)) + Cardinality({o} \cap raw) = 1
      BY PointerCardinality DEF OwnedOnce, P!OwnedOnce
    <2>1. SlotsInv /\ OneOwner(o) /\ o \in Object /\ o # Null
      BY PointersAssumption DEF P!Allocated, PointerInv, OneOwner
    <2>2. \A s \in P!Slot : Owns(s, o) => s \in P!Holders(o)
      BY DEF Owns, P!Holders, P!Made
    <2>3. \A s \in P!Holders(o) \cap P!UniqueLike : Owns(s, o)
      BY DEF Owns, P!Holders, P!Made
    <2>4. deletions[o] <= 1 /\ (deletions[o] = 0 => P!Holders(o) # {} \/ o \in raw)
      <3>1. deletions[o] = 0 \/ deletions[o] = 1
        BY <2>1 DEF OneOwner, PointerKept
      <3>2. deletions[o] = 0 => Owned(o) \/ o \in raw
        BY <2>1 DEF OneOwner, PointerKept
      <3>3. Owned(o) => P!Holders(o) # {}
        BY <2>2 DEF Owned
      <3> QED
        BY <3>1, <3>2, <3>3
    <2>5. CASE P!Holders(o) \cap P!UniqueLike # {}
      <3>1. PICK s \in P!Holders(o) \cap P!UniqueLike : Owns(s, o)
        BY <2>3, <2>5
      <3>2. deletions[o] = 0 /\ o \notin raw
        BY <2>1, <3>1, SlotClasses DEF OneOwner, PointerKept, Owned
      <3>3. P!Holders(o) \cap P!SharedLike = {}
        BY <2>1, <3>1 DEF Apart, P!Holders, P!Made
      <3>4. \A x \in P!Holders(o) : x = s
        BY <2>1, <2>3, <3>1, <3>3, SlotClasses DEF OneOwner, P!Holders
      <3>5. P!Holders(o) = {s} /\ {o} \cap raw = {}
        BY <3>1, <3>2, <3>4
      <3>6. Cardinality(P!Holders(o)) = 1 /\ Cardinality({o} \cap raw) = 0
        BY <3>5, FS_Singleton, FS_EmptySet
      <3> QED
        BY <2>4, <3>2, <3>6
    <2>6. CASE o \in raw
      <3>1. deletions[o] = 0 /\ ~Owned(o)
        BY <2>1, <2>6 DEF OneOwner, PointerKept
      <3>2. P!Holders(o) \cap P!UniqueLike = {}
        BY <2>3, <3>1, SlotClasses DEF Owned
      <3>3. P!Holders(o) \cap P!SharedLike = {}
        BY <2>1, <2>6 DEF Apart, P!Holders, P!Made
      <3>4. P!Holders(o) = {} /\ {o} \cap raw = {o}
        BY <2>6, <3>2, <3>3, SlotClasses DEF P!Holders
      <3>5. Cardinality(P!Holders(o)) = 0 /\ Cardinality({o} \cap raw) = 1
        BY <3>4, FS_Singleton, FS_EmptySet
      <3> QED
        BY <2>4, <3>1, <3>5
    <2> QED
      BY <2>4, <2>5, <2>6
  <1> QED
    BY <1>1, <1>2, <1>3, PTL DEF P!Spec

-----------------------------------------------------------------------------
(* Lists.                                                                  *)

\* The variables of the lists.
ListsType ==
  /\ lists \subseteq List /\ unsized \subseteq lists /\ listNodes \subseteq Cell
  /\ mBegin \in [List -> Cell \cup {Null}] /\ mBeforeEnd \in [List -> Cell \cup {Null}]
  /\ listSize \in [List -> 0 .. SizeValues - 1]
  /\ chain \in [Cell -> Seq(Cell)] /\ datum \in [Cell -> Datum] /\ listContents \in [List -> Seq(Datum)]

\* The nodes of a list, made or not: the chain of its first node, each once, and
\* what the members say of them.
ListOK(l) ==
  LET s == L!Nodes(l) IN
  /\ mBegin[l] # Null => Len(s) > 0 /\ s[1] = mBegin[l]
  /\ \A i, j \in 1 .. Len(s) : s[i] = s[j] => i = j
  /\ Len(listContents[l]) = Len(s) /\ \A i \in 1 .. Len(s) : datum[s[i]] = listContents[l][i]
  /\ mBeforeEnd[l] = IF Len(s) = 0 THEN Null ELSE s[Len(s)]
  /\ l \in lists /\ l \notin unsized => listSize[l] = Len(s)
  /\ l \notin lists => mBegin[l] = Null /\ listSize[l] = 0

On(c, s) == \E i \in 1 .. Len(s) : s[i] = c

\* No node is in two lists, and every node allocated is in one.
ListsInv ==
  /\ ListsType
  /\ \A l \in List : ListOK(l)
  /\ \A l, m \in List, c \in Cell : On(c, L!Nodes(l)) /\ On(c, L!Nodes(m)) => l = m
  /\ \A c \in Cell : c \in listNodes <=> \E l \in List : On(c, L!Nodes(l))

\* A list's nodes are cells.
LEMMA ListNodesType ==
  ASSUME ListsType, NEW l \in List
  PROVE  /\ L!Nodes(l) \in Seq(Cell)
         /\ \A i \in 1 .. Len(L!Nodes(l)) : L!Nodes(l)[i] \in Cell
  <1>1. L!Nodes(l) \in Seq(Cell)
    <2>1. CASE mBegin[l] = Null
      BY <2>1 DEF L!Nodes, ListsType
    <2>2. CASE mBegin[l] # Null
      BY <2>2 DEF L!Nodes, ListsType
    <2> QED
      BY <2>1, <2>2
  <1> QED
    BY <1>1, ElementOfSeq

\* A sequence of different cells is shorter than SizeValues.
LEMMA ShortLists ==
  ASSUME NEW s \in Seq(Cell), \A i, j \in 1 .. Len(s) : s[i] = s[j] => i = j
  PROVE  Len(s) \in 0 .. SizeValues - 1
  <1>1. s \in [1 .. Len(s) -> Cell] /\ Len(s) \in Nat
    OBVIOUS
  <1>2. s \in Injection(1 .. Len(s), Cell)
    BY <1>1 DEF Injection, IsInjective
  <1>3. Cardinality(1 .. Len(s)) <= Cardinality(Cell)
    BY <1>2, FS_Injection, ListsAssumption
  <1>4. Cardinality(1 .. Len(s)) = Len(s)
    <2>1. PICK n \in Nat : n = Len(s)
      BY <1>1
    <2>2. Cardinality(1 .. n) = IF 1 > n THEN 0 ELSE n - 1 + 1
      BY FS_Interval
    <2> QED
      BY <2>1, <2>2
  <1>5. Cardinality(Cell) \in Nat
    BY FS_CardinalityType, ListsAssumption
  <1> QED
    BY <1>1, <1>3, <1>4, <1>5, ListsAssumption

\* What Becomes does to the nodes of every list.
LEMMA BecomesNodes ==
  ASSUME ListsInv, NEW l \in List, NEW s \in Seq(Cell), NEW size \in Int, L!Becomes(l, s, size),
         \A m \in List, c \in Cell : m # l /\ On(c, L!Nodes(m)) => ~On(c, s)
  PROVE  /\ mBegin' \in [List -> Cell \cup {Null}] /\ mBeforeEnd' \in [List -> Cell \cup {Null}]
         /\ listSize' \in [List -> 0 .. SizeValues - 1] /\ chain' \in [Cell -> Seq(Cell)]
         /\ L!Nodes(l)' = s /\ listSize'[l] = size % SizeValues
         /\ mBegin'[l] # Null => Len(s) > 0 /\ s[1] = mBegin'[l]
         /\ Len(s) = 0 => mBegin'[l] = Null
         /\ mBeforeEnd'[l] = IF Len(s) = 0 THEN Null ELSE s[Len(s)]
         /\ \A m \in List : m # l =>
              /\ L!Nodes(m)' = L!Nodes(m) /\ mBegin'[m] = mBegin[m]
              /\ mBeforeEnd'[m] = mBeforeEnd[m] /\ listSize'[m] = listSize[m]
  <1> USE DEF ListsInv, ListsType
  <1>1. s = <<>> <=> Len(s) = 0
    OBVIOUS
  <1>2. s # <<>> => Head(s) = s[1] /\ s[1] \in Cell /\ s[Len(s)] \in Cell /\ L!Last(s) = s[Len(s)] /\ Len(s) > 0
    <2>1. s # <<>> => Len(s) \in Nat \ {0} /\ Head(s) = s[1]
      OBVIOUS
    <2> QED
      BY <2>1, ElementOfSeq DEF L!Last
  <1>3. size % SizeValues \in 0 .. SizeValues - 1
    <2>1. SizeValues \in Nat \ {0}
      BY ListsAssumption, FS_CardinalityType
    <2> QED
      BY <2>1
  <1>4. /\ mBegin' = [mBegin EXCEPT ![l] = IF s = <<>> THEN Null ELSE s[1]]
        /\ mBeforeEnd' = [mBeforeEnd EXCEPT ![l] = IF s = <<>> THEN Null ELSE s[Len(s)]]
        /\ listSize' = [listSize EXCEPT ![l] = size % SizeValues]
        /\ chain' = [n \in Cell |-> IF s # <<>> /\ n = s[1] THEN s ELSE IF n = mBegin[l] THEN <<>> ELSE chain[n]]
    BY <1>2 DEF L!Becomes
  <1>5. /\ mBegin' \in [List -> Cell \cup {Null}] /\ mBeforeEnd' \in [List -> Cell \cup {Null}]
        /\ listSize' \in [List -> 0 .. SizeValues - 1]
    BY <1>2, <1>3, <1>4
  <1>6. chain' \in [Cell -> Seq(Cell)]
    <2>1. <<>> \in Seq(Cell)
      OBVIOUS
    <2> QED
      BY <1>4, <2>1
  <1>7. L!Nodes(l)' = s
    <2>1. CASE s = <<>>
      BY <1>4, <2>1 DEF L!Nodes
    <2>2. CASE s # <<>>
      <3>1. mBegin'[l] = s[1] /\ s[1] # Null /\ chain'[s[1]] = s
        BY <1>2, <1>4, <2>2, ListsAssumption
      <3> QED
        BY <3>1 DEF L!Nodes
    <2> QED
      BY <2>1, <2>2
  <1>8. ASSUME NEW m \in List, m # l PROVE L!Nodes(m)' = L!Nodes(m)
    <2>1. mBegin'[m] = mBegin[m]
      BY <1>4, <1>8
    <2>2. CASE mBegin[m] = Null
      BY <2>1, <2>2 DEF L!Nodes
    <2>3. CASE mBegin[m] # Null
      <3>1. /\ Len(L!Nodes(m)) > 0 /\ L!Nodes(m)[1] = mBegin[m] /\ L!Nodes(m) = chain[mBegin[m]]
            /\ mBegin[m] \in Cell
        BY <2>3 DEF ListOK, L!Nodes
      <3>2. Len(L!Nodes(m)) \in Nat /\ On(mBegin[m], L!Nodes(m))
        BY <3>1, ListNodesType DEF On
      <3>3. ~On(mBegin[m], s)
        BY <1>8, <3>1, <3>2
      <3>4. s # <<>> => mBegin[m] # s[1]
        BY <1>2, <3>3 DEF On
      <3>5. mBegin[m] # mBegin[l]
        <4> SUFFICES ASSUME mBegin[m] = mBegin[l] PROVE FALSE
          OBVIOUS
        <4>1. L!Nodes(l) = L!Nodes(m)
          BY DEF L!Nodes
        <4> QED
          BY <1>8, <3>1, <3>2, <4>1
      <3>6. chain'[mBegin[m]] = chain[mBegin[m]]
        BY <1>4, <3>1, <3>4, <3>5
      <3> QED
        BY <2>1, <2>3, <3>6 DEF L!Nodes
    <2> QED
      BY <2>2, <2>3
  <1>9. /\ listSize'[l] = size % SizeValues
        /\ mBegin'[l] # Null => Len(s) > 0 /\ s[1] = mBegin'[l]
        /\ Len(s) = 0 => mBegin'[l] = Null
        /\ mBeforeEnd'[l] = IF Len(s) = 0 THEN Null ELSE s[Len(s)]
    BY <1>1, <1>2, <1>4
  <1>10. \A m \in List : m # l =>
           mBegin'[m] = mBegin[m] /\ mBeforeEnd'[m] = mBeforeEnd[m] /\ listSize'[m] = listSize[m]
    BY <1>4
  <1> QED
    BY <1>5, <1>6, <1>7, <1>8, <1>9, <1>10

\* An operation that gives the list l the nodes s, and these the elements k.
LEMMA BecomesInv ==
  ASSUME ListsInv, NEW l \in List, NEW s \in Seq(Cell), NEW size \in Int, L!Becomes(l, s, size),
         \A m \in List, c \in Cell : m # l /\ On(c, L!Nodes(m)) => ~On(c, s),
         \A i, j \in 1 .. Len(s) : s[i] = s[j] => i = j,
         NEW k \in Seq(Datum), listContents' = [listContents EXCEPT ![l] = k], Len(k) = Len(s),
         datum' \in [Cell -> Datum], \A i \in 1 .. Len(s) : datum'[s[i]] = k[i],
         \A m \in List, c \in Cell : m # l /\ On(c, L!Nodes(m)) => datum'[c] = datum[c],
         lists' \subseteq List, unsized' \subseteq lists',
         \A m \in List : m # l => (m \in lists' <=> m \in lists) /\ (m \in unsized' <=> m \in unsized),
         listNodes' \subseteq Cell,
         \A c \in Cell : c \in listNodes' <=> On(c, s) \/ (c \in listNodes /\ ~On(c, L!Nodes(l))),
         l \in lists' /\ l \notin unsized' => size % SizeValues = Len(s),
         l \notin lists' => Len(s) = 0 /\ size % SizeValues = 0
  PROVE  ListsInv'
  <1>1. /\ mBegin' \in [List -> Cell \cup {Null}] /\ mBeforeEnd' \in [List -> Cell \cup {Null}]
        /\ listSize' \in [List -> 0 .. SizeValues - 1] /\ chain' \in [Cell -> Seq(Cell)]
        /\ L!Nodes(l)' = s /\ listSize'[l] = size % SizeValues
        /\ mBegin'[l] # Null => Len(s) > 0 /\ s[1] = mBegin'[l]
        /\ Len(s) = 0 => mBegin'[l] = Null
        /\ mBeforeEnd'[l] = IF Len(s) = 0 THEN Null ELSE s[Len(s)]
        /\ \A m \in List : m # l =>
              /\ L!Nodes(m)' = L!Nodes(m) /\ mBegin'[m] = mBegin[m]
              /\ mBeforeEnd'[m] = mBeforeEnd[m] /\ listSize'[m] = listSize[m]
    BY BecomesNodes
  <1>2. ListsType'
    BY <1>1 DEF ListsInv, ListsType
  <1>3. ListOK(l)'
    <2>1. listContents'[l] = k
      BY DEF ListsInv, ListsType
    <2> QED
      BY <1>1, <2>1 DEF ListOK
  <1>4. ASSUME NEW m \in List, m # l PROVE ListOK(m)'
    <2>1. listContents'[m] = listContents[m]
      BY <1>4 DEF ListsInv, ListsType
    <2>2. PICK t \in Seq(Cell) : t = L!Nodes(m) /\ t = L!Nodes(m)'
      BY <1>1, <1>4, ListNodesType DEF ListsInv
    <2>3. \A i \in 1 .. Len(t) : datum'[t[i]] = datum[t[i]]
      <3> SUFFICES ASSUME NEW i \in 1 .. Len(t) PROVE datum'[t[i]] = datum[t[i]]
        OBVIOUS
      <3>1. t[i] \in Cell /\ On(t[i], t)
        BY ElementOfSeq DEF On
      <3> QED
        BY <1>4, <2>2, <3>1
    <2>4. ListOK(m)
      BY DEF ListsInv
    <2> QED
      BY <1>1, <1>4, <2>1, <2>2, <2>3, <2>4 DEF ListOK
  <1>5. ASSUME NEW m \in List, NEW n \in List, NEW c \in Cell, On(c, L!Nodes(m)'), On(c, L!Nodes(n)')
        PROVE  m = n
    <2>1. CASE m = l /\ n # l
      BY <1>1, <1>5, <2>1
    <2>2. CASE m # l /\ n = l
      BY <1>1, <1>5, <2>2
    <2>3. CASE m # l /\ n # l
      BY <1>1, <1>5, <2>3 DEF ListsInv
    <2> QED
      BY <2>1, <2>2, <2>3
  <1>6. ASSUME NEW c \in Cell PROVE c \in listNodes' <=> \E m \in List : On(c, L!Nodes(m)')
    <2>1. (\E m \in List : On(c, L!Nodes(m)')) <=> On(c, s) \/ \E m \in List : m # l /\ On(c, L!Nodes(m))
      BY <1>1
    <2>2. (\E m \in List : m # l /\ On(c, L!Nodes(m))) <=> c \in listNodes /\ ~On(c, L!Nodes(l))
      BY DEF ListsInv
    <2> QED
      BY <2>1, <2>2
  <1>7. \A c, m : On(c, L!Nodes(m))' <=> On(c, L!Nodes(m)')
    BY DEF On
  <1> QED
    BY <1>2, <1>3, <1>4, <1>5, <1>6, <1>7 DEF ListsInv

\* A number below SizeValues is its own remainder.
LEMMA SmallSize ==
  ASSUME NEW x \in 0 .. SizeValues - 1
  PROVE  x % SizeValues = x
  <1>1. SizeValues \in Nat \ {0}
    BY ListsAssumption, FS_CardinalityType
  <1> QED
    BY <1>1

\* LinkedList() and the destructor.
LEMMA MakeListInv ==
  ASSUME ListsInv, NEW l \in List, L!Make(l) \/ L!Destroy(l)
  PROVE  ListsInv'
  <1>1. PICK s \in Seq(Cell), k \in Seq(Datum) : s = <<>> /\ k = <<>> /\ Len(s) = 0 /\ Len(k) = 0
    <2>1. <<>> \in Seq(Cell) /\ <<>> \in Seq(Datum) /\ Len(<<>>) = 0
      OBVIOUS
    <2> QED
      BY <2>1
  <1>2. SizeValues \in Nat \ {0} /\ 0 % SizeValues = 0
    <2>1. SizeValues \in Nat \ {0}
      BY ListsAssumption, FS_CardinalityType
    <2> QED
      BY <2>1
  <1>3. /\ L!Becomes(l, s, 0) /\ listContents' = [listContents EXCEPT ![l] = k] /\ datum' = datum
        /\ datum \in [Cell -> Datum]
    BY <1>1 DEF L!Make, L!Destroy, ListsInv, ListsType
  <1>4. \A c : ~On(c, s)
    BY <1>1 DEF On
  <1>5. /\ lists' \subseteq List /\ unsized' \subseteq lists' /\ listNodes' \subseteq Cell
        /\ \A m \in List : m # l => (m \in lists' <=> m \in lists) /\ (m \in unsized' <=> m \in unsized)
    BY DEF L!Make, L!Destroy, ListsInv, ListsType
  <1>6. \A c \in Cell : c \in listNodes' <=> c \in listNodes /\ ~On(c, L!Nodes(l))
    <2>1. CASE L!Make(l)
      <3>1. L!Nodes(l) = <<>> /\ listNodes' = listNodes
        BY <2>1 DEF L!Make, ListsInv, ListOK, L!Nodes
      <3> QED
        BY <3>1 DEF On
    <2>2. CASE L!Destroy(l)
      <3>1. L!Nodes(l) \in Seq(Cell)
        BY ListNodesType DEF ListsInv
      <3>2. \A c : c \in L!ToSet(L!Nodes(l)) <=> On(c, L!Nodes(l))
        BY <3>1 DEF L!ToSet, On
      <3> QED
        BY <2>2, <3>2 DEF L!Destroy
    <2> QED
      BY <2>1, <2>2
  <1>7. /\ 0 \in Int /\ Len(k) = Len(s) /\ datum' \in [Cell -> Datum]
        /\ \A i, j \in 1 .. Len(s) : s[i] = s[j] => i = j
        /\ \A i \in 1 .. Len(s) : datum'[s[i]] = k[i]
    BY <1>1, <1>3
  <1>8. /\ \A m \in List, c \in Cell : m # l /\ On(c, L!Nodes(m)) => ~On(c, s)
        /\ \A m \in List, c \in Cell : m # l /\ On(c, L!Nodes(m)) => datum'[c] = datum[c]
        /\ \A c \in Cell : c \in listNodes' <=> On(c, s) \/ (c \in listNodes /\ ~On(c, L!Nodes(l)))
    BY <1>3, <1>4, <1>6
  <1>9. /\ l \in lists' /\ l \notin unsized' => 0 % SizeValues = Len(s)
        /\ l \notin lists' => Len(s) = 0 /\ 0 % SizeValues = 0
    BY <1>1, <1>2
  <1> QED
    BY <1>3, <1>5, <1>7, <1>8, <1>9, BecomesInv

\* emplace_back.
LEMMA EmplaceInv ==
  ASSUME ListsInv, NEW l \in List, NEW new \in Cell, NEW d \in Datum, L!Emplace_back(l, new, d)
  PROVE  ListsInv'
  <1>1. PICK t \in Seq(Cell) : t = L!Nodes(l)
    BY ListNodesType DEF ListsInv
  <1>2. PICK s \in Seq(Cell) : s = Append(t, new)
    <2>1. Append(t, new) \in Seq(Cell)
      OBVIOUS
    <2> QED
      BY <2>1
  <1>3. /\ Len(s) = Len(t) + 1 /\ s[Len(s)] = new /\ \A i \in 1 .. Len(t) : s[i] = t[i]
        /\ Len(t) \in Nat
    BY <1>2
  <1>4. /\ l \in lists /\ new \notin listNodes /\ listNodes' = listNodes \cup {new}
        /\ datum' = [datum EXCEPT ![new] = d]
        /\ L!Becomes(l, s, listSize[l] + 1)
        /\ listContents' = [listContents EXCEPT ![l] = Append(listContents[l], d)]
        /\ UNCHANGED <<lists, unsized>>
    BY <1>1, <1>2 DEF L!Emplace_back
  <1>5. \A m \in List : ~On(new, L!Nodes(m))
    BY <1>4 DEF ListsInv
  <1>6. ListOK(l) /\ ListsType
    BY DEF ListsInv
  <1>7. /\ \A i, j \in 1 .. Len(t) : t[i] = t[j] => i = j
        /\ Len(listContents[l]) = Len(t) /\ \A i \in 1 .. Len(t) : datum[t[i]] = listContents[l][i]
        /\ l \notin unsized => listSize[l] = Len(t)
    BY <1>1, <1>4, <1>6 DEF ListOK
  <1>8. \A i \in 1 .. Len(t) : t[i] # new /\ t[i] \in Cell
    BY <1>1, <1>5, ElementOfSeq DEF On
  <1>9. \A i, j \in 1 .. Len(s) : s[i] = s[j] => i = j
    BY <1>3, <1>7, <1>8
  <1>10. PICK k \in Seq(Datum) : k = Append(listContents[l], d)
    <2>1. listContents[l] \in Seq(Datum)
      BY <1>6 DEF ListsType
    <2>2. Append(listContents[l], d) \in Seq(Datum)
      BY <2>1
    <2> QED
      BY <2>2
  <1>11. /\ Len(k) = Len(s) /\ k[Len(s)] = d
         /\ \A i \in 1 .. Len(t) : k[i] = listContents[l][i]
    <2>1. listContents[l] \in Seq(Datum)
      BY <1>6 DEF ListsType
    <2> QED
      BY <1>3, <1>7, <1>10, <2>1
  <1>12. /\ datum' \in [Cell -> Datum] /\ datum'[new] = d /\ \A c \in Cell : c # new => datum'[c] = datum[c]
    BY <1>4, <1>6 DEF ListsType
  <1>13. \A i \in 1 .. Len(s) : datum'[s[i]] = k[i]
    <2> SUFFICES ASSUME NEW i \in 1 .. Len(s) PROVE datum'[s[i]] = k[i]
      OBVIOUS
    <2>1. CASE i = Len(s)
      BY <1>3, <1>11, <1>12, <2>1
    <2>2. CASE i # Len(s)
      <3>1. i \in 1 .. Len(t)
        BY <1>3, <2>2
      <3> QED
        BY <1>3, <1>7, <1>8, <1>11, <1>12, <3>1
    <2> QED
      BY <2>1, <2>2
  <1>14. \A c \in Cell : On(c, s) <=> On(c, t) \/ c = new
    <2>1. ASSUME NEW c \in Cell, On(c, s) PROVE On(c, t) \/ c = new
      <3>1. PICK i \in 1 .. Len(s) : s[i] = c
        BY <2>1 DEF On
      <3>2. i = Len(s) \/ i \in 1 .. Len(t)
        BY <1>3
      <3> QED
        BY <1>3, <3>1, <3>2 DEF On
    <2>2. ASSUME NEW c \in Cell, On(c, t) PROVE On(c, s)
      <3>1. PICK i \in 1 .. Len(t) : t[i] = c
        BY <2>2 DEF On
      <3> QED
        BY <1>3, <3>1 DEF On
    <2>3. On(new, s)
      BY <1>3 DEF On
    <2> QED
      BY <2>1, <2>2, <2>3
  <1>15. \A m \in List, c \in Cell : m # l /\ On(c, L!Nodes(m)) => ~On(c, s) /\ datum'[c] = datum[c]
    BY <1>1, <1>5, <1>12, <1>14 DEF ListsInv
  <1>16. \A c \in Cell : c \in listNodes' <=> On(c, s) \/ (c \in listNodes /\ ~On(c, L!Nodes(l)))
    <2>1. \A c \in Cell : On(c, t) => c \in listNodes
      BY <1>1 DEF ListsInv
    <2> QED
      BY <1>1, <1>4, <1>14, <2>1
  <1>17. listSize[l] + 1 \in Int
    BY <1>6 DEF ListsType
  <1>18. l \in lists' /\ l \notin unsized' => (listSize[l] + 1) % SizeValues = Len(s)
    <2>1. Len(s) \in 0 .. SizeValues - 1
      BY <1>9, ShortLists
    <2>2. l \notin unsized => listSize[l] + 1 = Len(s)
      BY <1>3, <1>7
    <2> QED
      BY <1>4, <2>1, <2>2, SmallSize
  <1>19. /\ listNodes' \subseteq Cell /\ lists' \subseteq List /\ unsized' \subseteq lists' /\ l \in lists'
         /\ \A m \in List : m # l => (m \in lists' <=> m \in lists) /\ (m \in unsized' <=> m \in unsized)
    BY <1>4, <1>6 DEF ListsType
  <1>20. listContents' = [listContents EXCEPT ![l] = k] /\ L!Becomes(l, s, listSize[l] + 1)
    BY <1>4, <1>10
  <1>21. /\ \A m \in List, c \in Cell : m # l /\ On(c, L!Nodes(m)) => ~On(c, s)
         /\ \A m \in List, c \in Cell : m # l /\ On(c, L!Nodes(m)) => datum'[c] = datum[c]
         /\ Len(k) = Len(s) /\ datum' \in [Cell -> Datum]
         /\ l \notin lists' => Len(s) = 0 /\ (listSize[l] + 1) % SizeValues = 0
    BY <1>11, <1>12, <1>15, <1>19
  <1>22. PICK size \in Int : size = listSize[l] + 1
    BY <1>17
  <1> QED
    BY <1>9, <1>13, <1>16, <1>18, <1>19, <1>20, <1>21, <1>22, BecomesInv

\* SetToSeq lists a finite set, each element once.
LEMMA FreeCells ==
  ASSUME NEW F \in SUBSET Cell
  PROVE  /\ L!SetToSeq(F) \in Seq(F)
         /\ \A i, j \in 1 .. Len(L!SetToSeq(F)) : L!SetToSeq(F)[i] = L!SetToSeq(F)[j] => i = j
  <1>1. IsFiniteSet(F)
    BY FS_Subset, ListsAssumption
  <1>2. PICK n \in Nat : n = Cardinality(F) /\ ExistsBijection(1 .. n, F)
    BY <1>1, FS_CardinalityType
  <1>3. L!Cardinality(F) = n
    BY <1>2 DEF L!Cardinality, Cardinality
  <1>4. PICK g \in [1 .. n -> F] : \A i, j \in 1 .. n : g[i] = g[j] => i = j
    BY <1>2 DEF ExistsBijection, Bijection, Injection, IsInjective
  <1>5. L!IsInjective(g)
    BY <1>4 DEF L!IsInjective
  <1>6. L!SetToSeq(F) \in [1 .. n -> F] /\ L!IsInjective(L!SetToSeq(F))
    BY <1>3, <1>4, <1>5 DEF L!SetToSeq
  <1>7. PICK h \in [1 .. n -> F] : h = L!SetToSeq(F) /\ L!IsInjective(h)
    BY <1>6
  <1>8. h \in Seq(F) /\ Len(h) = n /\ \A i, j \in 1 .. n : h[i] = h[j] => i = j
    BY <1>7 DEF L!IsInjective
  <1> QED
    BY <1>7, <1>8

\* The copy constructor and the copy assignment.
LEMMA CopiedInv ==
  ASSUME ListsInv, NEW l \in List, NEW m \in List, L!CopyConstruct(l, m) \/ L!AssignCopied(l, m)
  PROVE  ListsInv'
  <1>1. PICK t \in Seq(Cell) : t = L!Nodes(l)
    BY ListNodesType DEF ListsInv
  <1>2. PICK source \in Seq(Cell) : source = IF l = m THEN <<>> ELSE L!Nodes(m)
    <2>1. L!Nodes(m) \in Seq(Cell) /\ <<>> \in Seq(Cell)
      BY ListNodesType DEF ListsInv
    <2> QED
      BY <2>1
  <1>3. ListOK(l) /\ ListOK(m) /\ ListsType
    BY DEF ListsInv
  <1>4. PICK left \in SUBSET Cell : left = listNodes \ L!ToSet(L!Nodes(l))
    BY <1>3 DEF ListsType
  <1>5. PICK free \in Seq(Cell \ left) :
          /\ free = L!SetToSeq(Cell \ left)
          /\ \A i, j \in 1 .. Len(free) : free[i] = free[j] => i = j
    BY FreeCells
  <1>6. PICK new : new = SubSeq(free, 1, Len(source))
    OBVIOUS
  <1>7. /\ Len(source) <= Len(free)
        /\ L!Becomes(l, new, listSize[l] - Len(t) + Len(source))
        /\ datum' = [n \in Cell |-> IF n \in L!ToSet(new)
                                    THEN datum[source[CHOOSE i \in DOMAIN new : new[i] = n]] ELSE datum[n]]
        /\ listNodes' = left \cup L!ToSet(new)
        /\ listContents' = [listContents EXCEPT ![l] = IF l = m THEN <<>> ELSE listContents[m]]
    <2>1. L!Copied(l, m)
      BY DEF L!CopyConstruct, L!AssignCopied
    <2> DEFINE Source == IF l = m THEN <<>> ELSE L!Nodes(m)
               Free == L!SetToSeq(Cell \ (listNodes \ L!ToSet(L!Nodes(l))))
               New == SubSeq(Free, 1, Len(Source))
    <2>2. /\ Len(Source) <= Len(Free)
          /\ L!Becomes(l, New, listSize[l] - Len(L!Nodes(l)) + Len(Source))
          /\ datum' = [n \in Cell |-> IF n \in L!ToSet(New)
                                      THEN datum[Source[CHOOSE i \in DOMAIN New : New[i] = n]] ELSE datum[n]]
          /\ listNodes' = (listNodes \ L!ToSet(L!Nodes(l))) \cup L!ToSet(New)
          /\ listContents' = [listContents EXCEPT ![l] = IF l = m THEN <<>> ELSE listContents[m]]
      BY <2>1, Zenon DEF L!Copied
    <2>3. source = Source /\ free = Free /\ new = New
      BY <1>2, <1>4, <1>5, <1>6
    <2> HIDE DEF Source, Free, New
    <2> QED
      BY <1>1, <1>4, <2>2, <2>3
  <1>8. /\ new \in Seq(Cell \ left) /\ Len(new) = Len(source) /\ DOMAIN new = 1 .. Len(source)
        /\ \A i \in 1 .. Len(new) : new[i] = free[i] /\ new[i] \in Cell \ left
    <2>1. /\ \A i \in 1 .. Len(source) : free[i] \in Cell \ left
          /\ Len(source) \in Nat /\ Len(free) \in Nat
      BY <1>7, ElementOfSeq
    <2>2. new = [i \in 1 .. Len(source) |-> free[i]]
      BY <1>6, <1>7, <2>1
    <2> QED
      BY <2>1, <2>2
  <1>9. \A i, j \in 1 .. Len(new) : new[i] = new[j] => i = j
    <2>1. \A i \in 1 .. Len(new) : i \in 1 .. Len(free)
      BY <1>7, <1>8
    <2> QED
      BY <1>5, <1>8, <2>1
  <1>10. /\ \A c : c \in L!ToSet(new) <=> On(c, new)
         /\ \A c \in Cell : c \in left <=> c \in listNodes /\ ~On(c, L!Nodes(l))
    <2>1. \A c : c \in L!ToSet(L!Nodes(l)) <=> On(c, L!Nodes(l))
      BY <1>1 DEF L!ToSet, On
    <2> QED
      BY <1>4, <1>8, <2>1 DEF L!ToSet, On
  <1>11. \A c \in Cell : On(c, new) => c \notin left
    BY <1>8 DEF On
  <1>12. \A n \in List, c \in Cell : n # l /\ On(c, L!Nodes(n)) => c \in left
    BY <1>10 DEF ListsInv
  <1>13. PICK k \in Seq(Datum) : k = IF l = m THEN <<>> ELSE listContents[m]
    <2>1. listContents[m] \in Seq(Datum) /\ <<>> \in Seq(Datum)
      BY <1>3 DEF ListsType
    <2> QED
      BY <2>1
  <1>14. Len(k) = Len(source) /\ \A i \in 1 .. Len(source) : source[i] \in Cell /\ datum[source[i]] = k[i]
    <2>1. CASE l = m
      BY <1>2, <1>13, <2>1
    <2>2. CASE l # m
      BY <1>2, <1>3, <1>13, <2>2, ElementOfSeq DEF ListOK
    <2> QED
      BY <2>1, <2>2
  <1>15. \A i \in 1 .. Len(new) : (CHOOSE j \in DOMAIN new : new[j] = new[i]) = i
    <2> SUFFICES ASSUME NEW i \in 1 .. Len(new) PROVE (CHOOSE j \in DOMAIN new : new[j] = new[i]) = i
      OBVIOUS
    <2>1. \A j \in DOMAIN new : new[j] = new[i] <=> j = i
      BY <1>8, <1>9
    <2>2. i \in DOMAIN new
      BY <1>8
    <2> QED
      BY <2>1, <2>2
  <1>16. \A i \in 1 .. Len(new) : datum'[new[i]] = k[i]
    <2> SUFFICES ASSUME NEW i \in 1 .. Len(new) PROVE datum'[new[i]] = k[i]
      OBVIOUS
    <2>1. new[i] \in Cell /\ new[i] \in L!ToSet(new)
      BY <1>8, <1>10 DEF On
    <2>2. datum'[new[i]] = datum[source[CHOOSE j \in DOMAIN new : new[j] = new[i]]]
      BY <1>7, <2>1
    <2>3. datum'[new[i]] = datum[source[i]]
      BY <1>15, <2>2
    <2> QED
      BY <1>8, <1>14, <2>3
  <1>17. datum' \in [Cell -> Datum]
    <2> SUFFICES ASSUME NEW c \in Cell PROVE datum'[c] \in Datum
      BY <1>7
    <2>1. CASE c \in L!ToSet(new)
      <3>1. PICK i \in 1 .. Len(new) : new[i] = c
        BY <1>10, <2>1 DEF On
      <3>2. k[i] \in Datum
        BY <1>8, <1>14, ElementOfSeq
      <3> QED
        BY <1>16, <3>1, <3>2
    <2>2. CASE c \notin L!ToSet(new)
      BY <1>3, <1>7, <2>2 DEF ListsType
    <2> QED
      BY <2>1, <2>2
  <1>18. \A n \in List, c \in Cell : n # l /\ On(c, L!Nodes(n)) => ~On(c, new) /\ datum'[c] = datum[c]
    BY <1>7, <1>10, <1>11, <1>12
  <1>19. /\ listNodes' \subseteq Cell
         /\ \A c \in Cell : c \in listNodes' <=> On(c, new) \/ (c \in listNodes /\ ~On(c, L!Nodes(l)))
    <2>1. L!ToSet(new) \subseteq Cell
      BY <1>8 DEF L!ToSet
    <2> QED
      BY <1>7, <1>10, <2>1
  <1>20. /\ lists' \subseteq List /\ unsized' \subseteq lists' /\ l \in lists' /\ unsized' = unsized
         /\ \A n \in List : n # l => (n \in lists' <=> n \in lists) /\ (n \in unsized' <=> n \in unsized)
    BY <1>3 DEF L!CopyConstruct, L!AssignCopied, ListsType
  <1>21. PICK size \in Int : size = listSize[l] - Len(t) + Len(source)
    BY <1>3 DEF ListsType
  <1>22. l \notin unsized' => size % SizeValues = Len(new)
    <2>1. l \notin unsized => listSize[l] = Len(t)
      <3>1. CASE l \in lists
        BY <1>1, <1>3, <3>1 DEF ListOK
      <3>2. CASE l \notin lists
        BY <1>1, <1>3, <3>2 DEF ListOK, L!Nodes
      <3> QED
        BY <3>1, <3>2
    <2>2. Len(new) \in 0 .. SizeValues - 1 /\ new \in Seq(Cell)
      <3>1. new \in Seq(Cell)
        BY <1>8
      <3> QED
        BY <1>9, <3>1, ShortLists
    <2>3. l \notin unsized => size = Len(new)
      BY <1>8, <1>21, <2>1
    <2> QED
      BY <1>20, <2>2, <2>3, SmallSize
  <1>23. /\ new \in Seq(Cell) /\ L!Becomes(l, new, size) /\ Len(k) = Len(new)
         /\ listContents' = [listContents EXCEPT ![l] = k]
    BY <1>7, <1>8, <1>13, <1>14, <1>21
  <1>24. /\ \A n \in List, c \in Cell : n # l /\ On(c, L!Nodes(n)) => ~On(c, new)
         /\ \A n \in List, c \in Cell : n # l /\ On(c, L!Nodes(n)) => datum'[c] = datum[c]
         /\ l \notin lists' => Len(new) = 0 /\ size % SizeValues = 0
    BY <1>18, <1>20
  <1> QED
    BY <1>9, <1>16, <1>17, <1>19, <1>20, <1>22, <1>23, <1>24, BecomesInv

\* The move constructor and the move assignment exchange two lists.
LEMMA ExchangeInv ==
  ASSUME ListsInv, NEW l \in List, NEW m \in List, NEW size \in 0 .. SizeValues - 1,
         L!Swap(l, m, size), L!Exchanged(l, m),
         lists' \subseteq List, unsized' \subseteq lists', {l, m} \subseteq lists',
         \A n \in List : n # l /\ n # m => (n \in lists' <=> n \in lists) /\ (n \in unsized' <=> n \in unsized),
         l \notin unsized' => m \in lists /\ m \notin unsized,
         m \notin unsized' => size = listSize[l] /\ l \in lists /\ l \notin unsized
  PROVE  ListsInv'
  <1>1. ListsType /\ ListOK(l) /\ ListOK(m)
    BY DEF ListsInv
  <1>2. /\ mBegin' = [mBegin EXCEPT ![l] = mBegin[m], ![m] = mBegin[l]]
        /\ mBeforeEnd' = [mBeforeEnd EXCEPT ![l] = mBeforeEnd[m], ![m] = mBeforeEnd[l]]
        /\ listSize' = [listSize EXCEPT ![l] = listSize[m], ![m] = size]
        /\ listContents' = [listContents EXCEPT ![l] = listContents[m], ![m] = listContents[l]]
        /\ chain' = chain /\ datum' = datum /\ listNodes' = listNodes
    BY DEF L!Swap, L!Exchanged
  <1>3. ListsType'
    BY <1>1, <1>2 DEF ListsType
  <1>4. /\ mBegin'[l] = mBegin[m] /\ mBegin'[m] = mBegin[l]
        /\ mBeforeEnd'[l] = mBeforeEnd[m] /\ mBeforeEnd'[m] = mBeforeEnd[l]
        /\ listContents'[l] = listContents[m] /\ listContents'[m] = listContents[l]
        /\ l # m => listSize'[l] = listSize[m]
        /\ listSize'[m] = size
        /\ \A n \in List : n # l /\ n # m =>
             /\ mBegin'[n] = mBegin[n] /\ mBeforeEnd'[n] = mBeforeEnd[n]
             /\ listContents'[n] = listContents[n] /\ listSize'[n] = listSize[n]
    BY <1>1, <1>2 DEF ListsType
  <1>5. /\ L!Nodes(l)' = L!Nodes(m) /\ L!Nodes(m)' = L!Nodes(l)
        /\ \A n \in List : n # l /\ n # m => L!Nodes(n)' = L!Nodes(n)
    <2>1. \A n : L!Nodes(n)' = IF mBegin'[n] = Null THEN <<>> ELSE chain[mBegin'[n]]
      BY <1>2 DEF L!Nodes
    <2>2. \A n : L!Nodes(n) = IF mBegin[n] = Null THEN <<>> ELSE chain[mBegin[n]]
      BY DEF L!Nodes
    <2> QED
      BY <1>4, <2>1, <2>2
  <1>6. ListOK(m)'
    <2>1. PICK s \in Seq(Cell) : s = L!Nodes(l) /\ s = L!Nodes(m)'
      BY <1>1, <1>5, ListNodesType
    <2> QED
      <3>1. /\ mBegin[l] # Null => Len(s) > 0 /\ s[1] = mBegin[l]
            /\ \A i, j \in 1 .. Len(s) : s[i] = s[j] => i = j
            /\ Len(listContents[l]) = Len(s) /\ \A i \in 1 .. Len(s) : datum[s[i]] = listContents[l][i]
            /\ mBeforeEnd[l] = IF Len(s) = 0 THEN Null ELSE s[Len(s)]
            /\ l \in lists /\ l \notin unsized => listSize[l] = Len(s)
        BY <1>1, <2>1 DEF ListOK
      <3>2. m \in lists' /\ (m \notin unsized' => size = Len(s)) /\ datum' = datum
        BY <1>2, <3>1
      <3> QED
        BY <1>4, <2>1, <3>1, <3>2 DEF ListOK
  <1>7. ListOK(l)'
    <2>1. CASE l = m
      BY <1>6, <2>1
    <2>2. CASE l # m
      <3>1. PICK s \in Seq(Cell) : s = L!Nodes(m) /\ s = L!Nodes(l)'
        BY <1>1, <1>5, ListNodesType
      <3> QED
        <4>1. /\ mBegin[m] # Null => Len(s) > 0 /\ s[1] = mBegin[m]
              /\ \A i, j \in 1 .. Len(s) : s[i] = s[j] => i = j
              /\ Len(listContents[m]) = Len(s) /\ \A i \in 1 .. Len(s) : datum[s[i]] = listContents[m][i]
              /\ mBeforeEnd[m] = IF Len(s) = 0 THEN Null ELSE s[Len(s)]
              /\ m \in lists /\ m \notin unsized => listSize[m] = Len(s)
          BY <1>1, <3>1 DEF ListOK
        <4>2. l \in lists' /\ (l \notin unsized' => listSize[m] = Len(s)) /\ datum' = datum
          BY <1>2, <4>1
        <4> QED
          BY <1>4, <2>2, <3>1, <4>1, <4>2 DEF ListOK
    <2> QED
      BY <2>1, <2>2
  <1>8. ASSUME NEW n \in List, n # l, n # m PROVE ListOK(n)'
    <2>1. ListOK(n)
      BY DEF ListsInv
    <2>2. PICK s \in Seq(Cell) : s = L!Nodes(n) /\ s = L!Nodes(n)'
      BY <1>1, <1>5, <1>8, ListNodesType
    <2> QED
      <3>1. /\ mBegin'[n] = mBegin[n] /\ mBeforeEnd'[n] = mBeforeEnd[n]
            /\ listContents'[n] = listContents[n] /\ listSize'[n] = listSize[n] /\ datum' = datum
            /\ n \in lists' <=> n \in lists
            /\ n \in unsized' <=> n \in unsized
        BY <1>2, <1>4, <1>8
      <3>2. /\ mBegin[n] # Null => Len(s) > 0 /\ s[1] = mBegin[n]
            /\ \A i, j \in 1 .. Len(s) : s[i] = s[j] => i = j
            /\ Len(listContents[n]) = Len(s) /\ \A i \in 1 .. Len(s) : datum[s[i]] = listContents[n][i]
            /\ mBeforeEnd[n] = IF Len(s) = 0 THEN Null ELSE s[Len(s)]
            /\ n \in lists /\ n \notin unsized => listSize[n] = Len(s)
            /\ n \notin lists => mBegin[n] = Null /\ listSize[n] = 0
        BY <2>1, <2>2, Zenon DEF ListOK
      <3> QED
        BY <2>2, <3>1, <3>2, Zenon DEF ListOK
  <1>9. \A c, n : On(c, L!Nodes(n))' <=> On(c, L!Nodes(n)')
    BY DEF On
  <1>10. \A n, o \in List, c \in Cell : On(c, L!Nodes(n)') /\ On(c, L!Nodes(o)') => n = o
    BY <1>5 DEF ListsInv
  <1>11. \A c \in Cell : c \in listNodes' <=> \E n \in List : On(c, L!Nodes(n)')
    <2>1. \A c \in Cell : (\E n \in List : On(c, L!Nodes(n)')) <=> (\E n \in List : On(c, L!Nodes(n)))
      BY <1>5
    <2> QED
      BY <1>2, <2>1 DEF ListsInv
  <1> QED
    BY <1>3, <1>6, <1>7, <1>8, <1>9, <1>10, <1>11 DEF ListsInv

LEMMA ListMovesInv ==
  ASSUME ListsInv, NEW l \in List, NEW m \in List,
         L!AssignMoved(l, m) \/ \E garbage \in 0 .. SizeValues - 1 : L!MoveConstruct(l, m, garbage)
  PROVE  ListsInv'
  <1>1. ListsType
    BY DEF ListsInv
  <1>2. CASE L!AssignMoved(l, m)
    <2>1. /\ {l, m} \subseteq lists /\ L!Swap(l, m, listSize[l]) /\ L!Exchanged(l, m) /\ lists' = lists
          /\ unsized' = {IF x = l THEN m ELSE IF x = m THEN l ELSE x : x \in unsized}
      BY <1>2 DEF L!AssignMoved
    <2>2. /\ listSize[l] \in 0 .. SizeValues - 1 /\ unsized' \subseteq lists'
          /\ \A n \in List : n # l /\ n # m => (n \in unsized' <=> n \in unsized)
          /\ l \in unsized' <=> m \in unsized
          /\ m \in unsized' <=> l \in unsized
      BY <1>1, <2>1 DEF ListsType
    <2> QED
      BY <1>1, <2>1, <2>2, ExchangeInv DEF ListsType
  <1>3. ASSUME NEW garbage \in 0 .. SizeValues - 1, L!MoveConstruct(l, m, garbage) PROVE ListsInv'
    <2>1. /\ l \notin lists /\ m \in lists /\ lists' = lists \cup {l}
          /\ L!Swap(l, m, garbage) /\ L!Exchanged(l, m)
          /\ unsized' = (IF m \in unsized THEN unsized \cup {l} ELSE unsized) \cup {m}
      BY <1>3 DEF L!MoveConstruct
    <2>2. /\ unsized' \subseteq lists' /\ lists' \subseteq List /\ {l, m} \subseteq lists' /\ m \in unsized'
          /\ \A n \in List : n # l /\ n # m => (n \in lists' <=> n \in lists) /\ (n \in unsized' <=> n \in unsized)
          /\ l \notin unsized' => m \in lists /\ m \notin unsized
      BY <1>1, <2>1 DEF ListsType
    <2> QED
      BY <2>1, <2>2, ExchangeInv
  <1> QED
    BY <1>2, <1>3

\* Copies, moves and swaps of lists lose, share and leak no node.
THEOREM ListsAlwaysKeepNodes == L!Spec => []ListsKeepNodes
  <1>1. L!Init => ListsInv
    <2> SUFFICES ASSUME L!Init PROVE ListsInv
      OBVIOUS
    <2>1. ListsType
      <3>1. (CHOOSE d \in Datum : TRUE) \in Datum /\ 0 \in 0 .. SizeValues - 1
        BY ListsAssumption, FS_CardinalityType
      <3>2. <<>> \in Seq(Cell) /\ <<>> \in Seq(Datum)
        OBVIOUS
      <3> QED
        BY <3>1, <3>2 DEF L!Init, ListsType
    <2>2. \A l \in List : L!Nodes(l) = <<>>
      BY DEF L!Init, L!Nodes
    <2>3. \A l \in List : ListOK(l)
      BY <2>2 DEF L!Init, ListOK
    <2>4. \A l \in List : \A c : ~On(c, L!Nodes(l))
      BY <2>2 DEF On
    <2> QED
      BY <2>1, <2>3, <2>4 DEF L!Init, ListsInv
  <1>2. ListsInv /\ [L!Next]_L!vars => ListsInv'
    <2> SUFFICES ASSUME ListsInv, [L!Next]_L!vars PROVE ListsInv'
      OBVIOUS
    <2>1. ASSUME NEW l \in List, L!Make(l) \/ L!Destroy(l) PROVE ListsInv'
      BY <2>1, MakeListInv
    <2>2. ASSUME NEW l \in List, NEW new \in Cell, NEW d \in Datum, L!Emplace_back(l, new, d) PROVE ListsInv'
      BY <2>2, EmplaceInv
    <2>3. ASSUME NEW l \in List, NEW m \in List, L!CopyConstruct(l, m) \/ L!AssignCopied(l, m) PROVE ListsInv'
      BY <2>3, CopiedInv
    <2>4. ASSUME NEW l \in List, NEW m \in List,
                 L!AssignMoved(l, m) \/ \E garbage \in 0 .. SizeValues - 1 : L!MoveConstruct(l, m, garbage)
          PROVE  ListsInv'
      BY <2>4, ListMovesInv
    <2>5. CASE UNCHANGED L!vars
      BY <2>5 DEF L!vars, ListsInv, ListsType, ListOK, On, L!Nodes
    <2> QED
      BY <2>1, <2>2, <2>3, <2>4, <2>5, Zenon DEF L!Next
  <1>3. ListsInv => ListsKeepNodes
    <2> SUFFICES ASSUME ListsInv PROVE L!ListsKeepNodes
      BY DEF ListsKeepNodes
    <2>1. /\ \A l \in List : L!Nodes(l) \in Seq(Cell) /\ listContents[l] \in Seq(Datum)
          /\ lists \subseteq List
      BY ListNodesType DEF ListsInv, ListsType
    <2>2. \A l \in List : \A c : c \in L!ToSet(L!Nodes(l)) <=> On(c, L!Nodes(l))
      BY <2>1 DEF L!ToSet, On
    <2>3. ASSUME NEW l \in lists
          PROVE  /\ [i \in DOMAIN L!Nodes(l) |-> datum[L!Nodes(l)[i]]] = listContents[l]
                 /\ mBeforeEnd[l] = IF L!Nodes(l) = <<>> THEN Null ELSE L!Last(L!Nodes(l))
                 /\ l \notin unsized => listSize[l] = Len(listContents[l])
      <3>1. PICK s \in Seq(Cell), k \in Seq(Datum) : s = L!Nodes(l) /\ k = listContents[l]
        BY <2>1
      <3>2. /\ Len(k) = Len(s) /\ \A i \in 1 .. Len(s) : datum[s[i]] = k[i]
            /\ mBeforeEnd[l] = IF Len(s) = 0 THEN Null ELSE s[Len(s)]
            /\ l \notin unsized => listSize[l] = Len(s)
        BY <2>1, <2>3, <3>1 DEF ListsInv, ListOK
      <3>3. [i \in DOMAIN s |-> datum[s[i]]] = k
        BY <3>2
      <3>4. s = <<>> <=> Len(s) = 0
        OBVIOUS
      <3> QED
        BY <3>1, <3>2, <3>3, <3>4 DEF L!Last
    <2>4. ASSUME NEW l \in lists, NEW m \in lists \ {l} PROVE L!ToSet(L!Nodes(l)) \cap L!ToSet(L!Nodes(m)) = {}
      <3>1. \A c : On(c, L!Nodes(l)) => c \in Cell
        BY <2>1, <2>4, ElementOfSeq DEF On
      <3> QED
        BY <2>1, <2>2, <3>1 DEF ListsInv
    <2>5. listNodes = UNION {L!ToSet(L!Nodes(l)) : l \in lists}
      <3>1. \A l \in List \ lists : L!Nodes(l) = <<>>
        BY DEF ListsInv, ListOK, L!Nodes
      <3>2. \A l \in List \ lists : \A c : ~On(c, L!Nodes(l))
        BY <3>1 DEF On
      <3>3. \A l \in List : \A c : On(c, L!Nodes(l)) => c \in Cell
        BY <2>1, ElementOfSeq DEF On
      <3>4. \A c : c \in listNodes <=> \E l \in lists : c \in L!ToSet(L!Nodes(l))
        BY <2>1, <2>2, <3>2, <3>3 DEF ListsInv, ListsType
      <3> QED
        BY <3>4
    <2> QED
      BY <2>3, <2>4, <2>5 DEF L!ListsKeepNodes
  <1> QED
    BY <1>1, <1>2, <1>3, PTL DEF L!Spec

-----------------------------------------------------------------------------
(* Vectors.                                                                *)

\* The variables of the vectors.
VectorsType ==
  /\ vectorMade \subseteq Vector
  /\ mPointer \in [Vector -> Buffer \cup {Null}] /\ mSize \in [Vector -> Nat]
  /\ heap \in [Buffer -> Seq(Element \cup {Dead})]
  /\ allocated \in SUBSET Buffer /\ vectorFreed \in SUBSET allocated
  /\ contents \in [Vector -> Seq(Element)]

\* A vector with elements, as far as its size tells: one that wrapped is larger.
Filled(v) == mSize[v] > 0 /\ mSize[v] <= MaxSize

\* The buffer of a vector that has one: allocated, and with room for its elements
\* unless it was freed.
InBuffer(v) ==
  Filled(v) =>
    /\ mPointer[v] \in allocated
    /\ mPointer[v] \notin vectorFreed => Len(heap[mPointer[v]]) >= mSize[v]

\* A vector that no operation has broken.
Sound(v) ==
  /\ mSize[v] <= MaxSize
  /\ mSize[v] > 0 => mPointer[v] \notin vectorFreed
  /\ Len(contents[v]) = mSize[v]
  /\ \A i \in 1 .. mSize[v] : heap[mPointer[v]][i] = contents[v][i]

VectorsInv ==
  /\ VectorsType
  /\ \A v \in Vector : InBuffer(v) /\ (v \notin vectorMade => mSize[v] = 0)
  /\ \A v, w \in Vector : v # w /\ Filled(v) /\ Filled(w) => mPointer[v] # mPointer[w]
  /\ \A v \in vectorMade : v \notin tainted => Sound(v)

\* A memory: a vector's pointer and size with the heap around them.
VectorMemory ==
  [pointer : Buffer \cup {Null}, size : Nat, heap : [Buffer -> Seq(Element \cup {Dead})],
   allocated : SUBSET Buffer, freed : SUBSET Buffer]

\* Its elements are in an allocated buffer that is not freed.
Backed(m) ==
  /\ m.freed \subseteq m.allocated
  /\ m.size > 0 =>
       m.pointer \in m.allocated /\ m.pointer \notin m.freed /\ m.size <= Len(m.heap[m.pointer])

\* A prefix by its elements.
LEMMA PrefixIs ==
  ASSUME NEW T, NEW t \in Seq(T), NEW n \in Nat, n <= Len(t)
  PROVE  /\ SubSeq(t, 1, n) \in Seq(T) /\ Len(SubSeq(t, 1, n)) = n
         /\ \A i \in 1 .. n : SubSeq(t, 1, n)[i] = t[i]
  <1>1. \A i \in 1 .. n : t[i] \in T
    BY ElementOfSeq
  <1>2. SubSeq(t, 1, n) = [i \in 1 .. n |-> t[i]]
    OBVIOUS
  <1> QED
    BY <1>1, <1>2

\* A suffix by its elements.
LEMMA SuffixIs ==
  ASSUME NEW T, NEW t \in Seq(T), NEW n \in Nat, n <= Len(t)
  PROVE  /\ SubSeq(t, n + 1, Len(t)) \in Seq(T) /\ Len(SubSeq(t, n + 1, Len(t))) = Len(t) - n
         /\ \A i \in 1 .. Len(t) - n : SubSeq(t, n + 1, Len(t))[i] = t[n + i]
  <1>1. \A i \in 1 .. Len(t) - n : t[n + i] \in T
    BY ElementOfSeq
  <1>2. Len(t) - n \in Nat /\ n + 1 \in 1 .. Len(t) + 1
    OBVIOUS
  <1>3. SubSeq(t, n + 1, Len(t)) = [i \in 1 .. Len(t) - n |-> t[n + i]]
    BY <1>2
  <1> QED
    BY <1>1, <1>2, <1>3

\* A concatenation by its elements.
LEMMA ConcatIs ==
  ASSUME NEW T, NEW x \in Seq(T), NEW z \in Seq(T), NEW n \in Nat, Len(x) = n
  PROVE  /\ x \o z \in Seq(T) /\ Len(x \o z) = n + Len(z)
         /\ \A i \in 1 .. n + Len(z) : (x \o z)[i] = IF i <= n THEN x[i] ELSE z[i - n]
  BY ConcatProperties

\* A sequence written over part of another.
Splice(t, k, s) == SubSeq(t, 1, k) \o s \o SubSeq(t, k + Len(s) + 1, Len(t))

LEMMA SpliceIs ==
  ASSUME NEW T, NEW t \in Seq(T), NEW s \in Seq(T), NEW k \in Nat, k + Len(s) <= Len(t)
  PROVE  /\ Splice(t, k, s) \in Seq(T) /\ Len(Splice(t, k, s)) = Len(t)
         /\ \A i \in 1 .. Len(t) : Splice(t, k, s)[i] = IF k < i /\ i <= k + Len(s) THEN s[i - k] ELSE t[i]
  <1>1. PICK n \in Nat, size \in Nat : n = k + Len(s) /\ n <= size /\ size = Len(t) /\ k <= n /\ Len(s) = n - k
    OBVIOUS
  <1>2. PICK a : a = SubSeq(t, 1, k) /\ a \in Seq(T) /\ Len(a) = k /\ \A i \in 1 .. k : a[i] = t[i]
    <2>1. k <= Len(t)
      BY <1>1
    <2>2. /\ SubSeq(t, 1, k) \in Seq(T) /\ Len(SubSeq(t, 1, k)) = k
          /\ \A i \in 1 .. k : SubSeq(t, 1, k)[i] = t[i]
      BY <2>1, PrefixIs
    <2> QED
      BY <2>2, Zenon
  <1>3. PICK z : /\ z = SubSeq(t, n + 1, Len(t)) /\ z \in Seq(T) /\ Len(z) = size - n
                 /\ \A i \in 1 .. size - n : z[i] = t[n + i]
    <2>1. n <= Len(t)
      BY <1>1
    <2>2. /\ SubSeq(t, n + 1, Len(t)) \in Seq(T) /\ Len(SubSeq(t, n + 1, Len(t))) = Len(t) - n
          /\ \A i \in 1 .. Len(t) - n : SubSeq(t, n + 1, Len(t))[i] = t[n + i]
      BY <2>1, SuffixIs
    <2> QED
      BY <1>1, <2>2, Zenon
  <1>4. PICK x : /\ x = a \o s /\ x \in Seq(T) /\ Len(x) = n
                 /\ \A i \in 1 .. n : x[i] = IF i <= k THEN a[i] ELSE s[i - k]
    <2>1. /\ a \o s \in Seq(T) /\ Len(a \o s) = k + Len(s)
          /\ \A i \in 1 .. k + Len(s) : (a \o s)[i] = IF i <= k THEN a[i] ELSE s[i - k]
      BY <1>2, ConcatIs
    <2> QED
      BY <1>1, <2>1, Zenon
  <1>5. PICK u : /\ u = x \o z /\ u \in Seq(T) /\ Len(u) = size
                 /\ \A i \in 1 .. size : u[i] = IF i <= n THEN x[i] ELSE z[i - n]
    <2>0. x \in Seq(T) /\ z \in Seq(T) /\ Len(x) = n
      BY <1>3, <1>4, Zenon
    <2>1. /\ x \o z \in Seq(T) /\ Len(x \o z) = n + Len(z)
          /\ \A i \in 1 .. n + Len(z) : (x \o z)[i] = IF i <= n THEN x[i] ELSE z[i - n]
      BY <2>0, ConcatIs, SMTT(30)
    <2>2. n + Len(z) = size
      <3>1. Len(z) = size - n
        BY <1>3, Zenon
      <3>2. n + (size - n) = size
        BY <1>1
      <3> QED
        BY <3>1, <3>2, Zenon
    <2> QED
      BY <2>1, <2>2, Zenon
  <1>6. ASSUME NEW i \in 1 .. size PROVE u[i] = IF k < i /\ i <= n THEN s[i - k] ELSE t[i]
    <2>1. CASE i <= k
      <3>1. i \in 1 .. k /\ i \in 1 .. n /\ i <= n
        BY <1>1, <2>1
      <3>2. u[i] = x[i] /\ x[i] = a[i] /\ a[i] = t[i]
        BY <1>2, <1>4, <1>5, <2>1, <3>1
      <3> QED
        BY <2>1, <3>2
    <2>2. CASE k < i /\ i <= n
      <3>1. i \in 1 .. n /\ ~(i <= k)
        BY <1>1, <2>2
      <3>2. u[i] = x[i] /\ x[i] = s[i - k]
        BY <1>4, <1>5, <2>2, <3>1
      <3> QED
        BY <2>2, <3>2
    <2>3. CASE n < i
      <3>1. i - n \in 1 .. size - n /\ n + (i - n) = i /\ ~(i <= n)
        BY <1>1, <2>3
      <3>2. u[i] = z[i - n] /\ z[i - n] = t[n + (i - n)]
        BY <1>3, <1>5, <3>1
      <3> QED
        BY <3>1, <3>2
    <2> QED
      BY <1>1, <2>1, <2>2, <2>3
  <1>7. Splice(t, k, s) = u
    BY <1>1, <1>2, <1>3, <1>4, <1>5, Zenon DEF Splice
  <1> QED
    BY <1>1, <1>5, <1>6, <1>7

\* FilledWith by its elements.
LEMMA FilledIs ==
  ASSUME NEW T, NEW x \in T, NEW n \in Nat
  PROVE  /\ V!FilledWith(n, x) \in Seq(T) /\ Len(V!FilledWith(n, x)) = n
         /\ \A i \in 1 .. n : V!FilledWith(n, x)[i] = x
  BY DEF V!FilledWith

\* mAllocator.allocate hands out a new buffer of dead cells.
LEMMA AllocateIs ==
  ASSUME NEW m \in VectorMemory, m.allocated # Buffer, NEW n \in Nat
  PROVE  \E b \in Buffer \ m.allocated :
           V!Allocate(m, n) = [pointer |-> b, size |-> n, heap |-> [m.heap EXCEPT ![b] = V!FilledWith(n, Dead)],
                               allocated |-> m.allocated \cup {b}, freed |-> m.freed]
  <1>1. PICK b \in Buffer \ m.allocated : b = CHOOSE x \in Buffer : x \notin m.allocated
    <2>1. \E x \in Buffer : x \notin m.allocated
      BY DEF VectorMemory
    <2>2. (CHOOSE x \in Buffer : x \notin m.allocated) \in Buffer \ m.allocated
      BY <2>1
    <2> QED
      BY <2>2
  <1>2. V!Allocate(m, n) = [m EXCEPT !.pointer = b, !.size = n, !.allocated = @ \cup {b},
                                     !.heap[b] = V!FilledWith(n, Dead)]
    BY <1>1, Zenon DEF V!Allocate
  <1>3. V!Allocate(m, n) = [pointer |-> b, size |-> n, heap |-> [m.heap EXCEPT ![b] = V!FilledWith(n, Dead)],
                            allocated |-> m.allocated \cup {b}, freed |-> m.freed]
    BY <1>2 DEF VectorMemory
  <1> QED
    BY <1>3

\* insertToUninitilizedBuffer writes its range and nothing else.
LEMMA InsertIs ==
  ASSUME NEW m \in VectorMemory, NEW s \in Seq(Element \cup {Dead}), NEW k \in Nat,
         Len(s) > 0 => m.pointer \in Buffer /\ k + Len(s) <= Len(m.heap[m.pointer])
  PROVE  LET r == V!InsertAt(m, k, s) IN
         /\ r \in VectorMemory
         /\ r.pointer = m.pointer /\ r.size = m.size /\ r.allocated = m.allocated /\ r.freed = m.freed
         /\ \A b \in Buffer : b # m.pointer => r.heap[b] = m.heap[b]
         /\ m.pointer \in Buffer =>
              /\ Len(r.heap[m.pointer]) = Len(m.heap[m.pointer])
              /\ \A i \in 1 .. Len(m.heap[m.pointer]) :
                   r.heap[m.pointer][i] = IF k < i /\ i <= k + Len(s) THEN s[i - k] ELSE m.heap[m.pointer][i]
  <1>1. CASE Len(s) = 0
    <2>1. s = <<>>
      BY <1>1
    <2>2. V!InsertAt(m, k, s) = m
      BY <2>1 DEF V!InsertAt
    <2>3. \A i \in Nat : ~(k < i /\ i <= k + Len(s))
      BY <1>1
    <2> QED
      BY <2>2, <2>3
  <1>2. CASE Len(s) # 0
    <2>1. s # <<>> /\ m.pointer \in Buffer /\ k + Len(s) <= Len(m.heap[m.pointer])
      BY <1>2
    <2>2. PICK t \in Seq(Element \cup {Dead}) : t = m.heap[m.pointer]
      BY <2>1 DEF VectorMemory
    <2>3. PICK u : u = Splice(t, k, s)
      OBVIOUS
    <2>4. /\ u \in Seq(Element \cup {Dead}) /\ Len(u) = Len(t)
          /\ \A i \in 1 .. Len(t) : u[i] = IF k < i /\ i <= k + Len(s) THEN s[i - k] ELSE t[i]
      <3>1. k + Len(s) <= Len(t)
        BY <2>1, <2>2
      <3> QED
        BY <2>3, <3>1, SpliceIs
    <2>5. V!InsertAt(m, k, s) = [m EXCEPT !.heap[m.pointer] = Splice(@, k, s)]
      BY <2>1, Zenon DEF V!InsertAt, Splice
    <2>6. V!InsertAt(m, k, s) = [pointer |-> m.pointer, size |-> m.size, heap |-> [m.heap EXCEPT ![m.pointer] = u],
                                 allocated |-> m.allocated, freed |-> m.freed]
      BY <2>1, <2>2, <2>3, <2>5 DEF VectorMemory
    <2>7. PICK r : r = V!InsertAt(m, k, s)
      OBVIOUS
    <2>8. /\ r.pointer = m.pointer /\ r.size = m.size /\ r.allocated = m.allocated /\ r.freed = m.freed
          /\ r.heap = [m.heap EXCEPT ![m.pointer] = u]
      BY <2>6, <2>7
    <2>9. r.heap \in [Buffer -> Seq(Element \cup {Dead})] /\ r.heap[m.pointer] = u
      BY <2>1, <2>4, <2>8 DEF VectorMemory
    <2>10. r \in VectorMemory
      BY <2>6, <2>7, <2>8, <2>9 DEF VectorMemory
    <2>11. \A b \in Buffer : b # m.pointer => r.heap[b] = m.heap[b]
      BY <2>8 DEF VectorMemory
    <2> QED
      BY <2>2, <2>4, <2>7, <2>8, <2>9, <2>10, <2>11
  <1> QED
    BY <1>1, <1>2

\* deleteAll frees the buffer of the elements.
LEMMA DeleteIs ==
  ASSUME NEW m \in VectorMemory, m.size > 0 => m.pointer \in Buffer
  PROVE  LET r == V!DeleteAll(m) IN
         /\ r \in VectorMemory
         /\ r.pointer = m.pointer /\ r.size = m.size /\ r.allocated = m.allocated
         /\ r.freed = m.freed \cup (IF m.size > 0 THEN {m.pointer} ELSE {})
         /\ \A b \in Buffer : b # m.pointer \/ m.size = 0 => r.heap[b] = m.heap[b]
  <1>1. CASE m.size = 0
    BY <1>1 DEF V!DeleteAll
  <1>2. CASE m.size # 0
    <2>1. m.size > 0 /\ m.pointer \in Buffer
      BY <1>2 DEF VectorMemory
    <2>2. V!DeleteAll(m) = [pointer |-> m.pointer, size |-> m.size, heap |-> [m.heap EXCEPT ![m.pointer] = <<>>],
                            allocated |-> m.allocated, freed |-> m.freed \cup {m.pointer}]
      BY <1>2, <2>1 DEF V!DeleteAll, VectorMemory
    <2>3. <<>> \in Seq(Element \cup {Dead})
      OBVIOUS
    <2> QED
      BY <2>1, <2>2, <2>3 DEF VectorMemory
  <1> QED
    BY <1>1, <1>2

\* destruct leaves the buffer its length.
LEMMA DestructIs ==
  ASSUME NEW m \in VectorMemory, Backed(m)
  PROVE  LET r == V!DestructAll(m) IN
         /\ r \in VectorMemory /\ Backed(r)
         /\ r.pointer = m.pointer /\ r.size = m.size /\ r.allocated = m.allocated /\ r.freed = m.freed
         /\ \A b \in Buffer : b # m.pointer \/ m.size = 0 => r.heap[b] = m.heap[b]
  <1>1. CASE m.size = 0
    BY <1>1 DEF V!DestructAll
  <1>2. CASE m.size # 0
    <2>1. /\ m.size \in Nat /\ m.size > 0 /\ m.pointer \in Buffer /\ m.pointer \in m.allocated
          /\ m.pointer \notin m.freed /\ m.size <= Len(m.heap[m.pointer])
      BY <1>2 DEF VectorMemory, Backed
    <2>2. PICK t \in Seq(Element \cup {Dead}) : t = m.heap[m.pointer]
      BY <2>1 DEF VectorMemory
    <2>3. PICK u : u = V!FilledWith(m.size, Dead) \o SubSeq(t, m.size + 1, Len(t))
      OBVIOUS
    <2>4. u \in Seq(Element \cup {Dead}) /\ Len(u) = Len(t)
      <3>1. PICK n \in Nat : n = m.size /\ n <= Len(t)
        BY <2>1, <2>2
      <3>2. /\ SubSeq(t, n + 1, Len(t)) \in Seq(Element \cup {Dead})
            /\ Len(SubSeq(t, n + 1, Len(t))) = Len(t) - n
        BY <3>1, SuffixIs
      <3>3. V!FilledWith(n, Dead) \in Seq(Element \cup {Dead}) /\ Len(V!FilledWith(n, Dead)) = n
        BY FilledIs
      <3>4. PICK x \in Seq(Element \cup {Dead}), z \in Seq(Element \cup {Dead}) :
              x = V!FilledWith(n, Dead) /\ z = SubSeq(t, n + 1, Len(t)) /\ Len(x) = n /\ Len(z) = Len(t) - n
        BY <3>2, <3>3, Zenon
      <3>5. x \o z \in Seq(Element \cup {Dead}) /\ Len(x \o z) = n + Len(z)
        BY <3>4, ConcatIs
      <3>6. u = x \o z
        BY <2>3, <3>1, <3>4
      <3>7. n + (Len(t) - n) = Len(t)
        BY <3>1
      <3> QED
        BY <3>4, <3>5, <3>6, <3>7, Zenon
    <2>5. V!DestructAll(m) = [pointer |-> m.pointer, size |-> m.size, heap |-> [m.heap EXCEPT ![m.pointer] = u],
                              allocated |-> m.allocated, freed |-> m.freed]
      BY <1>2, <2>1, <2>2, <2>3 DEF V!DestructAll, VectorMemory
    <2>6. PICK r : r = V!DestructAll(m)
      OBVIOUS
    <2>7. /\ r.pointer = m.pointer /\ r.size = m.size /\ r.allocated = m.allocated /\ r.freed = m.freed
          /\ r.heap = [m.heap EXCEPT ![m.pointer] = u]
      BY <2>5, <2>6
    <2>8. r.heap \in [Buffer -> Seq(Element \cup {Dead})] /\ r.heap[m.pointer] = u
      BY <2>1, <2>4, <2>7 DEF VectorMemory
    <2>9. r \in VectorMemory
      BY <2>5, <2>6, <2>7, <2>8 DEF VectorMemory
    <2>10. Backed(r)
      BY <2>1, <2>2, <2>4, <2>7, <2>8 DEF Backed
    <2>11. \A b \in Buffer : b # m.pointer => r.heap[b] = m.heap[b]
      BY <2>7 DEF VectorMemory
    <2> QED
      BY <1>2, <2>6, <2>7, <2>9, <2>10, <2>11
  <1> QED
    BY <1>1, <1>2

\* moveOldBufferToNew takes what fits of the old cells.
LEMMA OldCellsAre ==
  ASSUME NEW m \in VectorMemory, Backed(m), NEW n \in Nat
  PROVE  /\ V!OldCells(m, n) \in Seq(Element \cup {Dead})
         /\ Len(V!OldCells(m, n)) = IF n > m.size THEN m.size ELSE n
         /\ \A i \in 1 .. Len(V!OldCells(m, n)) : V!OldCells(m, n)[i] = m.heap[m.pointer][i]
  <1>1. PICK k \in Nat : k = (IF n > m.size THEN m.size ELSE n) /\ k <= m.size
    BY DEF VectorMemory
  <1>2. PICK c : c = V!Cells(m)
    OBVIOUS
  <1>3. V!OldCells(m, n) = SubSeq(c, 1, k)
    BY <1>1, <1>2 DEF V!OldCells, V!MovedCells
  <1>4. /\ c \in Seq(Element \cup {Dead}) /\ Len(c) = m.size
        /\ \A i \in 1 .. m.size : c[i] = m.heap[m.pointer][i]
    <2>1. CASE m.size = 0
      BY <1>2, <2>1 DEF V!Cells
    <2>2. CASE m.size # 0
      <3>1. /\ m.size \in Nat /\ m.size <= Len(m.heap[m.pointer])
            /\ m.heap[m.pointer] \in Seq(Element \cup {Dead})
        BY <2>2 DEF VectorMemory, Backed
      <3>2. c = SubSeq(m.heap[m.pointer], 1, m.size)
        BY <1>2, <2>2 DEF V!Cells
      <3> QED
        BY <3>1, <3>2, PrefixIs
    <2> QED
      BY <2>1, <2>2
  <1>5. k <= Len(c)
    BY <1>1, <1>4
  <1>6. SubSeq(c, 1, k) \in Seq(Element \cup {Dead}) /\ Len(SubSeq(c, 1, k)) = k
        /\ \A i \in 1 .. k : SubSeq(c, 1, k)[i] = c[i]
    BY <1>4, <1>5, PrefixIs
  <1>7. m.size \in Nat
    BY DEF VectorMemory
  <1> QED
    BY <1>1, <1>3, <1>4, <1>6, <1>7

\* What a step on a vector of memory m may leave of the other buffers.
Around(m, r) ==
  /\ m.allocated \subseteq r.allocated /\ m.freed \subseteq r.freed
  /\ \A b \in m.allocated :
       b # m.pointer \/ m.size = 0 => r.heap[b] = m.heap[b] /\ (b \in r.freed => b \in m.freed)
  /\ r.size > 0 => r.pointer \notin m.allocated \/ (m.size > 0 /\ r.pointer = m.pointer)

\* resizeBuffer: the old elements are in the new buffer, as far as they fit,
\* unless the size is the same.
LEMMA ResizeIs ==
  ASSUME NEW m \in VectorMemory, Backed(m), m.allocated # Buffer, NEW n \in Nat
  PROVE  LET r == V!ResizeBuffer(m, n) IN
         /\ r \in VectorMemory /\ Backed(r) /\ r.size = n /\ Around(m, r)
         /\ n # m.size => \A i \in 1 .. n : i <= m.size => r.heap[r.pointer][i] = m.heap[m.pointer][i]
  <1>0. m.size \in Nat /\ m.allocated \in SUBSET Buffer /\ m.freed \subseteq m.allocated
    BY DEF VectorMemory, Backed
  <1>1. CASE m.size = n
    <2>1. V!ResizeBuffer(m, n) = V!DestructAll(m)
      BY <1>1 DEF V!ResizeBuffer
    <2>2. PICK r : r = V!DestructAll(m)
      OBVIOUS
    <2>3. /\ r \in VectorMemory /\ Backed(r)
          /\ r.pointer = m.pointer /\ r.size = m.size /\ r.allocated = m.allocated /\ r.freed = m.freed
          /\ \A b \in Buffer : b # m.pointer \/ m.size = 0 => r.heap[b] = m.heap[b]
      BY <2>2, DestructIs
    <2>4. Around(m, r)
      BY <1>0, <2>3 DEF Around
    <2> QED
      BY <1>1, <2>1, <2>2, <2>3, <2>4
  <1>2. CASE m.size # n /\ n = 0
    <2>1. V!ResizeBuffer(m, n) = [V!DeleteAll([V!EmptyMemory(m) EXCEPT !.pointer = m.pointer, !.size = m.size])
                                    EXCEPT !.pointer = V!EmptyMemory(m).pointer, !.size = V!EmptyMemory(m).size]
      BY <1>2 DEF V!ResizeBuffer
    <2>2. /\ [V!EmptyMemory(m) EXCEPT !.pointer = m.pointer, !.size = m.size] = m
          /\ V!EmptyMemory(m).pointer = Null /\ V!EmptyMemory(m).size = 0
      BY DEF V!EmptyMemory, VectorMemory
    <2>3. PICK d : d = V!DeleteAll(m)
      OBVIOUS
    <2>4. m.size > 0 /\ m.pointer \in m.allocated /\ m.pointer \in Buffer
      BY <1>0, <1>2 DEF Backed
    <2>5. /\ d \in VectorMemory /\ d.allocated = m.allocated
          /\ d.freed = m.freed \cup {m.pointer}
          /\ \A b \in Buffer : b # m.pointer => d.heap[b] = m.heap[b]
      BY <2>3, <2>4, DeleteIs
    <2>6. PICK r : r = V!ResizeBuffer(m, n)
      OBVIOUS
    <2>7. r = [d EXCEPT !.pointer = Null, !.size = 0]
      BY <2>1, <2>2, <2>3, <2>6
    <2>8. /\ r \in VectorMemory /\ r.size = 0 /\ r.allocated = m.allocated /\ r.freed = m.freed \cup {m.pointer}
          /\ r.heap = d.heap
      BY <2>5, <2>7 DEF VectorMemory
    <2>9. Backed(r) /\ Around(m, r)
      BY <1>0, <2>4, <2>5, <2>8 DEF Backed, Around
    <2> QED
      BY <1>2, <2>6, <2>8, <2>9
  <1>3. CASE m.size # n /\ n # 0
    <2>1. PICK b \in Buffer \ m.allocated :
            V!Allocate(m, n) = [pointer |-> b, size |-> n, heap |-> [m.heap EXCEPT ![b] = V!FilledWith(n, Dead)],
                                allocated |-> m.allocated \cup {b}, freed |-> m.freed]
      BY AllocateIs
    <2>2. PICK a : a = V!Allocate(m, n)
      OBVIOUS
    <2>3. /\ a.pointer = b /\ a.size = n /\ a.heap = [m.heap EXCEPT ![b] = V!FilledWith(n, Dead)]
          /\ a.allocated = m.allocated \cup {b} /\ a.freed = m.freed
      BY <2>1, <2>2
    <2>4. V!FilledWith(n, Dead) \in Seq(Element \cup {Dead}) /\ Len(V!FilledWith(n, Dead)) = n
      BY FilledIs
    <2>5. /\ a.heap \in [Buffer -> Seq(Element \cup {Dead})] /\ Len(a.heap[b]) = n
          /\ \A x \in Buffer : x # b => a.heap[x] = m.heap[x]
      BY <2>3, <2>4 DEF VectorMemory
    <2>6. a \in VectorMemory
      BY <1>0, <2>1, <2>2, <2>3, <2>5 DEF VectorMemory
    <2>7. PICK s : s = V!OldCells(m, n)
      OBVIOUS
    <2>8. /\ s \in Seq(Element \cup {Dead}) /\ Len(s) <= n
          /\ Len(s) = (IF n > m.size THEN m.size ELSE n)
          /\ \A i \in 1 .. Len(s) : s[i] = m.heap[m.pointer][i]
      BY <1>0, <2>7, OldCellsAre
    <2>9. PICK q : q = V!InsertAt(a, 0, s)
      OBVIOUS
    <2>10. /\ q \in VectorMemory
           /\ q.pointer = b /\ q.size = n /\ q.allocated = m.allocated \cup {b} /\ q.freed = m.freed
           /\ \A x \in Buffer : x # b => q.heap[x] = m.heap[x]
           /\ Len(q.heap[b]) = n
           /\ \A i \in 1 .. Len(s) : q.heap[b][i] = s[i]
      <3>1. 0 \in Nat /\ (Len(s) > 0 => a.pointer \in Buffer /\ 0 + Len(s) <= Len(a.heap[a.pointer]))
        BY <2>3, <2>5, <2>8
      <3>2. /\ q \in VectorMemory
            /\ q.pointer = a.pointer /\ q.size = a.size /\ q.allocated = a.allocated /\ q.freed = a.freed
            /\ \A x \in Buffer : x # a.pointer => q.heap[x] = a.heap[x]
            /\ a.pointer \in Buffer =>
              /\ Len(q.heap[a.pointer]) = Len(a.heap[a.pointer])
              /\ \A i \in 1 .. Len(a.heap[a.pointer]) :
                   q.heap[a.pointer][i] = IF 0 < i /\ i <= 0 + Len(s) THEN s[i - 0] ELSE a.heap[a.pointer][i]
        BY <2>6, <2>8, <2>9, <3>1, InsertIs
      <3>3. \A i \in 1 .. n : q.heap[b][i] = IF 0 < i /\ i <= 0 + Len(s) THEN s[i - 0] ELSE a.heap[b][i]
        BY <2>3, <2>5, <3>2
      <3>4. \A i \in 1 .. Len(s) : i \in 1 .. n /\ 0 < i /\ i <= 0 + Len(s) /\ i - 0 = i
        BY <2>8
      <3> QED
        BY <2>3, <2>5, <3>2, <3>3, <3>4
    <2>11. PICK e : e = [q EXCEPT !.pointer = m.pointer, !.size = m.size]
      OBVIOUS
    <2>12. /\ e \in VectorMemory /\ e.pointer = m.pointer /\ e.size = m.size /\ e.allocated = q.allocated
           /\ e.freed = q.freed /\ e.heap = q.heap
      BY <2>10, <2>11 DEF VectorMemory
    <2>13. PICK d : d = V!DeleteAll(e)
      OBVIOUS
    <2>14. m.size > 0 => m.pointer \in Buffer /\ m.pointer \in m.allocated /\ m.pointer # b
      BY <1>0, <2>1 DEF Backed
    <2>15. /\ d \in VectorMemory /\ d.allocated = q.allocated
           /\ d.freed = q.freed \cup (IF m.size > 0 THEN {m.pointer} ELSE {})
           /\ \A x \in Buffer : x # m.pointer \/ m.size = 0 => d.heap[x] = q.heap[x]
      <3>1. e.size > 0 => e.pointer \in Buffer
        BY <2>12, <2>14
      <3> QED
        BY <2>12, <2>13, <3>1, DeleteIs
    <2>16. PICK r : r = V!ResizeBuffer(m, n)
      OBVIOUS
    <2>17. r = [d EXCEPT !.pointer = b, !.size = n]
      <3>1. r = [V!DeleteAll([q EXCEPT !.pointer = m.pointer, !.size = m.size]) EXCEPT !.pointer = q.pointer, !.size = q.size]
        BY <1>3, <2>2, <2>7, <2>9, <2>16, Zenon DEF V!ResizeBuffer
      <3> QED
        BY <2>10, <2>11, <2>13, <3>1
    <2>18. /\ r \in VectorMemory /\ r.pointer = b /\ r.size = n /\ r.allocated = m.allocated \cup {b}
           /\ r.freed = m.freed \cup (IF m.size > 0 THEN {m.pointer} ELSE {}) /\ r.heap = d.heap
      BY <2>10, <2>15, <2>17 DEF VectorMemory
    <2>19. d.heap[b] = q.heap[b]
      <3>1. b \in Buffer /\ (b # m.pointer \/ m.size = 0)
        BY <1>0, <2>1, <2>14
      <3> QED
        BY <2>15, <3>1
    <2>20. Backed(r)
      BY <1>0, <2>10, <2>14, <2>18, <2>19 DEF Backed
    <2>21. Around(m, r)
      BY <1>0, <2>1, <2>10, <2>14, <2>15, <2>18 DEF Around
    <2>22. ASSUME NEW i \in 1 .. n, i <= m.size PROVE r.heap[r.pointer][i] = m.heap[m.pointer][i]
      <3>1. i \in 1 .. Len(s)
        BY <1>0, <2>8, <2>22
      <3> QED
        BY <2>8, <2>10, <2>18, <2>19, <3>1
    <2> QED
      BY <2>16, <2>18, <2>20, <2>21, <2>22
  <1> QED
    BY <1>1, <1>2, <1>3

\* A memory r of n elements: m resized, and the range s written after k elements.
ResizedInto(m, r, n, k, s) ==
  /\ r \in VectorMemory /\ Backed(r) /\ r.size = n /\ Around(m, r)
  /\ \A i \in 1 .. n : k < i /\ i <= k + Len(s) => r.heap[r.pointer][i] = s[i - k]
  /\ n # m.size => \A i \in 1 .. n : i <= m.size /\ (i <= k \/ Len(s) = 0) =>
                     r.heap[r.pointer][i] = m.heap[m.pointer][i]

\* A resize, and a range written into the new buffer.
LEMMA ResizeInsertIs ==
  ASSUME NEW m \in VectorMemory, Backed(m), m.allocated # Buffer, NEW n \in Nat, NEW k \in Nat,
         NEW s \in Seq(Element \cup {Dead}), Len(s) = 0 \/ k + Len(s) = n
  PROVE  ResizedInto(m, V!InsertAt(V!ResizeBuffer(m, n), k, s), n, k, s)
  <1>1. PICK q : q = V!ResizeBuffer(m, n)
    OBVIOUS
  <1>2. /\ q \in VectorMemory /\ Backed(q) /\ q.size = n /\ Around(m, q)
        /\ n # m.size => \A i \in 1 .. n : i <= m.size => q.heap[q.pointer][i] = m.heap[m.pointer][i]
    BY <1>1, ResizeIs
  <1>3. n > 0 => /\ q.pointer \in Buffer /\ n <= Len(q.heap[q.pointer]) /\ Len(q.heap[q.pointer]) \in Nat
                 /\ q.pointer \in q.allocated /\ q.pointer \notin q.freed
    BY <1>2 DEF Backed, VectorMemory
  <1>4. Len(s) > 0 => q.pointer \in Buffer /\ k + Len(s) <= Len(q.heap[q.pointer])
    BY <1>3
  <1>5. PICK r : r = V!InsertAt(q, k, s)
    OBVIOUS
  <1>6. /\ r \in VectorMemory
        /\ r.pointer = q.pointer /\ r.size = n /\ r.allocated = q.allocated /\ r.freed = q.freed
        /\ \A b \in Buffer : b # q.pointer => r.heap[b] = q.heap[b]
        /\ q.pointer \in Buffer =>
              /\ Len(r.heap[q.pointer]) = Len(q.heap[q.pointer])
              /\ \A i \in 1 .. Len(q.heap[q.pointer]) :
                   r.heap[q.pointer][i] = IF k < i /\ i <= k + Len(s) THEN s[i - k] ELSE q.heap[q.pointer][i]
    BY <1>2, <1>4, <1>5, InsertIs
  <1>7. Backed(r)
    BY <1>2, <1>3, <1>6 DEF Backed
  <1>8. Around(m, r)
    <2>1. ASSUME NEW b \in m.allocated, b # m.pointer \/ m.size = 0
          PROVE  r.heap[b] = m.heap[b] /\ (b \in r.freed => b \in m.freed)
      <3>1. b \in Buffer /\ q.heap[b] = m.heap[b] /\ (b \in q.freed => b \in m.freed)
        BY <1>2, <2>1 DEF Around, VectorMemory
      <3>2. CASE n > 0
        <4>1. b # q.pointer
          BY <1>2, <2>1, <3>2 DEF Around
        <4> QED
          BY <1>6, <3>1, <4>1
      <3>3. CASE n = 0
        <4>1. Len(s) = 0 /\ s = <<>>
          BY <3>3
        <4>2. r = q
          BY <1>5, <4>1 DEF V!InsertAt
        <4> QED
          BY <3>1, <4>2
      <3> QED
        BY <3>2, <3>3
    <2> QED
      BY <1>2, <1>6, <2>1 DEF Around
  <1>9. ASSUME NEW i \in 1 .. n
        PROVE  r.heap[r.pointer][i] = IF k < i /\ i <= k + Len(s) THEN s[i - k] ELSE q.heap[q.pointer][i]
    <2>1. q.pointer \in Buffer /\ i \in 1 .. Len(q.heap[q.pointer])
      BY <1>3
    <2> QED
      BY <1>6, <2>1
  <1>10. n # m.size => \A i \in 1 .. n : i <= m.size /\ (i <= k \/ Len(s) = 0) =>
                            r.heap[r.pointer][i] = m.heap[m.pointer][i]
    <2> SUFFICES ASSUME n # m.size, NEW i \in 1 .. n, i <= m.size, i <= k \/ Len(s) = 0
                 PROVE  r.heap[r.pointer][i] = m.heap[m.pointer][i]
      OBVIOUS
    <2>1. ~(k < i /\ i <= k + Len(s))
      OBVIOUS
    <2> QED
      BY <1>2, <1>9, <2>1
  <1>11. ResizedInto(m, r, n, k, s)
    BY <1>6, <1>7, <1>8, <1>9, <1>10 DEF ResizedInto
  <1> QED
    BY <1>1, <1>5, <1>11

\* A memory whose cells are the sequence k.
Holds(m, k) ==
  /\ Len(k) = m.size
  /\ \A i \in 1 .. m.size : m.heap[m.pointer][i] = k[i]

\* The memory of a vector that may be used.
LEMMA UsableIsBacked ==
  ASSUME VectorsInv, NEW v \in Vector, V!Usable(v)
  PROVE  V!Memory(v) \in VectorMemory /\ Backed(V!Memory(v))
  BY DEF VectorsInv, VectorsType, InBuffer, Filled, V!Usable, V!Memory, VectorMemory, Backed

LEMMA UsableIsSmall ==
  ASSUME VectorsInv, NEW v \in Vector, V!Usable(v)
  PROVE  mSize[v] \in Nat /\ mSize[v] <= MaxSize
  BY VectorsAssumption DEF VectorsInv, VectorsType, V!Usable

\* An operation on one vector keeps the invariant when it leaves the other buffers
\* alone and the vector, unless it taints it, holding what it stands for.
LEMMA VecStep ==
  ASSUME VectorsInv, NEW v \in Vector, NEW r \in VectorMemory, NEW k \in Seq(Element),
         mSize[v] <= MaxSize, r.size <= MaxSize, V!Becomes(v, r), V!Means(v, k), Backed(r), Around(V!Memory(v), r),
         vectorMade' \in SUBSET Vector,
         \A w \in Vector \ {v} : w \in vectorMade' => w \in vectorMade,
         \A w \in Vector \ {v} : w \in vectorMade => w \in vectorMade',
         \A w \in Vector \ {v} : w \in tainted => w \in tainted',
         v \notin vectorMade' => r.size = 0,
         v \in vectorMade' /\ v \notin tainted' => Holds(r, k)
  PROVE  VectorsInv'
  <1>1. /\ mPointer' = [mPointer EXCEPT ![v] = r.pointer] /\ mSize' = [mSize EXCEPT ![v] = r.size]
        /\ heap' = r.heap /\ allocated' = r.allocated /\ vectorFreed' = r.freed
        /\ contents' = [contents EXCEPT ![v] = k]
    BY DEF V!Becomes, V!Means
  <1>2. /\ mPointer \in [Vector -> Buffer \cup {Null}] /\ mSize \in [Vector -> Nat]
        /\ contents \in [Vector -> Seq(Element)] /\ allocated \in SUBSET Buffer
    BY DEF VectorsInv, VectorsType
  <1>3. /\ r.pointer \in Buffer \cup {Null} /\ r.size \in Nat /\ r.heap \in [Buffer -> Seq(Element \cup {Dead})]
        /\ r.allocated \in SUBSET Buffer /\ r.freed \in SUBSET r.allocated
    BY DEF VectorMemory, Backed
  <1>4. VectorsType'
    BY <1>1, <1>2, <1>3 DEF VectorsType
  <1>5. /\ mPointer'[v] = r.pointer /\ mSize'[v] = r.size /\ contents'[v] = k
        /\ \A w \in Vector \ {v} : mPointer'[w] = mPointer[w] /\ mSize'[w] = mSize[w] /\ contents'[w] = contents[w]
    BY <1>1, <1>2
  <1>6. /\ allocated \subseteq allocated' /\ vectorFreed \subseteq vectorFreed'
        /\ \A b \in allocated : (b # mPointer[v] \/ mSize[v] = 0) =>
                                  heap'[b] = heap[b] /\ (b \in vectorFreed' => b \in vectorFreed)
        /\ r.size > 0 => r.pointer \notin allocated \/ (mSize[v] > 0 /\ r.pointer = mPointer[v])
    BY <1>1 DEF Around, V!Memory
  <1>7. ASSUME NEW w \in Vector \ {v}, Filled(w)
        PROVE  /\ mPointer[w] \in allocated /\ mPointer[w] \in allocated' /\ heap'[mPointer[w]] = heap[mPointer[w]]
               /\ mPointer[w] \in vectorFreed' <=> mPointer[w] \in vectorFreed
               /\ r.size > 0 => mPointer[w] # r.pointer
    <2>1. mPointer[w] \in allocated /\ (mPointer[w] # mPointer[v] \/ mSize[v] = 0)
      BY <1>2, <1>7 DEF VectorsInv, InBuffer, Filled
    <2> QED
      BY <1>2, <1>6, <2>1
  <1>8. ASSUME NEW w \in Vector PROVE InBuffer(w)' /\ (w \notin vectorMade' => mSize'[w] = 0)
    <2>1. CASE w = v
      BY <1>1, <1>5, <2>1 DEF InBuffer, Filled, Backed
    <2>2. CASE w # v
      <3>1. InBuffer(w) /\ (w \notin vectorMade => mSize[w] = 0)
        BY DEF VectorsInv
      <3>2. w \notin vectorMade' => mSize'[w] = 0
        BY <1>5, <2>2, <3>1
      <3>3. InBuffer(w)'
        BY <1>5, <1>7, <2>2, <3>1 DEF InBuffer, Filled
      <3> QED
        BY <3>2, <3>3
    <2> QED
      BY <2>1, <2>2
  <1>9. ASSUME NEW u \in Vector, NEW w \in Vector, u # w, Filled(u)', Filled(w)' PROVE mPointer'[u] # mPointer'[w]
    <2>1. CASE u = v
      BY <1>5, <1>7, <1>9, <2>1 DEF Filled
    <2>2. CASE w = v
      BY <1>5, <1>7, <1>9, <2>2 DEF Filled
    <2>3. CASE u # v /\ w # v
      BY <1>5, <1>9, <2>3 DEF VectorsInv, Filled
    <2> QED
      BY <2>1, <2>2, <2>3
  <1>10. ASSUME NEW w \in vectorMade', w \notin tainted' PROVE Sound(w)'
    <2>1. CASE w = v
      <3>1. Holds(r, k)
        BY <1>10, <2>1
      <3> QED
        BY <1>1, <1>5, <2>1, <3>1 DEF Sound, Holds, Backed
    <2>2. CASE w # v
      <3>1. w \in Vector \ {v} /\ w \in vectorMade /\ w \notin tainted
        BY <1>10, <2>2
      <3>2. Sound(w)
        BY <3>1 DEF VectorsInv
      <3>3. mSize[w] \in Nat /\ mSize'[w] = mSize[w] /\ mPointer'[w] = mPointer[w] /\ contents'[w] = contents[w]
        BY <1>2, <1>5, <3>1
      <3>4. CASE mSize[w] = 0
        BY <3>2, <3>3, <3>4 DEF Sound
      <3>5. CASE mSize[w] > 0
        BY <1>7, <3>1, <3>2, <3>3, <3>5 DEF Sound, Filled
      <3> QED
        BY <3>3, <3>4, <3>5
    <2> QED
      BY <2>1, <2>2
  <1> QED
    BY <1>4, <1>8, <1>9, <1>10 DEF VectorsInv

\* assign from a range.
LEMMA AssignRangeIs ==
  ASSUME NEW m \in VectorMemory, Backed(m), m.allocated # Buffer, NEW s \in Seq(Element)
  PROVE  LET r == V!AssignRange(m, s) IN
         r \in VectorMemory /\ Backed(r) /\ Around(m, r) /\ Holds(r, s)
  <1>1. s \in Seq(Element \cup {Dead}) /\ Len(s) \in Nat /\ 0 \in Nat /\ 0 + Len(s) = Len(s)
    OBVIOUS
  <1>2. V!AssignRange(m, s) = V!InsertAt(V!ResizeBuffer(m, Len(s)), 0, s)
    BY DEF V!AssignRange, V!IteratorsRange
  <1>3. PICK r : r = V!AssignRange(m, s)
    OBVIOUS
  <1>4. PICK n \in Nat : n = Len(s)
    BY <1>1
  <1>5. Len(s) = 0 \/ 0 + Len(s) = n
    BY <1>1, <1>4
  <1>6. /\ r \in VectorMemory /\ Backed(r) /\ r.size = n /\ Around(m, r)
        /\ \A i \in 1 .. n : 0 < i /\ i <= 0 + Len(s) => r.heap[r.pointer][i] = s[i - 0]
    <2>1. ResizedInto(m, V!InsertAt(V!ResizeBuffer(m, n), 0, s), n, 0, s)
      BY <1>1, <1>5, ResizeInsertIs
    <2>2. ResizedInto(m, r, n, 0, s)
      BY <1>2, <1>3, <1>4, <2>1
    <2> QED
      BY <2>2 DEF ResizedInto
  <1>7. \A i \in 1 .. n : 0 < i /\ i <= 0 + Len(s) /\ i - 0 = i
    BY <1>4
  <1>8. Holds(r, s)
    BY <1>4, <1>6, <1>7 DEF Holds
  <1> QED
    BY <1>3, <1>6, <1>8

\* Vector(), Vector(begin, end) and the copy constructor.
LEMMA MakeVectorKeeps ==
  ASSUME VectorsInv, NEW v \in Vector, NEW s \in Seq(Element), Len(s) <= MaxSize, V!CanAllocate, V!MakeVector(v, s)
  PROVE  VectorsInv'
  <1>1. v \notin vectorMade /\ vectorMade' = vectorMade \cup {v} /\ tainted' = tainted
    BY DEF V!MakeVector
  <1>2. mSize[v] = 0
    BY <1>1 DEF VectorsInv
  <1>3. PICK m : m = V!EmptyMemory(V!Memory(v))
    OBVIOUS
  <1>4. /\ m \in VectorMemory /\ m.size = 0 /\ m.allocated = allocated /\ m.freed = vectorFreed /\ m.heap = heap
        /\ Backed(m)
    <2>1. m = [pointer |-> Null, size |-> 0, heap |-> heap, allocated |-> allocated, freed |-> vectorFreed]
      BY <1>3 DEF V!EmptyMemory, V!Memory
    <2>2. /\ heap \in [Buffer -> Seq(Element \cup {Dead})] /\ allocated \in SUBSET Buffer
          /\ vectorFreed \in SUBSET Buffer /\ vectorFreed \subseteq allocated
      BY DEF VectorsInv, VectorsType
    <2> QED
      BY <2>1, <2>2 DEF VectorMemory, Backed
  <1>5. m.allocated # Buffer
    BY <1>4 DEF V!CanAllocate
  <1>6. PICK r : r = V!AssignRange(m, s)
    OBVIOUS
  <1>7. r \in VectorMemory /\ Backed(r) /\ Around(m, r) /\ Holds(r, s)
    BY <1>4, <1>5, <1>6, AssignRangeIs
  <1>8. Around(V!Memory(v), r)
    BY <1>2, <1>4, <1>7 DEF Around, V!Memory
  <1>9. V!Becomes(v, r) /\ V!Means(v, s)
    BY <1>3, <1>6 DEF V!MakeVector
  <1>10. vectorMade' \in SUBSET Vector /\ v \in vectorMade'
    BY <1>1 DEF VectorsInv, VectorsType
  <1>11. mSize[v] <= MaxSize /\ r.size <= MaxSize
    BY <1>2, <1>7, VectorsAssumption DEF Holds
  <1> QED
    BY <1>1, <1>7, <1>8, <1>9, <1>10, <1>11, VecStep

\* assign and copy assignment.
LEMMA AssignKeeps ==
  ASSUME VectorsInv, NEW v \in Vector, NEW s \in Seq(Element), Len(s) <= MaxSize, V!Assign(v, s)
  PROVE  VectorsInv'
  <1>1. v \in vectorMade /\ V!Usable(v) /\ vectorMade' = vectorMade /\ tainted' = tainted
    BY DEF V!Assign
  <1>2. PICK m : m = V!Memory(v)
    OBVIOUS
  <1>3. m \in VectorMemory /\ Backed(m)
    BY <1>1, <1>2, UsableIsBacked
  <1>4. m.allocated # Buffer
    BY <1>2 DEF V!Assign, V!CanAllocate, V!Memory
  <1>5. PICK r : r = V!AssignRange(m, s)
    OBVIOUS
  <1>6. r \in VectorMemory /\ Backed(r) /\ Around(m, r) /\ Holds(r, s)
    BY <1>3, <1>4, <1>5, AssignRangeIs
  <1>7. Around(V!Memory(v), r) /\ V!Becomes(v, r) /\ V!Means(v, s)
    BY <1>2, <1>5, <1>6 DEF V!Assign
  <1>8. vectorMade' \in SUBSET Vector /\ v \in vectorMade'
    BY <1>1 DEF VectorsInv, VectorsType
  <1>9. mSize[v] <= MaxSize /\ r.size <= MaxSize
    BY <1>1, <1>6, UsableIsSmall DEF Holds
  <1> QED
    BY <1>1, <1>6, <1>7, <1>8, <1>9, VecStep

\* The cells of a vector nothing has broken are what it stands for.
LEMMA SoundCells ==
  ASSUME VectorsInv, NEW w \in vectorMade, w \notin tainted
  PROVE  V!Cells(V!Memory(w)) = contents[w] /\ contents[w] \in Seq(Element)
  <1>1. /\ w \in Vector /\ contents[w] \in Seq(Element) /\ mSize[w] \in Nat /\ Len(contents[w]) = mSize[w]
        /\ mSize[w] > 0 => mPointer[w] \in Buffer /\ mSize[w] <= Len(heap[mPointer[w]])
        /\ \A i \in 1 .. mSize[w] : heap[mPointer[w]][i] = contents[w][i]
    BY DEF VectorsInv, VectorsType, Sound, InBuffer, Filled
  <1>2. CASE mSize[w] = 0
    BY <1>1, <1>2 DEF V!Cells, V!Memory
  <1>3. CASE mSize[w] > 0
    <2>1. PICK t \in Seq(Element \cup {Dead}) : t = heap[mPointer[w]]
      BY <1>1, <1>3 DEF VectorsInv, VectorsType
    <2>2. PICK c : c = SubSeq(t, 1, mSize[w])
      OBVIOUS
    <2>3. c \in Seq(Element \cup {Dead}) /\ Len(c) = mSize[w] /\ \A i \in 1 .. mSize[w] : c[i] = t[i]
      BY <1>1, <1>3, <2>1, <2>2, PrefixIs
    <2>4. c = contents[w]
      <3>1. PICK k \in Seq(Element \cup {Dead}) : k = contents[w]
        BY <1>1
      <3>2. Len(c) = Len(k) /\ \A i \in 1 .. Len(c) : c[i] = k[i]
        BY <1>1, <2>1, <2>3, <3>1
      <3> QED
        BY <2>3, <3>1, <3>2, SeqEqual
    <2>5. V!Cells(V!Memory(w)) = c
      <3>1. PICK m : m = V!Memory(w)
        OBVIOUS
      <3>2. m.size = mSize[w] /\ m.size # 0 /\ m.heap[m.pointer] = t
        BY <1>3, <2>1, <3>1 DEF V!Memory
      <3> QED
        BY <2>2, <3>1, <3>2, Zenon DEF V!Cells
    <2> QED
      BY <1>1, <2>4, <2>5
  <1> QED
    BY <1>1, <1>2, <1>3

\* deleteAll and makeEmpty.
LEMMA EmptiedIs ==
  ASSUME NEW m \in VectorMemory, Backed(m)
  PROVE  LET r == V!EmptyMemory(V!DeleteAll(m)) IN
         r \in VectorMemory /\ Backed(r) /\ Around(m, r) /\ r.size = 0
  <1>1. m.size > 0 => m.pointer \in Buffer /\ m.pointer \in m.allocated
    BY DEF VectorMemory, Backed
  <1>2. PICK d : d = V!DeleteAll(m)
    OBVIOUS
  <1>3. /\ d \in VectorMemory /\ d.allocated = m.allocated
        /\ d.freed = m.freed \cup (IF m.size > 0 THEN {m.pointer} ELSE {})
        /\ \A b \in Buffer : b # m.pointer \/ m.size = 0 => d.heap[b] = m.heap[b]
    BY <1>1, <1>2, DeleteIs
  <1>4. PICK r : r = V!EmptyMemory(d)
    OBVIOUS
  <1>5. /\ r \in VectorMemory /\ r.size = 0 /\ r.allocated = d.allocated /\ r.freed = d.freed /\ r.heap = d.heap
    BY <1>3, <1>4 DEF V!EmptyMemory, VectorMemory
  <1>6. m.size \in Nat /\ m.allocated \in SUBSET Buffer /\ m.freed \subseteq m.allocated
    BY DEF VectorMemory, Backed
  <1>7. Backed(r)
    BY <1>1, <1>3, <1>5, <1>6 DEF Backed
  <1>8. Around(m, r)
    BY <1>1, <1>3, <1>5, <1>6 DEF Around
  <1> QED
    BY <1>2, <1>4, <1>5, <1>7, <1>8

\* The destructor.
LEMMA DestroyKeeps ==
  ASSUME VectorsInv, NEW v \in Vector, V!Destroy(v)
  PROVE  VectorsInv'
  <1>1. v \in vectorMade /\ V!Usable(v) /\ vectorMade' = vectorMade \ {v} /\ tainted' = tainted \ {v}
    BY DEF V!Destroy
  <1>2. PICK m : m = V!Memory(v)
    OBVIOUS
  <1>3. m \in VectorMemory /\ Backed(m)
    BY <1>1, <1>2, UsableIsBacked
  <1>4. PICK r : r = V!EmptyMemory(V!DeleteAll(m))
    OBVIOUS
  <1>5. r \in VectorMemory /\ Backed(r) /\ Around(m, r) /\ r.size = 0
    BY <1>3, <1>4, EmptiedIs
  <1>6. Around(V!Memory(v), r) /\ V!Becomes(v, r) /\ V!Means(v, <<>>) /\ <<>> \in Seq(Element)
    BY <1>2, <1>4, <1>5 DEF V!Destroy
  <1>7. vectorMade' \in SUBSET Vector /\ v \notin vectorMade'
    BY <1>1 DEF VectorsInv, VectorsType
  <1>8. mSize[v] <= MaxSize /\ r.size <= MaxSize
    BY <1>1, <1>5, UsableIsSmall, VectorsAssumption
  <1> QED
    BY <1>1, <1>5, <1>6, <1>7, <1>8, VecStep

\* Onto itself.
LEMMA AssignSelfKeeps ==
  ASSUME VectorsInv, NEW v \in Vector, V!AssignSelf(v)
  PROVE  VectorsInv'
  <1>1. /\ v \in vectorMade /\ V!Usable(v) /\ vectorMade' = vectorMade /\ contents' = contents
        /\ tainted \subseteq tainted' /\ (mSize[v] > 0 => v \in tainted')
    BY DEF V!AssignSelf
  <1>2. PICK m : m = V!Memory(v)
    OBVIOUS
  <1>3. m \in VectorMemory /\ Backed(m) /\ m.size = mSize[v]
    BY <1>1, <1>2, UsableIsBacked DEF V!Memory
  <1>4. PICK r : r = V!DestructAll(m)
    OBVIOUS
  <1>5. /\ r \in VectorMemory /\ Backed(r)
        /\ r.pointer = m.pointer /\ r.size = m.size /\ r.allocated = m.allocated /\ r.freed = m.freed
        /\ \A b \in Buffer : b # m.pointer \/ m.size = 0 => r.heap[b] = m.heap[b]
    BY <1>3, <1>4, DestructIs
  <1>6. Around(m, r)
    BY <1>3, <1>5 DEF Around, VectorMemory, Backed
  <1>7. PICK k \in Seq(Element) : k = contents[v]
    BY DEF VectorsInv, VectorsType
  <1>8. V!Means(v, k)
    BY <1>1, <1>7 DEF V!Means, VectorsInv, VectorsType
  <1>9. v \notin tainted' => Holds(r, k)
    <2> SUFFICES ASSUME v \notin tainted' PROVE Holds(r, k)
      OBVIOUS
    <2>1. v \notin tainted /\ mSize[v] = 0
      BY <1>1 DEF VectorsInv, VectorsType
    <2>2. Len(k) = 0
      BY <1>1, <1>7, <2>1 DEF VectorsInv, Sound
    <2> QED
      BY <1>3, <1>5, <2>1, <2>2 DEF Holds
  <1>10. Around(V!Memory(v), r) /\ V!Becomes(v, r)
    BY <1>2, <1>4, <1>6 DEF V!AssignSelf
  <1>11. /\ vectorMade' \in SUBSET Vector /\ v \in vectorMade'
         /\ \A w \in Vector \ {v} : w \in vectorMade' => w \in vectorMade
         /\ \A w \in Vector \ {v} : w \in vectorMade => w \in vectorMade'
         /\ \A w \in Vector \ {v} : w \in tainted => w \in tainted'
    BY <1>1 DEF VectorsInv, VectorsType
  <1>12. mSize[v] <= MaxSize /\ r.size <= MaxSize
    BY <1>1, <1>3, <1>5, UsableIsSmall
  <1> QED
    BY <1>5, <1>8, <1>9, <1>10, <1>11, <1>12, VecStep

\* expand(begin, end).
LEMMA ExpandRangeKeeps ==
  ASSUME VectorsInv, NEW v \in Vector, NEW s \in Seq(Element), V!ExpandRange(v, s)
  PROVE  VectorsInv'
  <1>1. /\ v \in vectorMade /\ V!Usable(v) /\ vectorMade' = vectorMade
        /\ tainted \subseteq tainted' /\ (s = <<>> /\ mSize[v] > 0 => v \in tainted')
    BY DEF V!ExpandRange
  <1>2. PICK m : m = V!Memory(v)
    OBVIOUS
  <1>3. /\ m \in VectorMemory /\ Backed(m) /\ m.size = mSize[v] /\ m.pointer = mPointer[v] /\ m.heap = heap
        /\ m.allocated = allocated
    BY <1>1, <1>2, UsableIsBacked DEF V!Memory
  <1>4. m.allocated # Buffer
    BY <1>3 DEF V!ExpandRange, V!CanAllocate
  <1>5. PICK p \in Nat, n \in Nat : p = mSize[v] /\ n = p + Len(s)
    BY DEF VectorsInv, VectorsType
  <1>6. PICK c \in Seq(Element) : c = contents[v]
    BY DEF VectorsInv, VectorsType
  <1>7. PICK r : r = V!InsertAt(V!ResizeBuffer(m, n), p, s)
    OBVIOUS
  <1>8. s \in Seq(Element \cup {Dead}) /\ (Len(s) = 0 \/ p + Len(s) = n)
    BY <1>5
  <1>9. /\ r \in VectorMemory /\ Backed(r) /\ r.size = n /\ Around(m, r)
        /\ \A i \in 1 .. n : p < i /\ i <= p + Len(s) => r.heap[r.pointer][i] = s[i - p]
        /\ n # m.size => \A i \in 1 .. n : i <= m.size /\ (i <= p \/ Len(s) = 0) =>
                            r.heap[r.pointer][i] = m.heap[m.pointer][i]
    <2>1. /\ m \in VectorMemory /\ Backed(m) /\ m.allocated # Buffer /\ n \in Nat /\ p \in Nat
          /\ s \in Seq(Element \cup {Dead}) /\ (Len(s) = 0 \/ p + Len(s) = n)
      BY <1>3, <1>4, <1>5, <1>8
    <2>2. ResizedInto(m, V!InsertAt(V!ResizeBuffer(m, n), p, s), n, p, s)
      BY <2>1, ResizeInsertIs
    <2>3. ResizedInto(m, r, n, p, s)
      BY <1>7, <2>2
    <2> QED
      BY <2>3, Zenon DEF ResizedInto
  <1>10. Around(V!Memory(v), r) /\ V!Becomes(v, r) /\ V!Means(v, c \o s)
    BY <1>2, <1>5, <1>6, <1>7, <1>9 DEF V!ExpandRange
  <1>11. PICK k \in Seq(Element) : k = c \o s
    <2>1. c \o s \in Seq(Element)
      BY <1>6, ConcatProperties
    <2> QED
      BY <2>1
  <1>12. ASSUME v \notin tainted' PROVE Holds(r, k)
    <2>1. v \notin tainted /\ ~(s = <<>> /\ mSize[v] > 0)
      BY <1>1, <1>12
    <2>2. Len(c) = p /\ \A i \in 1 .. p : m.heap[m.pointer][i] = c[i]
      BY <1>1, <1>3, <1>5, <1>6, <2>1 DEF VectorsInv, Sound
    <2>3. /\ Len(k) = p + Len(s)
          /\ \A i \in 1 .. p + Len(s) : k[i] = IF i <= p THEN c[i] ELSE s[i - p]
      BY <1>11, <2>2, ConcatIs, SMTT(30)
    <2>4. ASSUME NEW i \in 1 .. n PROVE r.heap[r.pointer][i] = k[i]
      <3>1. CASE i <= p
        <4>1. n # m.size /\ i \in 1 .. p
          <5>1. p > 0 /\ Len(s) # 0
            BY <1>5, <2>1, <3>1
          <5> QED
            BY <1>3, <1>5, <3>1, <5>1
        <4> QED
          BY <1>3, <1>5, <1>9, <2>2, <2>3, <3>1, <4>1
      <3>2. CASE p < i
        BY <1>5, <1>9, <2>3, <3>2
      <3> QED
        BY <1>5, <3>1, <3>2
    <2> QED
      BY <1>5, <1>9, <2>3, <2>4 DEF Holds
  <1>13. /\ vectorMade' \in SUBSET Vector /\ v \in vectorMade'
         /\ \A w \in Vector \ {v} : w \in vectorMade' => w \in vectorMade
         /\ \A w \in Vector \ {v} : w \in vectorMade => w \in vectorMade'
         /\ \A w \in Vector \ {v} : w \in tainted => w \in tainted'
    BY <1>1 DEF VectorsInv, VectorsType
  <1>14. V!Means(v, k)
    BY <1>10, <1>11
  <1>15. mSize[v] <= MaxSize /\ r.size <= MaxSize
    BY <1>1, <1>5, <1>9, UsableIsSmall DEF V!ExpandRange
  <1> QED
    BY <1>9, <1>10, <1>12, <1>13, <1>14, <1>15, VecStep

\* What a resized vector stands for: the elements that remain, and defaults.
LEMMA ResizedIs ==
  ASSUME NEW c \in Seq(Element), NEW n \in Nat, n <= MaxSize
  PROVE  LET k == SubSeq(c \o V!FilledWith(MaxSize, Default), 1, n) IN
         /\ k \in Seq(Element) /\ Len(k) = n
         /\ \A i \in 1 .. n : k[i] = IF i <= Len(c) THEN c[i] ELSE Default
  <1>1. MaxSize \in Nat /\ Default \in Element
    BY VectorsAssumption
  <1>2. PICK f : f = V!FilledWith(MaxSize, Default)
    OBVIOUS
  <1>3. f \in Seq(Element) /\ Len(f) = MaxSize /\ \A i \in 1 .. MaxSize : f[i] = Default
    BY <1>1, <1>2, FilledIs
  <1>4. PICK p \in Nat : p = Len(c)
    OBVIOUS
  <1>5. PICK x : x = c \o f
    OBVIOUS
  <1>6. x \in Seq(Element) /\ Len(x) = p + Len(f) /\ \A i \in 1 .. p + Len(f) : x[i] = IF i <= p THEN c[i] ELSE f[i - p]
    BY <1>3, <1>4, <1>5, ConcatIs
  <1>7. n <= Len(x)
    BY <1>1, <1>3, <1>4, <1>6
  <1>8. PICK k : k = SubSeq(x, 1, n)
    OBVIOUS
  <1>9. k \in Seq(Element) /\ Len(k) = n /\ \A i \in 1 .. n : k[i] = x[i]
    BY <1>6, <1>7, <1>8, PrefixIs
  <1>10. ASSUME NEW i \in 1 .. n PROVE k[i] = IF i <= Len(c) THEN c[i] ELSE Default
    <2>1. i \in 1 .. p + Len(f) /\ k[i] = x[i]
      BY <1>1, <1>3, <1>4, <1>9
    <2>2. i > p => i - p \in 1 .. MaxSize
      BY <1>1, <1>4
    <2> QED
      BY <1>3, <1>4, <1>6, <2>1, <2>2
  <1> QED
    BY <1>2, <1>5, <1>8, <1>9, <1>10

\* The memory a resize leaves: the first elements, and defaults.
LEMMA ResizeMemory ==
  ASSUME NEW m \in VectorMemory, Backed(m), m.allocated # Buffer, NEW n \in Nat, n # m.size,
         NEW more, more = (IF n > m.size THEN V!FilledWith(n - m.size, Default) ELSE <<>>)
  PROVE  LET r == V!InsertAt(V!ResizeBuffer(m, n), m.size, more) IN
         /\ r \in VectorMemory /\ Backed(r) /\ r.size = n /\ Around(m, r)
         /\ \A i \in 1 .. n : r.heap[r.pointer][i] = IF i <= m.size THEN m.heap[m.pointer][i] ELSE Default
  <1>1. PICK p \in Nat : p = m.size
    BY DEF VectorMemory
  <1>2. /\ more \in Seq(Element \cup {Dead}) /\ (Len(more) = 0 \/ p + Len(more) = n)
        /\ n > p => Len(more) = n - p /\ \A i \in 1 .. n - p : more[i] = Default
        /\ n < p => Len(more) = 0
    <2>1. CASE n > p
      <3>1. PICK q \in Nat : q = n - p
        BY <2>1
      <3>2. Default \in Element \cup {Dead}
        BY VectorsAssumption
      <3>3. /\ V!FilledWith(q, Default) \in Seq(Element \cup {Dead}) /\ Len(V!FilledWith(q, Default)) = q
            /\ \A i \in 1 .. q : V!FilledWith(q, Default)[i] = Default
        BY <3>2, FilledIs
      <3>4. more = V!FilledWith(q, Default)
        BY <1>1, <2>1, <3>1
      <3> QED
        BY <2>1, <3>1, <3>3, <3>4
    <2>2. CASE n < p
      BY <1>1, <2>2
    <2> QED
      BY <1>1, <2>1, <2>2
  <1>3. PICK r : r = V!InsertAt(V!ResizeBuffer(m, n), p, more)
    OBVIOUS
  <1>4. /\ r \in VectorMemory /\ Backed(r) /\ r.size = n /\ Around(m, r)
        /\ \A i \in 1 .. n : p < i /\ i <= p + Len(more) => r.heap[r.pointer][i] = more[i - p]
        /\ n # m.size => \A i \in 1 .. n : i <= m.size /\ (i <= p \/ Len(more) = 0) =>
                            r.heap[r.pointer][i] = m.heap[m.pointer][i]
    <2>1. /\ m \in VectorMemory /\ Backed(m) /\ m.allocated # Buffer /\ n \in Nat /\ p \in Nat
          /\ more \in Seq(Element \cup {Dead}) /\ (Len(more) = 0 \/ p + Len(more) = n)
      BY <1>1, <1>2
    <2>2. ResizedInto(m, V!InsertAt(V!ResizeBuffer(m, n), p, more), n, p, more)
      BY <2>1, ResizeInsertIs
    <2>3. ResizedInto(m, r, n, p, more)
      BY <1>3, <2>2
    <2> QED
      BY <2>3, Zenon DEF ResizedInto
  <1>5. ASSUME NEW i \in 1 .. n PROVE r.heap[r.pointer][i] = IF i <= m.size THEN m.heap[m.pointer][i] ELSE Default
    <2>1. CASE i <= p
      BY <1>1, <1>4, <2>1
    <2>2. CASE i > p
      <3>1. n > p /\ i - p \in 1 .. n - p /\ i <= p + Len(more)
        BY <1>2, <2>2
      <3> QED
        BY <1>1, <1>2, <1>4, <2>2, <3>1
    <2> QED
      BY <2>1, <2>2
  <1> QED
    BY <1>1, <1>3, <1>4, <1>5

\* resize, and expand(size).
LEMMA ResizeKeeps ==
  ASSUME VectorsInv, NEW v \in Vector, NEW n \in V!Sizes, V!Resize(v, n)
  PROVE  VectorsInv'
  <1>0. n \in Nat /\ n <= MaxSize
    BY VectorsAssumption DEF V!Sizes
  <1>1. /\ v \in vectorMade /\ V!Usable(v) /\ vectorMade' = vectorMade /\ tainted' = tainted
    BY DEF V!Resize
  <1>2. PICK m : m = V!Memory(v)
    OBVIOUS
  <1>3. /\ m \in VectorMemory /\ Backed(m) /\ m.size = mSize[v] /\ m.pointer = mPointer[v] /\ m.heap = heap
        /\ m.allocated = allocated /\ m.size \in Nat
    BY <1>1, <1>2, UsableIsBacked DEF V!Memory, VectorMemory
  <1>4. m.allocated # Buffer
    BY <1>3 DEF V!Resize, V!CanAllocate
  <1>5. PICK c \in Seq(Element) : c = contents[v]
    BY DEF VectorsInv, VectorsType
  <1>6. PICK k : k = SubSeq(c \o V!FilledWith(MaxSize, Default), 1, n)
    OBVIOUS
  <1>7. k \in Seq(Element) /\ Len(k) = n /\ \A i \in 1 .. n : k[i] = IF i <= Len(c) THEN c[i] ELSE Default
    BY <1>0, <1>6, ResizedIs
  <1>8. V!Means(v, k)
    BY <1>5, <1>6 DEF V!Resize
  <1>9. v \notin tainted => Len(c) = m.size /\ \A i \in 1 .. m.size : m.heap[m.pointer][i] = c[i]
    BY <1>1, <1>3, <1>5 DEF VectorsInv, Sound
  <1>10. \E r \in VectorMemory : /\ V!Becomes(v, r) /\ Backed(r) /\ Around(m, r) /\ r.size = n
                                 /\ \A i \in 1 .. n : r.heap[r.pointer][i] =
                                       IF i <= m.size THEN m.heap[m.pointer][i] ELSE Default
    <2>1. CASE n = mSize[v] /\ V!Becomes(v, V!Memory(v))
      <3>1. Around(m, m)
        BY <1>3 DEF Around
      <3> QED
        BY <1>2, <1>3, <2>1, <3>1
    <2>2. CASE n = 0 /\ n # mSize[v] /\ V!Becomes(v, V!EmptyMemory(V!DeleteAll(V!Memory(v))))
      <3>1. PICK r : r = V!EmptyMemory(V!DeleteAll(m))
        OBVIOUS
      <3>2. r \in VectorMemory /\ Backed(r) /\ Around(m, r) /\ r.size = 0
        BY <1>3, <3>1, EmptiedIs
      <3>3. V!Becomes(v, r)
        BY <1>2, <2>2, <3>1
      <3> QED
        BY <2>2, <3>2, <3>3
    <2>3. CASE /\ n # 0 /\ n # mSize[v]
               /\ LET more == IF n > mSize[v] THEN V!FilledWith(n - mSize[v], Default) ELSE <<>>
                  IN V!Becomes(v, V!InsertAt(V!ResizeBuffer(V!Memory(v), n), mSize[v], more))
      <3>1. PICK more : more = IF n > m.size THEN V!FilledWith(n - m.size, Default) ELSE <<>>
        OBVIOUS
      <3>2. PICK r : r = V!InsertAt(V!ResizeBuffer(m, n), m.size, more)
        OBVIOUS
      <3>3. V!Becomes(v, r)
        BY <1>2, <1>3, <2>3, <3>1, <3>2, Zenon
      <3>4. /\ r \in VectorMemory /\ Backed(r) /\ r.size = n /\ Around(m, r)
            /\ \A i \in 1 .. n : r.heap[r.pointer][i] = IF i <= m.size THEN m.heap[m.pointer][i] ELSE Default
        <4>1. n # m.size
          BY <1>3, <2>3
        <4> QED
          BY <1>0, <1>3, <1>4, <3>1, <3>2, <4>1, ResizeMemory
      <3> QED
        BY <3>3, <3>4
    <2> QED
      BY <2>1, <2>2, <2>3, Zenon DEF V!Resize
  <1>11. PICK r \in VectorMemory : /\ V!Becomes(v, r) /\ Backed(r) /\ Around(m, r) /\ r.size = n
                                 /\ \A i \in 1 .. n : r.heap[r.pointer][i] =
                                       IF i <= m.size THEN m.heap[m.pointer][i] ELSE Default
    BY <1>10
  <1>12. ASSUME v \notin tainted' PROVE Holds(r, k)
    <2>1. Len(c) = m.size /\ \A i \in 1 .. m.size : m.heap[m.pointer][i] = c[i]
      BY <1>1, <1>9, <1>12
    <2> QED
      BY <1>0, <1>3, <1>7, <1>11, <2>1 DEF Holds
  <1>13. Around(V!Memory(v), r) /\ V!Becomes(v, r) /\ Backed(r)
    BY <1>2, <1>11
  <1>14. vectorMade' \in SUBSET Vector /\ v \in vectorMade'
    BY <1>1 DEF VectorsInv, VectorsType
  <1>15. mSize[v] <= MaxSize /\ r.size <= MaxSize
    BY <1>0, <1>1, <1>11, UsableIsSmall
  <1> QED
    BY <1>1, <1>7, <1>8, <1>12, <1>13, <1>14, <1>15, VecStep

\* shrinkWithoutFree.
LEMMA ShrinkKeeps ==
  ASSUME VectorsInv, NEW v \in Vector, NEW n \in V!Sizes, V!ShrinkWithoutFree(v, n)
  PROVE  VectorsInv'
  <1>1. /\ v \in vectorMade /\ mSize[v] <= MaxSize /\ vectorMade' = vectorMade
        /\ tainted' = (IF n > mSize[v] THEN tainted \cup {v} ELSE tainted)
        /\ mSize' = [mSize EXCEPT ![v] = IF n > @ THEN @ - n + SizeValues ELSE @ - n]
        /\ mPointer' = mPointer /\ heap' = heap
        /\ allocated' = allocated /\ vectorFreed' = vectorFreed /\ n \in Nat /\ n <= MaxSize
    BY VectorsAssumption DEF V!ShrinkWithoutFree, V!Sizes
  <1>2. /\ mSize \in [Vector -> Nat] /\ contents \in [Vector -> Seq(Element)] /\ mSize[v] \in Nat
        /\ heap \in [Buffer -> Seq(Element \cup {Dead})]
    BY DEF VectorsInv, VectorsType
  <1>3. PICK c \in Seq(Element) : c = contents[v]
    BY <1>2
  <1>4. PICK k : k = SubSeq(c, 1, Len(c) - n)
    OBVIOUS
  <1>5. contents' = [contents EXCEPT ![v] = k]
    BY <1>3, <1>4 DEF V!ShrinkWithoutFree, V!Means
  <1>6. /\ k \in Seq(Element)
        /\ n <= Len(c) => Len(k) = Len(c) - n /\ \A i \in 1 .. Len(c) - n : k[i] = c[i]
    <2>1. CASE n <= Len(c)
      <3>0. n \in Nat /\ Len(c) \in Nat
        BY <1>1
      <3>1. PICK q \in Nat : q = Len(c) - n /\ q <= Len(c)
        BY ONLY <2>1, <3>0
      <3>2. /\ SubSeq(c, 1, q) \in Seq(Element) /\ Len(SubSeq(c, 1, q)) = q
            /\ \A i \in 1 .. q : SubSeq(c, 1, q)[i] = c[i]
        BY <3>1, PrefixIs
      <3> QED
        BY <1>4, <3>1, <3>2
    <2>2. CASE n > Len(c)
      <3>1. k = <<>>
        BY <1>1, <1>4, <2>2
      <3>2. <<>> \in Seq(Element) /\ Len(c) \in Nat /\ n \in Nat
        BY <1>1
      <3>3. ~(n <= Len(c))
        BY <2>2, <3>2
      <3> QED
        BY <3>1, <3>2, <3>3, Zenon
    <2> QED
      BY <1>1, <2>1, <2>2
  <1>8. /\ mSize'[v] = (IF n > mSize[v] THEN mSize[v] - n + SizeValues ELSE mSize[v] - n) /\ contents'[v] = k
        /\ \A w \in Vector \ {v} : mSize'[w] = mSize[w] /\ contents'[w] = contents[w]
    BY <1>1, <1>2, <1>5
  <1>9. /\ mSize'[v] \in Nat /\ (n > mSize[v] => mSize'[v] > MaxSize)
        /\ n <= mSize[v] => mSize'[v] = mSize[v] - n
    BY <1>1, <1>2, <1>8, VectorsAssumption
  <1>7. VectorsType'
    <2>1. mSize' \in [Vector -> Nat]
      BY <1>1, <1>2, <1>8, <1>9
    <2> QED
      BY <1>1, <1>2, <1>5, <1>6, <2>1 DEF VectorsInv, VectorsType
  <1>13. ASSUME NEW w \in Vector, Filled(w)' PROVE Filled(w) /\ mSize'[w] <= mSize[w]
    <2>1. CASE w = v
      BY <1>1, <1>2, <1>9, <1>13, <2>1, VectorsAssumption DEF Filled
    <2>2. CASE w # v
      BY <1>2, <1>8, <1>13, <2>2 DEF Filled
    <2> QED
      BY <2>1, <2>2
  <1>10. ASSUME NEW w \in Vector PROVE InBuffer(w)' /\ (w \notin vectorMade' => mSize'[w] = 0)
    <2>1. InBuffer(w) /\ (w \notin vectorMade => mSize[w] = 0)
      BY DEF VectorsInv
    <2>2. InBuffer(w)'
      <3> SUFFICES ASSUME Filled(w)'
                   PROVE  /\ mPointer[w] \in allocated
                          /\ mPointer[w] \notin vectorFreed => Len(heap[mPointer[w]]) >= mSize'[w]
        BY <1>1 DEF InBuffer
      <3>1. Filled(w) /\ mSize'[w] <= mSize[w] /\ mPointer[w] \in allocated /\ mPointer[w] \in Buffer
        BY <1>13, <2>1 DEF InBuffer, VectorsInv, VectorsType
      <3>2. Len(heap[mPointer[w]]) \in Nat /\ mSize[w] \in Nat /\ mSize'[w] \in Nat
        BY <1>2, <1>7, <3>1 DEF VectorsType
      <3> QED
        BY <2>1, <3>1, <3>2 DEF InBuffer
    <2> QED
      BY <1>1, <1>8, <2>1, <2>2
  <1>11. \A u, w \in Vector : u # w /\ Filled(u)' /\ Filled(w)' => mPointer'[u] # mPointer'[w]
    BY <1>1, <1>13 DEF VectorsInv
  <1>12. ASSUME NEW w \in vectorMade', w \notin tainted' PROVE Sound(w)'
    <2>1. w \in Vector /\ w \in vectorMade /\ Sound(w)
      BY <1>1, <1>12 DEF VectorsInv, VectorsType
    <2>2. CASE w # v
      BY <1>1, <1>8, <2>1, <2>2 DEF Sound
    <2>3. CASE w = v
      <3>0. n <= mSize[v]
        BY <1>1, <1>2, <1>12, <2>3
      <3>1. Len(c) = mSize[v] /\ \A i \in 1 .. mSize[v] : heap[mPointer[v]][i] = c[i]
        BY <1>3, <2>1, <2>3 DEF Sound
      <3>2. mSize[v] > 0 => mPointer[v] \notin vectorFreed
        BY <2>1, <2>3 DEF Sound
      <3>3. Len(k) = mSize'[v] /\ \A i \in 1 .. mSize'[v] : heap[mPointer[v]][i] = k[i]
        BY <1>1, <1>2, <1>6, <1>9, <3>0, <3>1
      <3>4. mSize'[v] <= MaxSize /\ (mSize'[v] > 0 => mSize[v] > 0)
        BY <1>1, <1>2, <1>9, <3>0, VectorsAssumption
      <3> QED
        BY <1>1, <1>8, <2>3, <3>2, <3>3, <3>4 DEF Sound
    <2> QED
      BY <2>2, <2>3
  <1> QED
    BY <1>7, <1>10, <1>11, <1>12 DEF VectorsInv

\* v takes over the buffer of w, and w gets one of v's that holds what w stands
\* for, or is tainted: every other vector is left alone.
LEMMA TakeOver ==
  ASSUME VectorsInv, VectorsType', NEW v \in Vector, NEW w \in Vector, v # w,
         allocated' = allocated, vectorFreed \subseteq vectorFreed',
         \A x \in Vector \ {v} : Filled(x) =>
           heap'[mPointer[x]] = heap[mPointer[x]] /\ (mPointer[x] \in vectorFreed' => mPointer[x] \in vectorFreed),
         \A x \in Vector \ {v, w} :
           /\ mPointer'[x] = mPointer[x] /\ mSize'[x] = mSize[x] /\ contents'[x] = contents[x]
           /\ x \in vectorMade <=> x \in vectorMade'
           /\ x \in tainted => x \in tainted',
         mPointer'[v] = mPointer[w] /\ mSize'[v] = mSize[w] /\ contents'[v] = contents[w],
         {v, w} \subseteq vectorMade', w \in vectorMade, v \notin tainted' => w \notin tainted,
         Filled(w)' => Filled(v) /\ mPointer'[w] = mPointer[v],
         InBuffer(w)', w \notin tainted' => Sound(w)'
  PROVE  VectorsInv'
  <1>1. ASSUME NEW x \in Vector PROVE InBuffer(x)' /\ (x \notin vectorMade' => mSize'[x] = 0)
    <2>1. CASE x = v
      <3>1. InBuffer(w)
        BY DEF VectorsInv
      <3> QED
        BY <2>1, <3>1 DEF InBuffer, Filled
    <2>2. CASE x = w
      BY <2>2
    <2>3. CASE x \notin {v, w}
      <3>1. InBuffer(x) /\ (x \notin vectorMade => mSize[x] = 0)
        BY DEF VectorsInv
      <3> QED
        BY <2>3, <3>1 DEF InBuffer, Filled
    <2> QED
      BY <2>1, <2>2, <2>3
  <1>2. ASSUME NEW x \in Vector, NEW z \in Vector, x # z, Filled(x)', Filled(z)' PROVE mPointer'[x] # mPointer'[z]
    <2> DEFINE o(u) == IF u = v THEN w ELSE IF u = w THEN v ELSE u
    <2>1. \A u \in Vector : o(u) \in Vector /\ (Filled(u)' => Filled(o(u)) /\ mPointer'[u] = mPointer[o(u)])
      BY DEF Filled
    <2>2. o(x) # o(z)
      BY <1>2
    <2> HIDE DEF o
    <2> QED
      BY <1>2, <2>1, <2>2 DEF VectorsInv
  <1>3. ASSUME NEW x \in vectorMade', x \notin tainted' PROVE Sound(x)'
    <2>1. CASE x = w
      BY <1>3, <2>1
    <2>2. CASE x # w
      <3>1. PICK u \in Vector : /\ u # v /\ u \in vectorMade /\ u \notin tainted /\ mSize'[x] = mSize[u]
                                /\ mPointer'[x] = mPointer[u] /\ contents'[x] = contents[u]
        BY <1>3, <2>2 DEF VectorsType
      <3>2. Sound(u) /\ mSize[u] \in Nat
        BY <3>1 DEF VectorsInv, VectorsType
      <3>3. CASE mSize[u] > 0
        BY <3>1, <3>2, <3>3 DEF Sound, Filled
      <3>4. CASE mSize[u] = 0
        BY <3>1, <3>2, <3>4 DEF Sound
      <3> QED
        BY <3>2, <3>3, <3>4
    <2> QED
      BY <2>1, <2>2
  <1> QED
    BY <1>1, <1>2, <1>3 DEF VectorsInv

\* The move constructor.
LEMMA MoveVectorKeeps ==
  ASSUME VectorsInv, NEW v \in Vector, NEW w \in Vector, V!MoveVector(v, w)
  PROVE  VectorsInv'
  <1>1. /\ v \notin vectorMade /\ w \in vectorMade /\ v # w /\ vectorMade' = vectorMade \cup {v}
        /\ mPointer' = [mPointer EXCEPT ![v] = mPointer[w], ![w] = Null]
        /\ mSize' = [mSize EXCEPT ![v] = mSize[w], ![w] = 0]
        /\ contents' = [contents EXCEPT ![v] = contents[w], ![w] = <<>>]
        /\ heap' = heap /\ allocated' = allocated /\ vectorFreed' = vectorFreed
        /\ tainted' = IF w \in tainted THEN (tainted \cup {v}) \ {w} ELSE tainted
    BY DEF V!MoveVector
  <1>2. VectorsType
    BY DEF VectorsInv
  <1>3. VectorsType'
    <2>1. <<>> \in Seq(Element) /\ 0 \in Nat
      OBVIOUS
    <2>2. contents' \in [Vector -> Seq(Element)] /\ mSize' \in [Vector -> Nat]
      BY <1>1, <1>2, <2>1 DEF VectorsType
    <2>3. mPointer' \in [Vector -> Buffer \cup {Null}] /\ vectorMade' \subseteq Vector
      BY <1>1, <1>2 DEF VectorsType
    <2> QED
      BY <1>1, <1>2, <2>2, <2>3 DEF VectorsType
  <1>4. /\ mPointer'[v] = mPointer[w] /\ mSize'[v] = mSize[w] /\ contents'[v] = contents[w]
        /\ mSize'[w] = 0 /\ contents'[w] = <<>>
        /\ \A x \in Vector \ {v, w} : mPointer'[x] = mPointer[x] /\ mSize'[x] = mSize[x] /\ contents'[x] = contents[x]
    BY <1>1, <1>2 DEF VectorsType
  <1>5. InBuffer(w)' /\ Sound(w)'
    BY <1>4, VectorsAssumption DEF InBuffer, Sound, Filled
  <1>6. /\ \A x \in Vector \ {v, w} : (x \in vectorMade <=> x \in vectorMade') /\ (x \in tainted => x \in tainted')
        /\ {v, w} \subseteq vectorMade' /\ (v \notin tainted' => w \notin tainted)
    BY <1>1
  <1>7. /\ vectorFreed \subseteq vectorFreed' /\ allocated' = allocated
        /\ \A x \in Vector \ {v} : Filled(x) =>
             heap'[mPointer[x]] = heap[mPointer[x]] /\ (mPointer[x] \in vectorFreed' => mPointer[x] \in vectorFreed)
    BY <1>1
  <1>8. Filled(w)' => Filled(v) /\ mPointer'[w] = mPointer[v]
    BY <1>4 DEF Filled
  <1> QED
    BY <1>1, <1>3, <1>4, <1>5, <1>6, <1>7, <1>8, TakeOver

\* Move assignment, from another vector.
LEMMA AssignMovedKeeps ==
  ASSUME VectorsInv, NEW v \in Vector, NEW w \in Vector, v # w, V!AssignMoved(v, w)
  PROVE  VectorsInv'
  <1>1. /\ {v, w} \subseteq vectorMade /\ v # w /\ vectorMade' = vectorMade /\ V!Usable(v)
        /\ mPointer' = [mPointer EXCEPT ![v] = mPointer[w], ![w] = mPointer[v]]
        /\ mSize' = [mSize EXCEPT ![v] = mSize[w], ![w] = mSize[v]]
        /\ contents' = [contents EXCEPT ![v] = contents[w], ![w] = <<>>]
        /\ allocated' = allocated
        /\ tainted' = (IF w \in tainted THEN tainted \cup {v} ELSE tainted \ {v})
                      \cup (IF mSize[v] > 0 THEN {w} ELSE {})
    BY DEF V!AssignMoved
  <1>2. VectorsType
    BY DEF VectorsInv
  <1>3. PICK m : m = V!Memory(v)
    OBVIOUS
  <1>4. /\ m \in VectorMemory /\ m.size = mSize[v] /\ m.pointer = mPointer[v] /\ m.heap = heap
        /\ m.freed = vectorFreed /\ m.allocated = allocated
    BY <1>1, <1>3, UsableIsBacked DEF V!Memory
  <1>5. mSize[v] > 0 => mPointer[v] \in Buffer /\ mPointer[v] \in allocated
    BY <1>1, <1>2, UsableIsSmall DEF VectorsInv, InBuffer, Filled, VectorsType
  <1>6. PICK d : d = V!DeleteAll(m)
    OBVIOUS
  <1>7. /\ d \in VectorMemory
        /\ d.freed = vectorFreed \cup (IF mSize[v] > 0 THEN {mPointer[v]} ELSE {})
        /\ \A b \in Buffer : b # mPointer[v] \/ mSize[v] = 0 => d.heap[b] = heap[b]
    <2>1. m.size > 0 => m.pointer \in Buffer
      BY <1>4, <1>5
    <2>2. /\ d \in VectorMemory
          /\ d.freed = m.freed \cup (IF m.size > 0 THEN {m.pointer} ELSE {})
          /\ \A b \in Buffer : b # m.pointer \/ m.size = 0 => d.heap[b] = m.heap[b]
      BY <1>4, <1>6, <2>1, DeleteIs
    <2> QED
      BY <1>4, <2>2
  <1>8. heap' = d.heap /\ vectorFreed' = d.freed
    BY <1>3, <1>6 DEF V!AssignMoved
  <1>9. vectorFreed' \in SUBSET allocated /\ heap' \in [Buffer -> Seq(Element \cup {Dead})]
    BY <1>2, <1>5, <1>7, <1>8 DEF VectorsType, VectorMemory
  <1>10. VectorsType'
    <2>1. <<>> \in Seq(Element)
      OBVIOUS
    <2>2. contents' \in [Vector -> Seq(Element)] /\ mSize' \in [Vector -> Nat]
      BY <1>1, <1>2, <2>1 DEF VectorsType
    <2>3. mPointer' \in [Vector -> Buffer \cup {Null}] /\ vectorMade' \subseteq Vector
      BY <1>1, <1>2 DEF VectorsType
    <2> QED
      BY <1>1, <1>2, <1>9, <2>2, <2>3 DEF VectorsType
  <1>11. /\ mPointer'[v] = mPointer[w] /\ mSize'[v] = mSize[w] /\ contents'[v] = contents[w]
         /\ mSize'[w] = mSize[v] /\ mPointer'[w] = mPointer[v] /\ contents'[w] = <<>>
         /\ \A x \in Vector \ {v, w} : mPointer'[x] = mPointer[x] /\ mSize'[x] = mSize[x] /\ contents'[x] = contents[x]
    BY <1>1, <1>2 DEF VectorsType
  <1>12. /\ \A x \in Vector \ {v, w} : (x \in vectorMade <=> x \in vectorMade') /\ (x \in tainted => x \in tainted')
         /\ {v, w} \subseteq vectorMade' /\ (v \notin tainted' => w \notin tainted)
         /\ mSize[v] > 0 => w \in tainted'
    BY <1>1
  <1>13. InBuffer(w)' /\ (w \notin tainted' => Sound(w)')
    <2>1. mSize[v] \in Nat
      BY <1>2 DEF VectorsType
    <2>2. InBuffer(w)'
      BY <1>1, <1>5, <1>7, <1>8, <1>11 DEF InBuffer, Filled
    <2>3. w \notin tainted' => mSize[v] = 0
      BY <1>12, <2>1
    <2>4. mSize[v] = 0 => Sound(w)'
      BY <1>11, VectorsAssumption DEF Sound
    <2> QED
      BY <2>2, <2>3, <2>4
  <1>14. ASSUME NEW x \in Vector \ {v}, Filled(x)
         PROVE  heap'[mPointer[x]] = heap[mPointer[x]] /\ (mPointer[x] \in vectorFreed' => mPointer[x] \in vectorFreed)
    <2>1. mPointer[x] \in Buffer /\ (mPointer[x] # mPointer[v] \/ mSize[v] = 0)
      BY <1>1, <1>2, <1>14, UsableIsSmall DEF VectorsInv, VectorsType, InBuffer, Filled
    <2>2. heap'[mPointer[x]] = heap[mPointer[x]]
      BY <1>7, <1>8, <2>1
    <2>3. mPointer[x] \in vectorFreed' => mPointer[x] \in vectorFreed
      BY <1>7, <1>8, <2>1
    <2> QED
      BY <2>2, <2>3
  <1>15. vectorFreed \subseteq vectorFreed' /\ (Filled(w)' => Filled(v) /\ mPointer'[w] = mPointer[v])
    BY <1>7, <1>8, <1>11 DEF Filled
  <1> QED
    BY <1>1, <1>10, <1>11, <1>12, <1>13, <1>14, <1>15, TakeOver

\* Onto itself: the elements are gone and the freed buffer stays.
LEMMA AssignMovedToItself ==
  ASSUME VectorsInv, NEW v \in Vector, V!AssignMoved(v, v)
  PROVE  VectorsInv'
  <1>1. /\ v \in vectorMade /\ vectorMade' = vectorMade /\ V!Usable(v) /\ allocated' = allocated
        /\ mPointer' = [mPointer EXCEPT ![v] = mPointer[v]] /\ mSize' = [mSize EXCEPT ![v] = mSize[v]]
        /\ contents' = [contents EXCEPT ![v] = <<>>]
        /\ tainted \subseteq tainted' /\ (mSize[v] > 0 => v \in tainted')
    BY DEF V!AssignMoved
  <1>2. VectorsType
    BY DEF VectorsInv
  <1>3. mPointer' = mPointer /\ mSize' = mSize /\ mSize[v] \in Nat /\ mSize[v] <= MaxSize
    BY <1>1, <1>2, UsableIsSmall DEF VectorsType
  <1>4. PICK m : m = V!Memory(v)
    OBVIOUS
  <1>5. /\ m \in VectorMemory /\ m.size = mSize[v] /\ m.pointer = mPointer[v] /\ m.heap = heap
        /\ m.freed = vectorFreed /\ m.allocated = allocated
    BY <1>1, <1>4, UsableIsBacked DEF V!Memory
  <1>6. mSize[v] > 0 => mPointer[v] \in Buffer /\ mPointer[v] \in allocated
    BY <1>2, <1>3 DEF VectorsInv, InBuffer, Filled, VectorsType
  <1>7. PICK d : d = V!DeleteAll(m)
    OBVIOUS
  <1>8. /\ d \in VectorMemory
        /\ d.freed = m.freed \cup (IF m.size > 0 THEN {m.pointer} ELSE {})
        /\ \A b \in Buffer : b # m.pointer \/ m.size = 0 => d.heap[b] = m.heap[b]
    BY <1>5, <1>6, <1>7, DeleteIs
  <1>9. heap' = d.heap /\ vectorFreed' = d.freed
    BY <1>4, <1>7 DEF V!AssignMoved
  <1>10. VectorsType'
    <2>1. vectorFreed' \in SUBSET allocated /\ heap' \in [Buffer -> Seq(Element \cup {Dead})]
      BY <1>2, <1>5, <1>6, <1>8, <1>9 DEF VectorsType, VectorMemory
    <2>2. <<>> \in Seq(Element)
      OBVIOUS
    <2>3. contents' \in [Vector -> Seq(Element)]
      BY <1>1, <1>2, <2>2 DEF VectorsType
    <2> QED
      BY <1>1, <1>2, <1>3, <2>1, <2>3 DEF VectorsType
  <1>11. ASSUME NEW x \in Vector \ {v}, Filled(x)
         PROVE  heap'[mPointer[x]] = heap[mPointer[x]] /\ (mPointer[x] \in vectorFreed' <=> mPointer[x] \in vectorFreed)
    <2>1. mPointer[x] \in Buffer /\ (mPointer[x] # mPointer[v] \/ mSize[v] = 0)
      BY <1>2, <1>3, <1>11 DEF VectorsInv, VectorsType, InBuffer, Filled
    <2> QED
      BY <1>3, <1>5, <1>8, <1>9, <2>1
  <1>12. ASSUME NEW x \in Vector PROVE InBuffer(x)' /\ (x \notin vectorMade' => mSize'[x] = 0)
    <2>1. InBuffer(x) /\ (x \notin vectorMade => mSize[x] = 0) /\ (Filled(x)' <=> Filled(x))
      BY <1>3 DEF VectorsInv, Filled
    <2>2. CASE x = v
      BY <1>1, <1>3, <1>5, <1>6, <1>8, <1>9, <2>1, <2>2 DEF InBuffer, Filled
    <2>3. CASE x # v
      BY <1>1, <1>3, <1>11, <2>1, <2>3 DEF InBuffer
    <2> QED
      BY <2>2, <2>3
  <1>13. \A x, z \in Vector : x # z /\ Filled(x)' /\ Filled(z)' => mPointer'[x] # mPointer'[z]
    BY <1>3 DEF VectorsInv, Filled
  <1>14. ASSUME NEW x \in vectorMade', x \notin tainted' PROVE Sound(x)'
    <2>1. x \in Vector /\ Sound(x) /\ mSize[x] \in Nat
      BY <1>1, <1>2, <1>14 DEF VectorsInv, VectorsType
    <2>2. CASE x = v
      <3>1. mSize[v] = 0 /\ contents'[v] = <<>>
        BY <1>1, <1>2, <1>3, <1>14, <2>2 DEF VectorsType
      <3> QED
        BY <1>3, <2>2, <3>1, VectorsAssumption DEF Sound
    <2>3. CASE x # v
      <3>1. contents'[x] = contents[x]
        BY <1>1, <1>2, <2>1, <2>3 DEF VectorsType
      <3>2. CASE mSize[x] = 0
        BY <1>3, <2>1, <3>1, <3>2 DEF Sound
      <3>3. CASE mSize[x] > 0
        <4>1. Filled(x)
          BY <2>1, <3>3 DEF Sound, Filled
        <4> QED
          BY <1>3, <1>11, <2>1, <2>3, <3>1, <4>1 DEF Sound
      <3> QED
        BY <2>1, <3>2, <3>3
    <2> QED
      BY <2>2, <2>3
  <1> QED
    BY <1>10, <1>12, <1>13, <1>14 DEF VectorsInv

\* swap.
LEMMA SwapKeeps ==
  ASSUME VectorsInv, NEW v \in Vector, NEW w \in Vector, V!Swap(v, w)
  PROVE  VectorsInv'
  <1>1. /\ {v, w} \subseteq vectorMade /\ v # w /\ vectorMade' = vectorMade
        /\ mPointer' = [mPointer EXCEPT ![v] = mPointer[w], ![w] = mPointer[v]]
        /\ mSize' = [mSize EXCEPT ![v] = mSize[w], ![w] = mSize[v]]
        /\ contents' = [contents EXCEPT ![v] = contents[w], ![w] = contents[v]]
        /\ heap' = heap /\ allocated' = allocated /\ vectorFreed' = vectorFreed
        /\ tainted' = {IF x = v THEN w ELSE IF x = w THEN v ELSE x : x \in tainted}
    BY DEF V!Swap
  <1>2. VectorsType
    BY DEF VectorsInv
  <1>3. VectorsType'
    BY <1>1, <1>2 DEF VectorsType
  <1>4. /\ mPointer'[v] = mPointer[w] /\ mSize'[v] = mSize[w] /\ contents'[v] = contents[w]
        /\ mPointer'[w] = mPointer[v] /\ mSize'[w] = mSize[v] /\ contents'[w] = contents[v]
        /\ \A x \in Vector \ {v, w} : mPointer'[x] = mPointer[x] /\ mSize'[x] = mSize[x] /\ contents'[x] = contents[x]
    BY <1>1, <1>2 DEF VectorsType
  <1>5. /\ \A x \in Vector \ {v, w} : x \in tainted => x \in tainted'
        /\ v \in tainted => w \in tainted'
        /\ w \in tainted => v \in tainted'
    <2>1. \A x \in tainted : (IF x = v THEN w ELSE IF x = w THEN v ELSE x) \in tainted'
      BY <1>1
    <2> QED
      BY <1>1, <2>1
  <1>6. InBuffer(w)' /\ (w \notin tainted' => Sound(w)')
    <2>1. InBuffer(v) /\ (v \notin tainted => Sound(v))
      BY <1>1 DEF VectorsInv
    <2>2. InBuffer(w)'
      BY <1>1, <1>4, <2>1 DEF InBuffer, Filled
    <2>3. Sound(v) => Sound(w)'
      <3>1. /\ heap' = heap /\ vectorFreed' = vectorFreed
            /\ mPointer'[w] = mPointer[v] /\ mSize'[w] = mSize[v] /\ contents'[w] = contents[v]
        BY <1>1, <1>4
      <3> QED
        BY <3>1, Zenon DEF Sound
    <2> QED
      BY <1>5, <2>1, <2>2, <2>3
  <1>7. /\ \A x \in Vector \ {v, w} : x \in vectorMade <=> x \in vectorMade'
        /\ {v, w} \subseteq vectorMade' /\ w \in vectorMade
        /\ vectorFreed \subseteq vectorFreed' /\ allocated' = allocated
        /\ \A x \in Vector \ {v} : Filled(x) =>
             heap'[mPointer[x]] = heap[mPointer[x]] /\ (mPointer[x] \in vectorFreed' => mPointer[x] \in vectorFreed)
    BY <1>1
  <1>8. Filled(w)' => Filled(v) /\ mPointer'[w] = mPointer[v]
    BY <1>4 DEF Filled
  <1> QED
    BY <1>1, <1>3, <1>4, <1>5, <1>6, <1>7, <1>8, TakeOver

\* What callers pass are sequences of elements.
LEMMA RangesAre == ASSUME NEW s \in V!Ranges PROVE s \in Seq(Element) /\ Len(s) <= MaxSize
  <1>1. PICK n \in 0 .. 1 : s \in [1 .. n -> Element]
    BY DEF V!Ranges
  <1>2. n \in Nat /\ n <= MaxSize
    BY <1>1, VectorsAssumption
  <1> QED
    BY <1>1, <1>2

\* The vectors' invariant holds initially and is kept by every step.
LEMMA VectorsStart == ASSUME V!Init PROVE VectorsInv
  BY DEF V!Init, VectorsInv, VectorsType, InBuffer, Filled

LEMMA VectorsStep == ASSUME VectorsInv, [V!Next]_(V!vars) PROVE VectorsInv'
  <1>1. CASE V!Next
    <2>1. CASE \E v \in Vector : V!Destroy(v) \/ V!TouchUnusable(v) \/ V!AssignSelf(v)
      <3>1. ASSUME NEW v \in Vector, V!TouchUnusable(v) PROVE VectorsInv'
        BY <3>1 DEF V!TouchUnusable, VectorsInv, VectorsType, InBuffer, Filled, Sound
      <3> QED
        BY <2>1, <3>1, DestroyKeeps, AssignSelfKeeps
    <2>2. CASE \E v \in Vector, s \in V!Ranges :
                 V!ExpandRange(v, s) \/ V!Assign(v, s) \/ (V!CanAllocate /\ V!MakeVector(v, s))
      BY <2>2, RangesAre, ExpandRangeKeeps, AssignKeeps, MakeVectorKeeps
    <2>3. CASE \E v \in Vector, s, t \in V!Ranges : V!ExpandFew(v, s, t)
      <3>1. PICK v \in Vector, s \in V!Ranges, t \in V!Ranges : V!ExpandFew(v, s, t)
        BY <2>3
      <3>2. s \in Seq(Element) /\ t \in Seq(Element)
        BY <3>1, RangesAre
      <3>3. s \o t \in Seq(Element)
        BY <3>2, ConcatProperties
      <3> QED
        BY <3>1, <3>3, ExpandRangeKeeps DEF V!ExpandFew
    <2>4. CASE \E v \in Vector, n \in V!Sizes : V!Resize(v, n) \/ V!ShrinkWithoutFree(v, n)
      BY <2>4, ResizeKeeps, ShrinkKeeps
    <2>5. CASE \E v, w \in Vector : V!MoveVector(v, w) \/ V!AssignMoved(v, w) \/ V!AssignCopied(v, w) \/ V!Swap(v, w)
      <3>1. ASSUME NEW v \in Vector, NEW w \in Vector, V!AssignCopied(v, w) PROVE VectorsInv'
        <4>1. PICK s : s = V!Cells(V!Memory(w))
          OBVIOUS
        <4>2. s \in Seq(Element) /\ Len(s) <= MaxSize
          BY <3>1, <4>1, SoundCells DEF V!AssignCopied, VectorsInv, Sound
        <4>3. V!Assign(v, s) \/ (V!CanAllocate /\ V!MakeVector(v, s))
          BY <3>1, <4>1 DEF V!AssignCopied
        <4> QED
          BY <4>2, <4>3, AssignKeeps, MakeVectorKeeps
      <3> QED
        BY <2>5, <3>1, MoveVectorKeeps, AssignMovedKeeps, AssignMovedToItself, SwapKeeps
    <2> QED
      BY <1>1, <2>1, <2>2, <2>3, <2>4, <2>5 DEF V!Next
  <1>2. CASE UNCHANGED V!vars
    BY <1>2 DEF V!vars, VectorsInv, VectorsType, InBuffer, Filled, Sound
  <1> QED
    BY <1>1, <1>2

\* VectorIsSequence for every set of vectors, buffers and elements, and every size:
\* a vector no operation has broken holds what its operations describe, in a buffer
\* of its own that is not freed (Vector.hpp, assign, resize, expand, move and swap).
THEOREM VectorsAlwaysSequences == V!Spec => []VectorIsSequence
  <1>1. V!Init => VectorsInv
    BY VectorsStart
  <1>2. VectorsInv /\ [V!Next]_(V!vars) => VectorsInv'
    BY VectorsStep
  <1>3. VectorsInv => VectorIsSequence
    <2> SUFFICES ASSUME VectorsInv, NEW v \in vectorMade \ tainted
                 PROVE  /\ V!Usable(v) /\ V!Cells(V!Memory(v)) = contents[v]
                        /\ \A w \in vectorMade \ {v} : mSize[v] > 0 /\ mSize[w] \in 1 .. MaxSize => mPointer[v] # mPointer[w]
      BY DEF VectorIsSequence, V!VectorIsSequence
    <2>1. V!Usable(v)
      BY DEF V!Usable, VectorsInv, Sound
    <2>2. V!Cells(V!Memory(v)) = contents[v]
      BY SoundCells
    <2>3. \A w \in vectorMade \ {v} : mSize[v] > 0 /\ mSize[w] \in 1 .. MaxSize => mPointer[v] # mPointer[w]
      BY VectorsAssumption DEF VectorsInv, VectorsType, Sound, Filled
    <2> QED
      BY <2>1, <2>2, <2>3
  <1> QED
    BY <1>1, <1>2, <1>3, PTL DEF V!Spec

=============================================================================
