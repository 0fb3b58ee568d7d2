-------------------------- MODULE LinkedListProofs --------------------------
(***************************************************************************)
(* Proofs about LinkedList, for any set of addresses, finite or not.       *)
(***************************************************************************)
EXTENDS LinkedList, FiniteSetTheorems, TLAPS

USE NullAssumption DEF Pointer

\* The fields of the list have their types.
FieldTypes ==
  /\ live \in SUBSET Node
  /\ previous \in [Node -> Pointer]
  /\ next \in [Node -> Pointer]
  /\ mBegin \in Pointer /\ mBeforeEnd \in Pointer
  /\ mSize \in Nat
  /\ pos \in [Node -> Nat]

\* The whole list is linked, with no gap: what ListInv says between calls.
Whole ==
  /\ Positions
  /\ \A n \in live : NextOK(n) /\ PreviousOK(n)
  /\ BeginOK
  /\ BeforeEndOK

\* Between calls there is no gap: the list is whole.
LEMMA IdleIsWhole == ListInv /\ Idle => FieldTypes /\ Whole
  BY DEF ListInv, TypeOK, Idle, FieldTypes, Whole, LinkedButGap, NoLoop, GapFrom, GapTo

\* emplace_after keeps the list whole; the new node is one after where.
LEMMA EmplaceAfterWhole ==
  ASSUME FieldTypes, Whole, NEW where \in live \cup {Null}, NEW new \in Node,
         EmplaceAfterEffect(where, new)
  PROVE  /\ FieldTypes' /\ Whole'
         /\ new \in live' /\ pos'[new] = After(where)
  <1> USE DEF EmplaceAfterEffect, NewNode, InsertedAt, After
  <1>1. FieldTypes'
    BY DEF FieldTypes
  <1>2. CASE where = Null
    <2>1. mSize = 0 /\ live = {}
      BY <1>2 DEF Whole, BeginOK, Positions, FieldTypes
    <2> QED
      BY <1>1, <1>2, <2>1 DEF FieldTypes, Whole, Positions, BeginOK, BeforeEndOK, NextOK, PreviousOK
  <1>3. CASE where # Null
    <2> USE <1>3
    <2>1. where \in live /\ new \notin live /\ pos[where] \in 1..mSize
      BY DEF Whole, Positions, FieldTypes
    <2>2. pos'[new] = pos[where] + 1
      BY DEF FieldTypes
    <2>3. \A n \in live : pos'[n] = IF pos[n] > pos[where] THEN pos[n] + 1 ELSE pos[n]
      BY <2>1 DEF FieldTypes
    <2>4. Positions'
      BY <2>1, <2>2, <2>3 DEF Whole, Positions, FieldTypes
    <2>5. ASSUME NEW n \in live' PROVE NextOK(n)'
      BY <2>1, <2>2, <2>3, <2>5 DEF Whole, Positions, NextOK, FieldTypes
    <2>6. ASSUME NEW n \in live' PROVE PreviousOK(n)'
      BY <2>1, <2>2, <2>3, <2>6 DEF Whole, Positions, NextOK, PreviousOK, FieldTypes
    <2>7. BeginOK'
      BY <2>1, <2>2, <2>3 DEF Whole, Positions, BeginOK, FieldTypes
    <2>8. BeforeEndOK'
      BY <2>1, <2>2, <2>3 DEF Whole, Positions, BeforeEndOK, FieldTypes
    <2> QED
      BY <1>1, <2>2, <2>4, <2>5, <2>6, <2>7, <2>8 DEF Whole
  <1> QED
    BY <1>2, <1>3

\* emplace_before keeps the list whole; the new node is one before where.
LEMMA EmplaceBeforeWhole ==
  ASSUME FieldTypes, Whole, NEW where \in live \cup {Null}, NEW new \in Node,
         EmplaceBeforeEffect(where, new)
  PROVE  /\ FieldTypes' /\ Whole' /\ new \in live'
         /\ IF where = Null THEN pos'[new] = mSize'
            ELSE where \in live' /\ pos'[where] = pos'[new] + 1
  <1>1. CASE where = Null
    <2>1. EmplaceAfterEffect(mBeforeEnd, new)
      BY <1>1 DEF EmplaceBeforeEffect
    <2>2. mBeforeEnd \in live \cup {Null} /\ mSize' = After(mBeforeEnd)
      BY <2>1 DEF Whole, BeforeEndOK, After, EmplaceAfterEffect, NewNode, FieldTypes
    <2> QED
      BY <1>1, <2>1, <2>2, EmplaceAfterWhole
  <1>2. CASE where # Null
    <2>0. /\ new \in Node \ live /\ live' = live \cup {new} /\ mSize' = mSize + 1
          /\ previous' = [previous EXCEPT ![new] = previous[where], ![where] = new]
          /\ next' = [n \in Node |-> IF n = new THEN where
                                     ELSE IF n = previous[where] THEN new ELSE next[n]]
          /\ mBegin' = IF mBegin = where THEN new ELSE mBegin
          /\ mBeforeEnd' = mBeforeEnd
          /\ pos' = [n \in Node |-> IF n = new THEN pos[where]
                                    ELSE IF pos[n] >= pos[where] THEN pos[n] + 1 ELSE pos[n]]
      BY <1>2 DEF EmplaceBeforeEffect, NewNode, InsertedAt
    <2> USE <1>2, <2>0
    <2>1. /\ where \in live /\ where \in Node /\ new \notin live
          /\ pos[where] \in 1..mSize /\ previous[where] \in Pointer
      BY DEF Whole, Positions, FieldTypes
    <2>2. pos'[new] = pos[where]
      BY DEF FieldTypes
    <2>3. \A n \in live : pos'[n] = IF pos[n] >= pos[where] THEN pos[n] + 1 ELSE pos[n]
      BY <2>1 DEF FieldTypes
    <2>4. FieldTypes'
      <3>1. /\ live' \in SUBSET Node /\ mSize' \in Nat
            /\ mBegin' \in Pointer /\ mBeforeEnd' \in Pointer
        BY <2>1 DEF FieldTypes
      <3>2. previous' \in [Node -> Pointer]
        BY <2>1 DEF FieldTypes
      <3>3. next' \in [Node -> Pointer]
        BY <2>1 DEF FieldTypes
      <3>4. pos' \in [Node -> Nat]
        BY <2>1 DEF FieldTypes
      <3> QED
        BY <3>1, <3>2, <3>3, <3>4 DEF FieldTypes
    <2>5. Positions'
      <3>1. \A n \in Node : IF n \in live' THEN pos'[n] \in 1..mSize' ELSE pos'[n] = 0
        BY <2>1, <2>2, <2>3 DEF Whole, Positions, FieldTypes
      <3>2. \A m, n \in live' : pos'[m] = pos'[n] => m = n
        BY <2>1, <2>2, <2>3 DEF Whole, Positions, FieldTypes
      <3> QED
        BY <3>1, <3>2 DEF Positions
    <2>6. ASSUME NEW n \in live' PROVE NextOK(n)'
      <3>1. CASE n = new
        BY <3>1, <2>1, <2>2, <2>3 DEF NextOK, FieldTypes
      <3>2. CASE n # new /\ n = previous[where]
        <4>1. n \in live /\ n \in Node /\ pos[n] = pos[where] - 1 /\ next'[n] = new
          BY <3>2, <2>1 DEF Whole, PreviousOK, FieldTypes
        <4> QED
          BY <4>1, <2>1, <2>2, <2>3 DEF NextOK, FieldTypes
      <3>3. CASE n # new /\ n # previous[where]
        <4>1. n \in live /\ n \in Node /\ next'[n] = next[n] /\ pos[n] \in 1..mSize
          BY <3>3 DEF Whole, Positions, FieldTypes
        <4>2. pos[n] + 1 # pos[where]
          BY <4>1, <3>3, <2>1 DEF Whole, Positions, PreviousOK, FieldTypes
        <4> QED
          BY <4>1, <4>2, <2>1, <2>2, <2>3 DEF Whole, NextOK, FieldTypes
      <3> QED
        BY <3>1, <3>2, <3>3
    <2>7. ASSUME NEW n \in live' PROVE PreviousOK(n)'
      BY <2>1, <2>2, <2>3, <2>7 DEF Whole, Positions, PreviousOK, FieldTypes
    <2>8. BeginOK'
      BY <2>1, <2>2, <2>3 DEF Whole, Positions, BeginOK, FieldTypes
    <2>9. BeforeEndOK'
      BY <2>1, <2>2, <2>3 DEF Whole, Positions, BeforeEndOK, FieldTypes
    <2> QED
      BY <2>1, <2>2, <2>3, <2>4, <2>5, <2>6, <2>7, <2>8, <2>9 DEF Whole, FieldTypes
  <1> QED
    BY <1>1, <1>2

\* erase(iterator) keeps the list whole and returns one of its nodes or end().
LEMMA EraseWhole ==
  ASSUME FieldTypes, Whole, NEW node \in live, EraseEffect(node)
  PROVE  FieldTypes' /\ Whole' /\ ret' \in live' \cup {Null}
  <1> USE DEF EraseEffect, RelinkPrevious, EraseResult, DeleteNode, Removed
  <1>1. node \in Node /\ pos[node] \in 1..mSize
    BY DEF Whole, Positions, FieldTypes
  <1>2. \A n \in live' :
          /\ n \in live /\ n # node
          /\ pos'[n] = IF pos[n] > pos[node] THEN pos[n] - 1 ELSE pos[n]
    BY <1>1 DEF FieldTypes
  <1>3. FieldTypes'
    BY <1>1 DEF FieldTypes
  <1>4. Positions'
    <2>1. /\ \A n \in Node : IF n \in live THEN pos[n] \in 1..mSize ELSE pos[n] = 0
          /\ \A m, n \in live : pos[m] = pos[n] => m = n
          /\ mSize \in Nat /\ mSize' = mSize - 1 /\ live' = live \ {node}
      BY DEF Whole, Positions, FieldTypes
    <2>2. ASSUME NEW n \in Node PROVE IF n \in live' THEN pos'[n] \in 1..mSize' ELSE pos'[n] = 0
      <3>1. CASE n \in live'
        <4>1. pos[n] \in 1..mSize /\ pos[n] # pos[node]
          BY <1>1, <1>2, <2>1, <3>1
        <4> QED
          BY <1>1, <1>2, <2>1, <3>1, <4>1
      <3>2. CASE n \notin live'
        BY <1>1, <2>1, <3>2 DEF FieldTypes
      <3> QED
        BY <3>1, <3>2
    <2>3. ASSUME NEW m \in live', NEW n \in live', pos'[m] = pos'[n] PROVE m = n
      <3>1. /\ m \in live /\ n \in live /\ pos[m] \in Nat /\ pos[n] \in Nat /\ pos[node] \in Nat
            /\ pos[m] # pos[node] /\ pos[n] # pos[node]
        BY <1>1, <1>2, <2>1 DEF FieldTypes
      <3>2. pos[m] = pos[n]
        BY <1>2, <2>3, <3>1
      <3> QED
        BY <2>1, <3>1, <3>2
    <2> QED
      BY <2>2, <2>3 DEF Positions
  <1>5. ASSUME NEW n \in live' PROVE NextOK(n)'
    <2>1. n \in live /\ n \in Node /\ n # node /\ pos[n] \in 1..mSize /\ pos[n] # pos[node]
      BY <1>1, <1>2 DEF Whole, Positions, FieldTypes
    <2>2. CASE n = previous[node]
      <3>1. pos[n] = pos[node] - 1 /\ next'[n] = next[node]
        BY <2>1, <2>2, <1>1 DEF Whole, PreviousOK, FieldTypes
      <3> QED
        BY <3>1, <2>1, <1>1, <1>2 DEF Whole, NextOK, FieldTypes
    <2>3. CASE n # previous[node]
      <3>1. next'[n] = next[n] /\ pos[n] + 1 # pos[node]
        BY <2>1, <2>3, <1>1 DEF Whole, Positions, PreviousOK, FieldTypes
      <3>2. NextOK(n) /\ mSize \in Nat /\ pos[node] \in Nat /\ pos[n] \in Nat
        BY <2>1, <1>1 DEF Whole, FieldTypes
      <3> QED
        BY <3>1, <3>2, <2>1, <1>1, <1>2 DEF NextOK
    <2> QED
      BY <2>2, <2>3
  <1>6. ASSUME NEW n \in live' PROVE PreviousOK(n)'
    BY <1>1, <1>2, <1>6 DEF Whole, Positions, NextOK, PreviousOK, FieldTypes
  <1>7. BeginOK'
    BY <1>1, <1>2 DEF Whole, Positions, BeginOK, NextOK, FieldTypes
  <1>8. BeforeEndOK'
    BY <1>1, <1>2 DEF Whole, Positions, BeforeEndOK, PreviousOK, FieldTypes
  <1>9. ret' \in live' \cup {Null}
    BY <1>1 DEF Whole, Positions, NextOK, PreviousOK, FieldTypes
  <1> QED
    BY <1>3, <1>4, <1>5, <1>6, <1>7, <1>8, <1>9 DEF Whole

\* Whole is ListInv again once the call is over.
LEMMA WholeIsInv ==
  ASSUME FieldTypes, Whole, Idle, ~beginHit, ~beforeEndHit,
         it \in Pointer, stop \in Pointer, saved \in Pointer, ret \in Pointer,
         beginHit \in BOOLEAN, beforeEndHit \in BOOLEAN
  PROVE  ListInv
  BY DEF ListInv, TypeOK, Idle, FieldTypes, Whole, LinkedButGap, NoLoop, EraseLoop,
         InsertAfterLoop, GapFrom, GapTo

-----------------------------------------------------------------------------
(* The loops.                                                              *)

\* insert starts its loop with the gap after the first new node.
LEMMA InsertRangeInv ==
  ASSUME ListInv, NEW where \in live \cup {Null}, NEW new \in Node, InsertRange(where, new)
  PROVE  ListInv'
  <1>1. FieldTypes /\ Whole
    BY IdleIsWhole DEF InsertRange
  <1>2. EmplaceBeforeEffect(where, new)
    BY DEF InsertRange
  <1>3. /\ FieldTypes' /\ Whole' /\ new \in live'
        /\ IF where = Null THEN pos'[new] = mSize'
           ELSE where \in live' /\ pos'[where] = pos'[new] + 1
    BY <1>1, <1>2, EmplaceBeforeWhole
  <1>4. /\ op' = "insertAfter" /\ it' = new /\ saved' = next'[new] /\ ret' = Null
        /\ beforeEndHit' = (new = mBeforeEnd') /\ stop' = stop /\ beginHit' = beginHit
    BY DEF InsertRange
  <1>5. ~beginHit /\ beginHit \in BOOLEAN /\ stop \in Pointer
    BY DEF ListInv, NoLoop, InsertRange, Idle, TypeOK
  <1>6. new \in Node /\ next'[new] \in Pointer /\ pos'[new] \in 1..mSize' /\ mSize' \in Nat
    BY <1>3 DEF FieldTypes, Whole, Positions
  <1>7. TypeOK'
    BY <1>3, <1>4, <1>5, <1>6 DEF TypeOK, FieldTypes
  <1>8. InsertAfterLoop'
    <2>1. CASE saved' = Null
      BY <2>1, <1>3, <1>4, <1>5, <1>6 DEF InsertAfterLoop, Whole, NextOK, Positions, BeforeEndOK
    <2>2. CASE saved' # Null
      BY <2>2, <1>3, <1>4, <1>5, <1>6 DEF InsertAfterLoop, Whole, NextOK, Positions, BeforeEndOK
    <2> QED
      BY <2>1, <2>2
  <1>9. LinkedButGap' /\ EraseLoop' /\ NoLoop'
    BY <1>3, <1>4, <1>5 DEF LinkedButGap, EraseLoop, NoLoop, Idle, GapFrom, GapTo, Whole
  <1> QED
    BY <1>3, <1>7, <1>8, <1>9 DEF ListInv, Whole

\* One more node after self: the gap moves on with self.
LEMMA InsertAfterStepInv ==
  ASSUME ListInv, NEW new \in Node, InsertAfterStep(new)
  PROVE  ListInv'
  <1>1. /\ op = "insertAfter" /\ new \in Node \ live
        /\ live' = live \cup {new} /\ mSize' = mSize + 1
        /\ previous' = [previous EXCEPT ![new] = it]
        /\ next' = [next EXCEPT ![new] = Null, ![it] = new]
        /\ it' = new
        /\ UNCHANGED <<mBegin, mBeforeEnd, op, stop, saved, beginHit, beforeEndHit, ret>>
    BY DEF InsertAfterStep, NewNode
  <1>2. /\ TypeOK /\ Positions
        /\ it \in live /\ it \in Node /\ it # Null /\ ~beginHit
        /\ beforeEndHit = (saved = Null)
        /\ pos[it] \in 1..mSize
    BY <1>1 DEF ListInv, InsertAfterLoop, TypeOK, Positions
  <1>3. pos' = [n \in Node |-> IF n = new THEN pos[it] + 1
                               ELSE IF pos[n] >= pos[it] + 1 THEN pos[n] + 1 ELSE pos[n]]
    BY <1>2 DEF InsertAfterStep, InsertedAt, After
  <1>4. IF saved = Null THEN pos[it] = mSize
        ELSE saved \in live /\ pos[saved] = pos[it] + 1
    BY <1>1 DEF ListInv, InsertAfterLoop
  <1>5. GapFrom = it /\ GapTo = saved /\ GapFrom' = new /\ GapTo' = saved
    BY <1>1 DEF GapFrom, GapTo
  <1> USE <1>1, <1>3
  <1>6. TypeOK'
    BY <1>2 DEF TypeOK
  <1>7. Positions'
    BY <1>2 DEF TypeOK, Positions
  <1>8. InsertAfterLoop'
    BY <1>2, <1>4 DEF InsertAfterLoop, TypeOK
  <1>9. LinkedButGap'
    <2>1. ASSUME NEW n \in live', n # new PROVE NextOK(n)'
      <3>1. n \in live /\ n \in Node /\ pos[n] \in 1..mSize
        BY <2>1, <1>2 DEF TypeOK, Positions
      <3>2. CASE n = it
        BY <3>1, <3>2, <1>2 DEF NextOK, TypeOK
      <3>3. CASE n # it
        <4>1. NextOK(n) /\ next'[n] = next[n] /\ pos[n] # pos[it]
          BY <3>1, <3>3, <2>1, <1>2, <1>5 DEF ListInv, LinkedButGap, Positions, TypeOK
        <4> QED
          BY <4>1, <3>1, <1>2 DEF NextOK, TypeOK
      <3> QED
        BY <3>2, <3>3
    <2>2. ASSUME NEW n \in live', n # saved PROVE PreviousOK(n)'
      <3>1. CASE n = new
        BY <3>1, <1>2 DEF PreviousOK, TypeOK
      <3>2. CASE n # new
        <4>1. /\ n \in live /\ n \in Node /\ pos[n] \in 1..mSize /\ previous'[n] = previous[n]
              /\ PreviousOK(n)
          BY <3>2, <2>2, <1>2, <1>5 DEF ListInv, LinkedButGap, Positions, TypeOK
        <4>2. pos[n] # pos[it] + 1
          BY <4>1, <2>2, <1>2, <1>4 DEF Positions, TypeOK
        <4> QED
          BY <4>1, <4>2, <1>2 DEF PreviousOK, TypeOK
      <3> QED
        BY <3>1, <3>2
    <2>3. BeginOK'
      BY <1>2 DEF ListInv, LinkedButGap, BeginOK, TypeOK
    <2>4. ~beforeEndHit => BeforeEndOK'
      <3> SUFFICES ASSUME ~beforeEndHit PROVE BeforeEndOK'
        OBVIOUS
      <3>1. saved \in live /\ pos[saved] = pos[it] + 1 /\ BeforeEndOK
        BY <1>2, <1>4 DEF ListInv, LinkedButGap
      <3>2. pos[saved] \in 1..mSize
        BY <3>1, <1>2 DEF Positions, TypeOK
      <3> QED
        BY <3>1, <3>2, <1>2 DEF BeforeEndOK, TypeOK
    <2> QED
      BY <2>1, <2>2, <2>3, <2>4, <1>5 DEF LinkedButGap
  <1> QED
    BY <1>6, <1>7, <1>8, <1>9 DEF ListInv, EraseLoop, NoLoop, Idle

\* insertAfter ends by closing the gap.
LEMMA InsertAfterEndInv ==
  ASSUME ListInv, InsertAfterEnd
  PROVE  ListInv'
  <1>1. /\ op = "insertAfter"
        /\ next' = [next EXCEPT ![it] = saved]
        /\ previous' = [n \in Node |-> IF n = saved THEN it ELSE previous[n]]
        /\ mBeforeEnd' = IF beforeEndHit THEN it ELSE mBeforeEnd
        /\ op' = "idle" /\ it' = Null /\ saved' = Null /\ beforeEndHit' = FALSE
        /\ UNCHANGED <<live, mBegin, mSize, stop, beginHit, ret, pos>>
    BY DEF InsertAfterEnd
  <1>2. /\ TypeOK /\ Positions
        /\ it \in live /\ it \in Node /\ it # Null /\ ~beginHit
        /\ beforeEndHit = (saved = Null)
        /\ pos[it] \in 1..mSize
        /\ IF saved = Null THEN pos[it] = mSize
           ELSE saved \in live /\ pos[saved] = pos[it] + 1
    BY <1>1 DEF ListInv, InsertAfterLoop, TypeOK, Positions
  <1>3. GapFrom = it /\ GapTo = saved
    BY <1>1 DEF GapFrom, GapTo
  <1> USE <1>1
  <1>4. FieldTypes'
    BY <1>2 DEF TypeOK, FieldTypes
  <1>5. Positions'
    BY <1>2 DEF Positions
  <1>6. ASSUME NEW n \in live' PROVE NextOK(n)'
    <2>1. n \in Node /\ n \in live /\ pos[n] \in 1..mSize
      BY <1>2 DEF TypeOK, Positions
    <2>2. CASE n = it
      BY <2>1, <2>2, <1>2 DEF NextOK, TypeOK, Positions
    <2>3. CASE n # it
      BY <2>1, <2>3, <1>2, <1>3 DEF ListInv, LinkedButGap, NextOK, TypeOK
    <2> QED
      BY <2>2, <2>3
  <1>7. ASSUME NEW n \in live' PROVE PreviousOK(n)'
    <2>1. n \in Node /\ n \in live /\ pos[n] \in 1..mSize
      BY <1>2 DEF TypeOK, Positions
    <2>2. CASE n = saved
      BY <2>1, <2>2, <1>2 DEF PreviousOK, TypeOK, Positions
    <2>3. CASE n # saved
      BY <2>1, <2>3, <1>2, <1>3 DEF ListInv, LinkedButGap, PreviousOK, TypeOK
    <2> QED
      BY <2>2, <2>3
  <1>8. BeginOK' /\ BeforeEndOK'
    BY <1>2 DEF ListInv, LinkedButGap, BeginOK, BeforeEndOK, TypeOK
  <1>9. Whole'
    BY <1>5, <1>6, <1>7, <1>8 DEF Whole
  <1> QED
    BY <1>2, <1>4, <1>9 DEF ListInv, TypeOK, Idle, FieldTypes, Whole, LinkedButGap, NoLoop,
       EraseLoop, InsertAfterLoop, GapFrom, GapTo

\* The erase loop starts at the front of its range, on a whole list.
LEMMA EraseRangeInv ==
  ASSUME ListInv, NEW first \in live, NEW last \in live \cup {Null}, EraseRange(first, last),
         \/ previous[first] # Null /\ last # Null /\ pos[first] < pos[last]
         \/ first = mBegin /\ last = Null
  PROVE  ListInv'
  <1>1. /\ op = "idle" /\ op' = "erase" /\ it' = first /\ stop' = last
        /\ saved' = previous[first] /\ ret' = Null
        /\ UNCHANGED <<live, previous, next, mBegin, mBeforeEnd, mSize, beginHit, beforeEndHit, pos>>
    BY DEF EraseRange, Idle, fields
  <1>2. /\ FieldTypes /\ Whole /\ ~beginHit /\ ~beforeEndHit
        /\ beginHit \in BOOLEAN /\ beforeEndHit \in BOOLEAN
    BY <1>1, IdleIsWhole DEF ListInv, NoLoop, Idle, TypeOK
  <1>3. first \in Node /\ pos[first] \in 1..mSize /\ previous[first] \in Pointer /\ last \in Pointer
    BY <1>2 DEF FieldTypes, Whole, Positions
  <1> USE <1>1
  <1>4. TypeOK'
    BY <1>2, <1>3 DEF TypeOK, FieldTypes
  <1>5. Positions' /\ LinkedButGap'
    BY <1>2 DEF Whole, LinkedButGap, Positions, NextOK, PreviousOK, BeginOK, BeforeEndOK
  <1>6. EraseLoop'
    <2>1. CASE previous[first] # Null /\ last # Null /\ pos[first] < pos[last]
      <3>1. PreviousOK(first)
        BY <1>2 DEF Whole
      <3>2. previous[first] \in live /\ pos[previous[first]] = pos[first] - 1
        BY <2>1, <3>1 DEF PreviousOK
      <3> QED
        BY <2>1, <3>2, <1>2, <1>3 DEF EraseLoop, FieldTypes
    <2>2. CASE first = mBegin /\ last = Null
      <3>1. pos[first] = 1 /\ mSize # 0
        BY <2>2, <1>2, <1>3 DEF Whole, BeginOK, FieldTypes
      <3>2. previous[first] = Null
        BY <3>1, <1>2 DEF Whole, PreviousOK
      <3> QED
        BY <2>2, <3>1, <3>2 DEF EraseLoop
    <2> QED
      BY <2>1, <2>2
  <1> QED
    BY <1>4, <1>5, <1>6 DEF ListInv, InsertAfterLoop, NoLoop, Idle

\* One iteration deletes the first node that is left of the range.
LEMMA EraseStepInv ==
  ASSUME ListInv, EraseStep
  PROVE  ListInv'
  <1>1. /\ op = "erase" /\ it # stop /\ it # Null
        /\ beginHit' = (beginHit \/ it = mBegin)
        /\ beforeEndHit' = (beforeEndHit \/ it = mBeforeEnd)
        /\ it' = next[it]
        /\ live' = live \ {it} /\ mSize' = mSize - 1
        /\ UNCHANGED <<previous, next, mBegin, mBeforeEnd, op, stop, saved, ret>>
        /\ pos' = [n \in Node |-> IF n = it THEN 0
                                  ELSE IF pos[n] > pos[it] THEN pos[n] - 1 ELSE pos[n]]
    BY DEF EraseStep, InRange, DeleteNode, Removed
  <1>2. TypeOK /\ Positions /\ LinkedButGap
    BY DEF ListInv
  <1>3. /\ it \in live /\ it \in Node /\ pos[it] \in 1..mSize /\ mSize \in Nat \ {0}
        /\ it # saved
    BY <1>1, <1>2 DEF ListInv, EraseLoop, TypeOK, Positions
  <1>4. GapFrom = saved /\ GapTo = it /\ GapFrom' = saved /\ GapTo' = next[it]
    BY <1>1 DEF GapFrom, GapTo
  <1>5. NextOK(it)
    BY <1>2, <1>3, <1>4 DEF LinkedButGap
  <1>6. IF saved = Null THEN stop = Null /\ pos[it] = 1
        ELSE /\ {saved, stop} \subseteq live /\ pos[it] = pos[saved] + 1 /\ pos[it] < pos[stop]
             /\ ~beginHit /\ ~beforeEndHit
    <2>1. CASE saved = Null
      BY <2>1, <1>1, <1>3 DEF ListInv, EraseLoop
    <2>2. CASE saved # Null
      <3>1. /\ {saved, stop} \subseteq live /\ pos[it] = pos[saved] + 1 /\ pos[it] <= pos[stop]
            /\ ~beginHit /\ ~beforeEndHit
        BY <2>2, <1>1 DEF ListInv, EraseLoop
      <3>2. pos[it] # pos[stop]
        BY <3>1, <1>1, <1>2, <1>3 DEF Positions
      <3>3. pos[stop] \in Nat
        BY <3>1, <1>2 DEF TypeOK
      <3> QED
        BY <2>2, <3>1, <3>2, <3>3, <1>3
    <2> QED
      BY <2>1, <2>2
  <1> USE <1>1
  <1>7. \A n \in live' : /\ n \in live /\ n \in Node /\ n # it /\ pos[n] # pos[it]
                         /\ pos[n] \in 1..mSize
                         /\ pos'[n] = IF pos[n] > pos[it] THEN pos[n] - 1 ELSE pos[n]
    BY <1>2, <1>3 DEF TypeOK, Positions
  <1>8. TypeOK'
    BY <1>2, <1>3 DEF TypeOK
  <1>9. Positions'
    <2>1. \A n \in Node : IF n \in live' THEN pos'[n] \in 1..mSize' ELSE pos'[n] = 0
      BY <1>2, <1>3, <1>7 DEF TypeOK, Positions
    <2>2. \A m, n \in live' : pos'[m] = pos'[n] => m = n
      BY <1>2, <1>3, <1>7 DEF TypeOK, Positions
    <2> QED
      BY <2>1, <2>2 DEF Positions
  <1>10. EraseLoop'
    <2>1. CASE saved = Null
      BY <2>1, <1>2, <1>3, <1>5, <1>6, <1>7 DEF EraseLoop, NextOK, TypeOK
    <2>2. CASE saved # Null
      <3>1. /\ saved \in live' /\ stop \in live'
            /\ pos'[saved] = pos[saved] /\ pos'[stop] = pos[stop] - 1
        BY <2>2, <1>2, <1>3, <1>6, <1>7 DEF TypeOK
      <3>2. pos[it] # mSize
        BY <2>2, <1>2, <1>3, <1>6 DEF TypeOK, Positions
      <3>3. next[it] \in live' /\ pos'[next[it]] = pos[it]
        BY <3>2, <1>2, <1>3, <1>5, <1>7 DEF NextOK, TypeOK
      <3>4. ~beginHit' /\ ~beforeEndHit'
        BY <2>2, <3>2, <1>2, <1>3, <1>6 DEF LinkedButGap, BeginOK, BeforeEndOK, TypeOK, Positions
      <3> QED
        BY <2>2, <3>1, <3>3, <3>4, <1>2, <1>3, <1>6 DEF EraseLoop, TypeOK
    <2> QED
      BY <2>1, <2>2
  <1>11. LinkedButGap'
    <2>1. ASSUME NEW n \in live', n # saved PROVE NextOK(n)'
      <3>1. NextOK(n) /\ pos[n] + 1 # pos[it]
        BY <2>1, <1>2, <1>3, <1>4, <1>6, <1>7 DEF LinkedButGap, Positions, TypeOK
      <3> QED
        BY <3>1, <1>2, <1>3, <1>7 DEF NextOK, TypeOK
    <2>2. ASSUME NEW n \in live', n # next[it] PROVE PreviousOK(n)'
      <3>1. PreviousOK(n)
        BY <2>2, <1>2, <1>4, <1>7 DEF LinkedButGap
      <3>2. pos[n] # pos[it] + 1
        BY <2>2, <1>2, <1>3, <1>5, <1>7 DEF NextOK, Positions, TypeOK
      <3> QED
        BY <3>1, <3>2, <1>2, <1>3, <1>7 DEF PreviousOK, Positions, TypeOK
    <2>3. ASSUME ~beginHit' PROVE BeginOK'
      <3>1. BeginOK /\ it # mBegin
        BY <2>3, <1>2 DEF LinkedButGap
      <3>2. mBegin \in live' /\ pos[mBegin] = 1
        BY <3>1, <1>3 DEF BeginOK
      <3> QED
        BY <3>2, <1>3, <1>7 DEF BeginOK
    <2>4. ASSUME ~beforeEndHit' PROVE BeforeEndOK'
      <3>1. BeforeEndOK /\ it # mBeforeEnd
        BY <2>4, <1>2 DEF LinkedButGap
      <3>2. mBeforeEnd \in live' /\ pos[mBeforeEnd] = mSize
        BY <3>1, <1>3 DEF BeforeEndOK
      <3>3. pos[it] < mSize /\ pos'[mBeforeEnd] = mSize - 1
        BY <3>2, <1>3, <1>7
      <3> QED
        BY <3>2, <3>3, <1>3 DEF BeforeEndOK
    <2> QED
      BY <2>1, <2>2, <2>3, <2>4, <1>4 DEF LinkedButGap
  <1> QED
    BY <1>8, <1>9, <1>10, <1>11 DEF ListInv, InsertAfterLoop, NoLoop, Idle

\* The statements after the erase loop close the gap, or empty the list.
LEMMA EraseEndInv ==
  ASSUME ListInv, EraseEnd
  PROVE  ListInv'
  <1>1. /\ op = "erase" /\ it = stop
        /\ IF saved # Null
           THEN /\ next' = [next EXCEPT ![saved] = it]
                /\ previous' = [previous EXCEPT ![it] = saved]
           ELSE previous' = previous /\ next' = next
        /\ mBegin' = IF beginHit THEN stop ELSE mBegin
        /\ mBeforeEnd' = IF beforeEndHit THEN stop ELSE mBeforeEnd
        /\ op' = "idle" /\ it' = Null /\ stop' = Null /\ saved' = Null
        /\ beginHit' = FALSE /\ beforeEndHit' = FALSE
        /\ UNCHANGED <<live, mSize, ret, pos>>
    BY DEF EraseEnd, InRange
  <1>2. TypeOK /\ Positions /\ LinkedButGap /\ GapFrom = saved /\ GapTo = it
    BY <1>1 DEF ListInv, GapFrom, GapTo
  <1> USE <1>1
  <1>3. FieldTypes' /\ Positions'
    BY <1>2 DEF TypeOK, FieldTypes, Positions
  <1>4. CASE saved = Null
    <2>1. mSize = 0 /\ stop = Null /\ live = {}
      BY <1>4, <1>2 DEF ListInv, EraseLoop, TypeOK, Positions
    <2> QED
      BY <1>2, <1>3, <1>4, <2>1 DEF Whole, LinkedButGap, BeginOK, BeforeEndOK, ListInv, TypeOK,
         Idle, NoLoop, EraseLoop, InsertAfterLoop, FieldTypes
  <1>5. CASE saved # Null
    <2>1. /\ saved \in live /\ it \in live /\ saved \in Node /\ it \in Node
          /\ pos[it] = pos[saved] + 1 /\ ~beginHit /\ ~beforeEndHit
          /\ pos[saved] \in 1..mSize /\ pos[it] \in 1..mSize /\ mSize \in Nat
      BY <1>5, <1>2 DEF ListInv, EraseLoop, TypeOK, Positions
    <2>2. ASSUME NEW n \in live' PROVE NextOK(n)'
      BY <1>2, <1>5, <2>1 DEF LinkedButGap, NextOK, TypeOK
    <2>3. ASSUME NEW n \in live' PROVE PreviousOK(n)'
      BY <1>2, <1>5, <2>1 DEF LinkedButGap, PreviousOK, TypeOK
    <2>4. BeginOK' /\ BeforeEndOK'
      BY <1>2, <2>1 DEF LinkedButGap, BeginOK, BeforeEndOK
    <2> QED
      BY <1>2, <1>3, <2>2, <2>3, <2>4 DEF LinkedButGap, ListInv, TypeOK,
         Idle, NoLoop, EraseLoop, InsertAfterLoop, FieldTypes
  <1> QED
    BY <1>4, <1>5

-----------------------------------------------------------------------------
(* The theorems.                                                           *)

\* A single-node operation that leaves the list whole leaves ListInv.
LEMMA WholeCall ==
  ASSUME ListInv, Idle, UNCHANGED locals, FieldTypes', Whole', ret' \in Pointer
  PROVE  ListInv'
  BY DEF ListInv, TypeOK, Idle, locals, FieldTypes, Whole, LinkedButGap, NoLoop, EraseLoop,
     InsertAfterLoop, GapFrom, GapTo

\* One element placed before or after any iterator of the list.
LEMMA EmplaceInv ==
  ASSUME ListInv, Idle, UNCHANGED locals, NEW where \in live \cup {Null}, NEW new \in Node,
         ret' = new,
         EmplaceAfterEffect(where, new) \/ EmplaceBeforeEffect(where, new)
  PROVE  ListInv'
  <1>1. FieldTypes /\ Whole
    BY IdleIsWhole
  <1>2. FieldTypes' /\ Whole'
    BY <1>1, EmplaceAfterWhole, EmplaceBeforeWhole
  <1> QED
    BY <1>2, WholeCall

\* mBegin and mBeforeEnd are iterators of the list: emplace_back, emplace_front,
\* pop_back and pop_front pass them on.
LEMMA EndsAreIterators == ListInv /\ Idle => {mBegin, mBeforeEnd} \subseteq live \cup {Null}
  BY IdleIsWhole DEF Whole, BeginOK, BeforeEndOK

\* erase(iterator) of a node of the list, on its own or from a pop.
LEMMA EraseNodeInv ==
  ASSUME ListInv, NEW node \in live, Erase(node)
  PROVE  ListInv' /\ ret' \in live' \cup {Null}
  <1>1. FieldTypes /\ Whole /\ EraseEffect(node) /\ UNCHANGED locals /\ Idle
    BY IdleIsWhole DEF Erase
  <1>2. FieldTypes' /\ Whole' /\ ret' \in live' \cup {Null}
    BY <1>1, EraseWhole
  <1>3. ret' \in Pointer
    BY <1>2 DEF FieldTypes
  <1> QED
    BY <1>1, <1>2, <1>3, WholeCall

\* Every step of every operation keeps the list linked up to the gap its loop
\* is working on.
LEMMA InvNext == ListInv /\ [Next]_vars => ListInv'
  <1> SUFFICES ASSUME ListInv, [Next]_vars PROVE ListInv'
    OBVIOUS
  <1>1. ASSUME NEW where \in live \cup {Null}, NEW new \in Node,
               Emplace_after(where, new) \/ Emplace_before(where, new)
        PROVE  ListInv'
    BY <1>1, EmplaceInv DEF Emplace_after, Emplace_before
  <1>2. ASSUME NEW where \in live \cup {Null}, NEW new \in Node, InsertRange(where, new)
        PROVE  ListInv'
    BY <1>2, InsertRangeInv
  <1>3. ASSUME NEW new \in Node, Emplace_back(new) PROVE ListInv'
    BY <1>3, EmplaceInv, EndsAreIterators DEF Emplace_back
  <1>4. ASSUME NEW new \in Node, Emplace_front(new) PROVE ListInv'
    BY <1>4, EmplaceInv, EndsAreIterators DEF Emplace_front
  <1>5. ASSUME NEW new \in Node, InsertAfterStep(new) PROVE ListInv'
    BY <1>5, InsertAfterStepInv
  <1>6. ASSUME NEW node \in live, Erase(node) PROVE ListInv'
    BY <1>6, EraseNodeInv
  <1>7. CASE Pop_back \/ Pop_front
    BY <1>7, EraseNodeInv, EndsAreIterators DEF Pop_back, Pop_front, Erase
  <1>8. CASE InsertAfterEnd
    BY <1>8, InsertAfterEndInv
  <1>9. ASSUME NEW first \in live, NEW last \in live, EraseInterior(first, last)
        PROVE  ListInv'
    BY <1>9, EraseRangeInv DEF EraseInterior, ListInv, TypeOK
  <1>10. CASE Clear
    BY <1>10, EraseRangeInv, EndsAreIterators DEF Clear, EraseRange
  <1>11. CASE EraseStep
    BY <1>11, EraseStepInv
  <1>12. CASE EraseEnd
    BY <1>12, EraseEndInv
  <1>13. CASE UNCHANGED vars
    BY <1>13 DEF vars, fields, locals, ListInv, TypeOK, Positions, LinkedButGap, NextOK,
       PreviousOK, BeginOK, BeforeEndOK, GapFrom, GapTo, EraseLoop, InsertAfterLoop, NoLoop, Idle
  <1> QED
    BY <1>1, <1>2, <1>3, <1>4, <1>5, <1>6, <1>7, <1>8, <1>9, <1>10, <1>11, <1>12, <1>13 DEF Next

\* The empty list of the default constructor.
LEMMA InvInit == Init => ListInv
  <1> SUFFICES ASSUME Init PROVE ListInv
    OBVIOUS
  <1>1. TypeOK
    BY DEF Init, TypeOK
  <1>2. Positions /\ LinkedButGap
    BY DEF Init, Positions, LinkedButGap, BeginOK, BeforeEndOK
  <1> QED
    BY <1>1, <1>2 DEF Init, ListInv, EraseLoop, InsertAfterLoop, NoLoop, Idle

\* The list is linked up to the gap of the running loop, at every step of any
\* sequence of calls (LinkedList.hpp's operations, the range erase of an
\* interior range and clear()), and the null dereference is never reached.
THEOREM ListInvariant == Spec => []ListInv
  <1> QED
    BY InvInit, InvNext, PTL DEF Spec

\* Between calls next, previous, mBegin and mBeforeEnd are the sequence asked for.
THEOREM ListLinked == Spec => []Linked
  <1>1. ListInv => Linked
    BY IdleIsWhole DEF Linked, Whole
  <1> QED
    BY <1>1, ListInvariant, PTL

\* mSize counts the allocated nodes at every step, so nothing leaks: every step
\* allocates or deletes one node and counts it, or does neither.
THEOREM ListSize == Spec => []SizeIsCount
  <1>1. Init => SizeIsCount
    BY FS_EmptySet DEF Init, SizeIsCount
  <1>2. ASSUME ListInv, SizeIsCount, [Next]_vars PROVE SizeIsCount'
    <2>1. ASSUME NEW new \in Node, NewNode(new) PROVE SizeIsCount'
      BY <1>2, <2>1, FS_AddElement DEF NewNode, SizeIsCount
    <2>2. ASSUME NEW node \in live, DeleteNode(node) PROVE SizeIsCount'
      BY <1>2, <2>2, FS_RemoveElement DEF DeleteNode, SizeIsCount
    <2>3. ASSUME UNCHANGED <<live, mSize>> PROVE SizeIsCount'
      BY <1>2, <2>3 DEF SizeIsCount
    <2>4. ASSUME NEW where, NEW new \in Node,
                 EmplaceAfterEffect(where, new) \/ EmplaceBeforeEffect(where, new)
          PROVE  SizeIsCount'
      BY <2>1, <2>4 DEF EmplaceAfterEffect, EmplaceBeforeEffect
    <2>5. ASSUME NEW where, NEW new \in Node,
                 \/ Emplace_after(where, new) \/ Emplace_before(where, new)
                 \/ InsertRange(where, new) \/ Emplace_back(new) \/ Emplace_front(new)
          PROVE  SizeIsCount'
      BY <2>4, <2>5 DEF Emplace_after, Emplace_before, InsertRange, Emplace_back, Emplace_front
    <2>6. ASSUME NEW new \in Node, InsertAfterStep(new) PROVE SizeIsCount'
      BY <2>1, <2>6 DEF InsertAfterStep
    <2>7. ASSUME NEW node \in live, Erase(node) PROVE SizeIsCount'
      BY <2>2, <2>7 DEF Erase, EraseEffect
    <2>8. CASE Pop_back \/ Pop_front
      BY <1>2, <2>7, <2>8, EndsAreIterators DEF Pop_back, Pop_front, Erase
    <2>9. CASE EraseStep
      <3>1. it \in live
        BY <1>2, <2>9 DEF ListInv, EraseLoop, EraseStep
      <3> QED
        BY <2>2, <2>9, <3>1 DEF EraseStep
    <2>10. CASE InsertAfterEnd \/ EraseEnd \/ UNCHANGED vars
      BY <2>3, <2>10 DEF InsertAfterEnd, EraseEnd, vars, fields
    <2>11. ASSUME NEW first, NEW last, EraseRange(first, last) PROVE SizeIsCount'
      BY <2>3, <2>11 DEF EraseRange, fields
    <2> QED
      BY <1>2, <2>5, <2>6, <2>7, <2>8, <2>9, <2>10, <2>11 DEF Next, Clear, EraseInterior
  <1> QED
    BY <1>1, <1>2, ListInvariant, PTL DEF Spec

\* The last returned iterator is end() or an allocated node.
THEOREM ListReturn == Spec => []ReturnIsLive
  <1> DEFINE ReturnInv == ReturnIsLive /\ (~Idle => ret = Null)
  <1>1. Init => ReturnInv
    BY DEF Init, ReturnIsLive, Idle
  <1>2. ASSUME ListInv, ListInv', ReturnInv, [Next]_vars PROVE ReturnInv'
    <2>1. ASSUME NEW where, NEW new \in Node, ret' = new,
                 EmplaceAfterEffect(where, new) \/ EmplaceBeforeEffect(where, new)
          PROVE  ReturnIsLive'
      BY <2>1 DEF EmplaceAfterEffect, EmplaceBeforeEffect, NewNode, ReturnIsLive
    <2>2. ASSUME NEW where, NEW new \in Node,
                 \/ Emplace_after(where, new) \/ Emplace_before(where, new)
                 \/ Emplace_back(new) \/ Emplace_front(new)
          PROVE  ReturnInv'
      BY <2>1, <2>2 DEF Idle, locals, Emplace_after, Emplace_before, Emplace_back, Emplace_front
    <2>3. ASSUME NEW node \in live, Erase(node) PROVE ReturnInv'
      BY <1>2, <2>3, EraseNodeInv DEF ReturnIsLive, Erase, Idle, locals
    <2>4. CASE Pop_back \/ Pop_front
      BY <1>2, <2>3, <2>4, EndsAreIterators DEF Pop_back, Pop_front, Erase
    <2>5. ASSUME ret' = Null PROVE ReturnInv'
      BY <2>5 DEF ReturnIsLive
    <2>6. ASSUME NEW new \in Node, InsertAfterStep(new) PROVE ReturnInv'
      BY <1>2, <2>6 DEF Idle, InsertAfterStep, NewNode, ReturnIsLive
    <2>7. CASE InsertAfterEnd \/ EraseEnd \/ UNCHANGED vars
      BY <1>2, <2>7 DEF Idle, locals, InsertAfterEnd, EraseEnd, vars, fields, ReturnIsLive
    <2>8. CASE EraseStep
      BY <1>2, <2>8 DEF EraseStep, Idle, ReturnIsLive
    <2> QED
      BY <1>2, <2>2, <2>3, <2>4, <2>5, <2>6, <2>7, <2>8
         DEF Next, InsertRange, EraseInterior, EraseRange, Clear
  <1> QED
    BY <1>1, <1>2, ListInvariant, PTL DEF Spec

=============================================================================
