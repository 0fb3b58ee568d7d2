----------------------------- MODULE LinkedList -----------------------------
(***************************************************************************)
(* Base/LinkedList.hpp: the doubly linked list every container of Ziqe is  *)
(* built on, as pointers in a heap.  end() is the null iterator.           *)
(*                                                                         *)
(* Each single-node operation is one action.  The two loops of the code    *)
(* (the range erase and insertAfter) are taken one iteration per step, so  *)
(* that the half-linked list in the middle of a loop is a state too; while *)
(* a loop runs (op # "idle") no other operation starts: the class has no   *)
(* lock and one caller.                                                    *)
(*                                                                         *)
(* pos is a history variable: the position every live node has in the      *)
(* sequence the caller asked for (0 when it is in none).  No guard and no  *)
(* pointer depends on it; the invariants compare the pointers with it.     *)
(*                                                                         *)
(* A definition whose comment says what one after it does, and which does  *)
(* slightly less, is a mutant: no specification uses it.                   *)
(***************************************************************************)
EXTENDS Integers, FiniteSets

CONSTANTS
  Node,     \* the addresses operator new can return
  Null      \* nullptr, which is also end()

ASSUME NullAssumption == Null \notin Node

VARIABLES
  live,         \* the nodes allocated and not deleted
  previous,     \* NodeType::previous of every address; stale when not live
  next,         \* NodeType::next of every address; stale when not live
  mBegin, mBeforeEnd, mSize,
  op,           \* the loop that runs: "idle", "erase", "insertAfter", "crashed"
  it,           \* its iterator (erase) or self (insertAfter)
  stop,         \* the end argument of the range erase
  saved,        \* savedCurrentPrevious (erase), previousNext (insertAfter)
  beginHit,     \* isBeginInvalidated
  beforeEndHit, \* isBeforeEndInvalided (erase), isBeforeEndUpdated (insertAfter)
  ret,          \* the iterator the last call returned; Null when it returns none
  pos

fields == <<live, previous, next, mBegin, mBeforeEnd, mSize>>
locals == <<op, it, stop, saved, beginHit, beforeEndHit>>
vars == <<fields, locals, ret, pos>>

Pointer == Node \cup {Null}

-----------------------------------------------------------------------------
(* The sequence the caller asked for.                                      *)

\* A new node takes position p; the ones from p on move up by one.
InsertedAt(p, new) ==
  [n \in Node |-> IF n = new THEN p
                  ELSE IF pos[n] >= p THEN pos[n] + 1 ELSE pos[n]]

\* The node leaves its position; the ones after it move down by one.
Removed(gone) ==
  [n \in Node |-> IF n = gone THEN 0
                  ELSE IF pos[n] > pos[gone] THEN pos[n] - 1 ELSE pos[n]]

\* The position after a node; 1 is the position after nothing.
After(n) == IF n = Null THEN 1 ELSE pos[n] + 1

-----------------------------------------------------------------------------
Idle == op = "idle"

Init ==
  /\ live = {}
  /\ previous = [n \in Node |-> Null]
  /\ next = [n \in Node |-> Null]
  /\ mBegin = Null /\ mBeforeEnd = Null /\ mSize = 0
  /\ op = "idle" /\ it = Null /\ stop = Null /\ saved = Null
  /\ beginHit = FALSE /\ beforeEndHit = FALSE
  /\ ret = Null
  /\ pos = [n \in Node |-> 0]

\* new NodeType and the ++mSize that goes with it.
NewNode(new) ==
  /\ new \in Node \ live
  /\ live' = live \cup {new}
  /\ mSize' = mSize + 1

\* delete of a node and the --mSize that goes with it.
DeleteUncounted(node) == live' = live \ {node} /\ UNCHANGED mSize
DeleteNode(node) == live' = live \ {node} /\ mSize' = mSize - 1

\* emplace_after: a null position is only allowed on an empty list
\* ("mBegin must be cend()").
EmplaceAfterEffect(where, new) ==
  /\ NewNode(new)
  /\ IF where = Null
     THEN /\ mBegin = Null
          /\ previous' = [previous EXCEPT ![new] = Null]
          /\ next' = [next EXCEPT ![new] = Null]
          /\ mBegin' = new
     ELSE /\ previous' = [n \in Node |-> IF n = new THEN where
                                         ELSE IF n = next[where] THEN new
                                         ELSE previous[n]]
          /\ next' = [next EXCEPT ![new] = next[where], ![where] = new]
          /\ mBegin' = mBegin
  /\ mBeforeEnd' = IF where = mBeforeEnd THEN new ELSE mBeforeEnd
  /\ pos' = InsertedAt(After(where), new)

\* emplace_before: before end() is after cBeforeEnd().
EmplaceBeforeEffect(where, new) ==
  IF where = Null
  THEN EmplaceAfterEffect(mBeforeEnd, new)
  ELSE /\ NewNode(new)
       /\ previous' = [previous EXCEPT ![new] = previous[where], ![where] = new]
       /\ next' = [n \in Node |-> IF n = new THEN where
                                  ELSE IF n = previous[where] THEN new
                                  ELSE next[n]]
       /\ mBegin' = IF mBegin = where THEN new ELSE mBegin
       /\ UNCHANGED mBeforeEnd
       /\ pos' = InsertedAt(pos[where], new)

\* What erase(iterator) returns: the next node, except that erasing the last
\* node returns the node before it.
EraseResultNotUpdated(node) == IF node = mBeforeEnd THEN mBeforeEnd ELSE next[node]
EraseResult(node) == IF node = mBeforeEnd THEN previous[node] ELSE next[node]

\* next->previous = previous, when there is a next node.
KeepPrevious(node) == previous
RelinkPrevious(node) ==
  [n \in Node |-> IF n = next[node] THEN previous[node] ELSE previous[n]]

EraseEffect(node) ==
  /\ previous' = RelinkPrevious(node)
  /\ next' = [n \in Node |-> IF n = previous[node] THEN next[node] ELSE next[n]]
  /\ DeleteNode(node)
  /\ mBegin' = IF node = mBegin THEN next[node] ELSE mBegin
  /\ mBeforeEnd' = IF node = mBeforeEnd THEN previous[node] ELSE mBeforeEnd
  /\ ret' = EraseResult(node)
  /\ pos' = Removed(node)

-----------------------------------------------------------------------------
(* The public operations.  An iterator argument is a live node or end().   *)

Emplace_after(where, new) ==
  /\ Idle /\ EmplaceAfterEffect(where, new) /\ ret' = new /\ UNCHANGED locals

Emplace_before(where, new) ==
  /\ Idle /\ EmplaceBeforeEffect(where, new) /\ ret' = new /\ UNCHANGED locals

Emplace_back(new) ==
  /\ Idle /\ EmplaceAfterEffect(mBeforeEnd, new) /\ ret' = new /\ UNCHANGED locals

Emplace_front(new) ==
  /\ Idle /\ EmplaceBeforeEffect(mBegin, new) /\ ret' = new /\ UNCHANGED locals

Erase(node) ==
  /\ Idle /\ EraseEffect(node) /\ UNCHANGED locals

Pop_back ==
  /\ mBeforeEnd # Null /\ Erase(mBeforeEnd)

Pop_front ==
  /\ mBegin # Null /\ Erase(mBegin)

\* insert(where, first, last) of a non-empty range: the first element goes
\* before where, the others after it by insertAfter.  (A range of one does not
\* call insertAfter; InsertAfterEnd changes no link then.)
InsertRange(where, new) ==
  /\ Idle
  /\ EmplaceBeforeEffect(where, new)
  /\ op' = "insertAfter"
  /\ it' = new
  /\ saved' = next'[new]
  /\ beforeEndHit' = (new = mBeforeEnd')
  /\ ret' = Null
  /\ UNCHANGED <<stop, beginHit>>

\* One iteration of insertAfter: a node is hung after self, with no next yet.
InsertAfterStep(new) ==
  /\ op = "insertAfter"
  /\ NewNode(new)
  /\ previous' = [previous EXCEPT ![new] = it]
  /\ next' = [next EXCEPT ![new] = Null, ![it] = new]
  /\ it' = new
  /\ pos' = InsertedAt(After(it), new)
  /\ UNCHANGED <<mBegin, mBeforeEnd, op, stop, saved, beginHit, beforeEndHit, ret>>

\* insertAfter's last statements: the rest of the list is hung after self.
InsertAfterEnd ==
  /\ op = "insertAfter"
  /\ next' = [next EXCEPT ![it] = saved]
  /\ previous' = [n \in Node |-> IF n = saved THEN it ELSE previous[n]]
  /\ mBeforeEnd' = IF beforeEndHit THEN it ELSE mBeforeEnd
  /\ op' = "idle" /\ it' = Null /\ saved' = Null /\ beforeEndHit' = FALSE
  /\ UNCHANGED <<live, mBegin, mSize, stop, beginHit, ret, pos>>

\* erase(begin, end) of a non-empty range, up to its loop.
EraseRange(first, last) ==
  /\ Idle
  /\ first # last
  /\ op' = "erase"
  /\ it' = first
  /\ stop' = last
  /\ saved' = previous[first]
  /\ ret' = Null
  /\ UNCHANGED <<fields, beginHit, beforeEndHit, pos>>

\* The ranges the code after the loop is written for: with a node before and a
\* node after them.
EraseInterior(first, last) ==
  /\ pos[first] < pos[last]
  /\ previous[first] # Null
  /\ EraseRange(first, last)

\* clear(): nothing on an empty list, else the whole range.
Clear ==
  /\ mBegin # Null
  /\ EraseRange(mBegin, Null)

\* One iteration of the erase loop; the loop's test comes after its body, so
\* the first iteration is always taken.
InRangeToNull == it # Null
InRangeButLast == it # stop /\ next[it] # Null
InRange == it # stop

EraseStep ==
  /\ op = "erase"
  /\ InRange /\ it # Null
  /\ beginHit' = (beginHit \/ it = mBegin)
  /\ beforeEndHit' = (beforeEndHit \/ it = mBeforeEnd)
  /\ it' = next[it]
  /\ DeleteNode(it)
  /\ pos' = Removed(it)
  /\ UNCHANGED <<previous, next, mBegin, mBeforeEnd, op, stop, saved, ret>>

\* The statements after the loop.
EraseEnd ==
  /\ op = "erase"
  /\ ~InRange
  /\ saved # Null => it # Null
  /\ IF saved # Null
     THEN /\ next' = [next EXCEPT ![saved] = it]
          /\ previous' = [previous EXCEPT ![it] = saved]
     ELSE UNCHANGED <<previous, next>>
  /\ mBegin' = IF beginHit THEN stop ELSE mBegin
  /\ mBeforeEnd' = IF beforeEndHit THEN stop ELSE mBeforeEnd
  /\ op' = "idle" /\ it' = Null /\ stop' = Null /\ saved' = Null
  /\ beginHit' = FALSE /\ beforeEndHit' = FALSE
  /\ UNCHANGED <<live, mSize, ret, pos>>

\* When a node precedes the range (or its stale previous says so), the node
\* after the range is dereferenced, end() or not.
EraseNullDereference ==
  /\ op = "erase"
  /\ it = Null
  /\ InRange \/ saved # Null
  /\ op' = "crashed"
  /\ UNCHANGED <<fields, it, stop, saved, beginHit, beforeEndHit, ret, pos>>

-----------------------------------------------------------------------------
Next ==
  \/ \E where \in live \cup {Null}, new \in Node :
       \/ Emplace_after(where, new)
       \/ Emplace_before(where, new)
       \/ InsertRange(where, new)
  \/ \E new \in Node : Emplace_back(new) \/ Emplace_front(new) \/ InsertAfterStep(new)
  \/ \E node \in live : Erase(node)
  \/ Pop_back \/ Pop_front
  \/ InsertAfterEnd
  \/ \E first, last \in live : EraseInterior(first, last)
  \/ Clear
  \/ EraseStep
  \/ EraseEnd

\* A call that has started its loop runs to its end: the class has one caller,
\* which does nothing else meanwhile.
Fairness == WF_vars(EraseStep) /\ WF_vars(EraseEnd) /\ WF_vars(InsertAfterEnd)

Spec == Init /\ [][Next]_vars /\ Fairness

\* The range erase of any range of the list, and the loop's null dereference.
NextAnyRange ==
  \/ Next
  \/ \E first \in live, last \in live \cup {Null} :
       /\ last # Null => pos[first] < pos[last]
       /\ EraseRange(first, last)
  \/ EraseNullDereference

SpecAnyRange == Init /\ [][NextAnyRange]_vars /\ Fairness

-----------------------------------------------------------------------------
(* The invariant.                                                          *)

\* The fields hold values of their C++ types.
TypeOK ==
  /\ live \in SUBSET Node
  /\ previous \in [Node -> Pointer]
  /\ next \in [Node -> Pointer]
  /\ mBegin \in Pointer /\ mBeforeEnd \in Pointer
  /\ mSize \in Nat
  /\ op \in {"idle", "erase", "insertAfter", "crashed"}
  /\ it \in Pointer /\ stop \in Pointer /\ saved \in Pointer
  /\ beginHit \in BOOLEAN /\ beforeEndHit \in BOOLEAN
  /\ ret \in Pointer
  /\ pos \in [Node -> Nat]

\* The live nodes have different positions in 1..mSize.
Positions ==
  /\ \A n \in Node : IF n \in live THEN pos[n] \in 1..mSize ELSE pos[n] = 0
  /\ \A m, n \in live : pos[m] = pos[n] => m = n

\* No node is leaked or counted twice: mSize is the number of allocated nodes,
\* in the middle of a loop too (++mSize and --mSize go with every new and
\* delete).
SizeIsCount == IsFiniteSet(live) /\ mSize = Cardinality(live)

\* The next pointer of a node leads to the node one position on.
NextOK(n) == IF pos[n] = mSize THEN next[n] = Null
             ELSE next[n] \in live /\ pos[next[n]] = pos[n] + 1

\* The previous pointer of a node leads to the node one position back.
PreviousOK(n) == IF pos[n] = 1 THEN previous[n] = Null
                 ELSE previous[n] \in live /\ pos[previous[n]] = pos[n] - 1

BeginOK == IF mSize = 0 THEN mBegin = Null ELSE mBegin \in live /\ pos[mBegin] = 1

BeforeEndOK == IF mSize = 0 THEN mBeforeEnd = Null
               ELSE mBeforeEnd \in live /\ pos[mBeforeEnd] = mSize

\* Between calls the pointers are exactly the sequence the caller asked for,
\* forwards and backwards, and begin() and beforeEnd() are its two ends,
\* whatever calls were made before.
Linked ==
  Idle => /\ \A n \in live : NextOK(n) /\ PreviousOK(n)
          /\ BeginOK
          /\ BeforeEndOK

\* While a loop runs only the link across its gap is out of order.
GapFrom == CASE op = "erase" -> saved [] op = "insertAfter" -> it [] OTHER -> Null
GapTo == CASE op = "erase" -> it [] op = "insertAfter" -> saved [] OTHER -> Null

LinkedButGap ==
  /\ \A n \in live : n # GapFrom => NextOK(n)
  /\ \A n \in live : n # GapTo => PreviousOK(n)
  /\ ~beginHit => BeginOK
  /\ ~beforeEndHit => BeforeEndOK

\* The range erase removes from the front of what is left of its range.
EraseLoop ==
  op = "erase" =>
    IF saved = Null
    THEN /\ stop = Null
         /\ IF mSize = 0 THEN it = Null ELSE it \in live /\ pos[it] = 1
    ELSE /\ {saved, it, stop} \subseteq live
         /\ pos[it] = pos[saved] + 1
         /\ pos[it] <= pos[stop]
         /\ ~beginHit /\ ~beforeEndHit

\* insertAfter has the rest of the list in previousNext, right after self.
InsertAfterLoop ==
  op = "insertAfter" =>
    /\ it \in live
    /\ ~beginHit
    /\ beforeEndHit = (saved = Null)
    /\ IF saved = Null THEN pos[it] = mSize
       ELSE saved \in live /\ pos[saved] = pos[it] + 1

NoLoop == /\ op # "crashed"
          /\ Idle => ~beginHit /\ ~beforeEndHit

\* What every step keeps: the list is linked at every step of every loop, up
\* to the gap the loop is working on, and no interior range erase or clear()
\* reaches the null dereference.
ListInv ==
  TypeOK /\ Positions /\ LinkedButGap /\ EraseLoop /\ InsertAfterLoop /\ NoLoop

-----------------------------------------------------------------------------
(* The other properties.                                                   *)

\* The iterator the last call returned is end() or a node that is still
\* allocated, also when the call has deleted the node it was given.
ReturnIsLive == ret \in live \cup {Null}

\* clear() runs to its end and leaves an empty list: its
\* "ZQ_ASSERT (size() == 0)" is reached and holds.
ClearEmpties ==
  (op = "erase" /\ it = mBegin /\ stop = Null) ~> (Idle /\ mSize = 0 /\ live = {})

=============================================================================
