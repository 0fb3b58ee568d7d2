------------------------------- MODULE Lists --------------------------------
(***************************************************************************)
(* Base/LinkedList as a value: the constructors, the assignments, swap and *)
(* the destructor, over several lists.  What happens inside one list is    *)
(* the module LinkedList's; here its nodes are the chain that starts at    *)
(* mBegin.  The move constructor swaps with members that have no value:    *)
(* the two iterators are null by default, mSize is whatever the memory     *)
(* held.                                                                   *)
(***************************************************************************)
EXTENDS Integers, Sequences, SequencesExt, FiniteSets

CONSTANTS
  List,       \* variables of type LinkedList
  Cell,       \* addresses of nodes
  Datum, Null,
  SizeValues  \* 2^64: how many values a SizeType has

VARIABLES
  lists,      \* the lists between constructor and destructor
  mBegin, mBeforeEnd, mSize,
  chain,      \* the nodes linked after each first node, itself included
  datum,      \* the element of each node
  allocated,
  contents,   \* history: the sequence each list stands for
  unsized     \* history: the lists whose mSize goes back to one without a value

vars == <<lists, mBegin, mBeforeEnd, mSize, chain, datum, allocated, contents, unsized>>

Nodes(l) == IF mBegin[l] = Null THEN <<>> ELSE chain[mBegin[l]]

TypeOK ==
  /\ lists \subseteq List /\ unsized \subseteq lists /\ allocated \subseteq Cell
  /\ mBegin \in [List -> Cell \cup {Null}] /\ mBeforeEnd \in [List -> Cell \cup {Null}]
  /\ mSize \in [List -> 0 .. SizeValues - 1]
  /\ chain \in [Cell -> Seq(Cell)] /\ datum \in [Cell -> Datum] /\ contents \in [List -> Seq(Datum)]

Init ==
  /\ lists = {} /\ unsized = {} /\ allocated = {}
  /\ mBegin = [l \in List |-> Null] /\ mBeforeEnd = [l \in List |-> Null] /\ mSize = [l \in List |-> 0]
  /\ chain = [n \in Cell |-> <<>>] /\ datum \in [Cell -> {CHOOSE d \in Datum : TRUE}]
  /\ contents = [l \in List |-> <<>>]

-----------------------------------------------------------------------------
\* The list l becomes the nodes s, of mSize size.
Becomes(l, s, size) ==
  /\ mBegin' = [mBegin EXCEPT ![l] = IF s = <<>> THEN Null ELSE Head(s)]
  /\ mBeforeEnd' = [mBeforeEnd EXCEPT ![l] = IF s = <<>> THEN Null ELSE Last(s)]
  /\ mSize' = [mSize EXCEPT ![l] = size % SizeValues]
  /\ chain' = [n \in Cell |-> IF s # <<>> /\ n = Head(s) THEN s ELSE IF n = mBegin[l] THEN <<>> ELSE chain[n]]

\* LinkedList()
Make(l) ==
  /\ l \notin lists /\ lists' = lists \cup {l}
  /\ Becomes(l, <<>>, 0) /\ contents' = [contents EXCEPT ![l] = <<>>]
  /\ UNCHANGED <<datum, allocated, unsized>>

Emplace_back(l, new, d) ==
  /\ l \in lists /\ new \notin allocated /\ allocated' = allocated \cup {new}
  /\ datum' = [datum EXCEPT ![new] = d]
  /\ Becomes(l, Append(Nodes(l), new), mSize[l] + 1)
  /\ contents' = [contents EXCEPT ![l] = Append(@, d)]
  /\ UNCHANGED <<lists, unsized>>

\* New nodes with the elements of m, and the nodes of l, if any, deleted: clear()
\* and insert.  A list copied onto itself is cleared before it is read, and
\* clear() does not touch the size of an empty list.
Copied(l, m) ==
  LET source == IF l = m THEN <<>> ELSE Nodes(m)
      left == allocated \ ToSet(Nodes(l))
      free == SetToSeq(Cell \ left)
      new == SubSeq(free, 1, Len(source))
  IN /\ Len(source) <= Len(free)
     /\ Becomes(l, new, mSize[l] - Len(Nodes(l)) + Len(source))
     /\ datum' = [n \in Cell |-> IF n \in ToSet(new) THEN datum[source[CHOOSE i \in DOMAIN new : new[i] = n]]
                             ELSE datum[n]]
     /\ allocated' = left \cup ToSet(new)
     /\ contents' = [contents EXCEPT ![l] = IF l = m THEN <<>> ELSE contents[m]]

\* The copy constructor, through the one of a range.
CopyConstruct(l, m) ==
  /\ l \notin lists /\ m \in lists /\ lists' = lists \cup {l}
  /\ Copied(l, m) /\ UNCHANGED unsized

AssignCopied(l, m) ==
  /\ {l, m} \subseteq lists /\ Copied(l, m) /\ UNCHANGED <<lists, unsized>>

\* swap
SwapBegins(l, m, size) ==
  /\ mBegin' = [mBegin EXCEPT ![l] = mBegin[m], ![m] = mBegin[l]]
  /\ mSize' = [mSize EXCEPT ![l] = mSize[m], ![m] = size]
  /\ UNCHANGED mBeforeEnd
Swap(l, m, size) ==
  /\ mBegin' = [mBegin EXCEPT ![l] = mBegin[m], ![m] = mBegin[l]]
  /\ mBeforeEnd' = [mBeforeEnd EXCEPT ![l] = mBeforeEnd[m], ![m] = mBeforeEnd[l]]
  /\ mSize' = [mSize EXCEPT ![l] = mSize[m], ![m] = size]

Exchanged(l, m) ==
  /\ contents' = [contents EXCEPT ![l] = contents[m], ![m] = contents[l]]
  /\ UNCHANGED <<chain, datum, allocated>>

\* The move constructor: m gets a size from memory that was not initialised.
MoveConstruct(l, m, garbage) ==
  /\ l \notin lists /\ m \in lists /\ lists' = lists \cup {l}
  /\ Swap(l, m, garbage) /\ Exchanged(l, m)
  /\ unsized' = (IF m \in unsized THEN unsized \cup {l} ELSE unsized) \cup {m}

AssignMoved(l, m) ==
  /\ {l, m} \subseteq lists
  /\ Swap(l, m, mSize[l]) /\ Exchanged(l, m)
  /\ unsized' = {IF x = l THEN m ELSE IF x = m THEN l ELSE x : x \in unsized}
  /\ UNCHANGED lists

\* The destructor: clear().
Destroy(l) ==
  /\ l \in lists /\ lists' = lists \ {l} /\ unsized' = unsized \ {l}
  /\ allocated' = allocated \ ToSet(Nodes(l))
  /\ Becomes(l, <<>>, 0) /\ contents' = [contents EXCEPT ![l] = <<>>]
  /\ UNCHANGED datum

Next ==
  \/ \E l \in List : Make(l) \/ Destroy(l)
  \/ \E l \in List, new \in Cell, d \in Datum : Emplace_back(l, new, d)
  \/ \E l, m \in List :
       \/ CopyConstruct(l, m) \/ AssignCopied(l, m) \/ AssignMoved(l, m)
       \/ \E garbage \in 0 .. SizeValues - 1 : MoveConstruct(l, m, garbage)

Spec == Init /\ [][Next]_vars

-----------------------------------------------------------------------------
\* Copies and moves leave every list with the elements it stands for and with
\* both its ends, every node with one list, and every size right, except in a
\* list that was moved from (LinkedList.hpp 155-188, 346-357).
ListsKeepNodes ==
  /\ \A l \in lists :
       /\ [i \in DOMAIN Nodes(l) |-> datum[Nodes(l)[i]]] = contents[l]
       /\ mBeforeEnd[l] = IF Nodes(l) = <<>> THEN Null ELSE Last(Nodes(l))
       /\ l \notin unsized => mSize[l] = Len(contents[l])
       /\ \A m \in lists \ {l} : ToSet(Nodes(l)) \cap ToSet(Nodes(m)) = {}
  /\ allocated = UNION {ToSet(Nodes(l)) : l \in lists}
=============================================================================
