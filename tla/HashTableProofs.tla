--------------------------- MODULE HashTableProofs ---------------------------
(***************************************************************************)
(* Proofs about HashTable and MultiHashTable, for any keys, hash function, *)
(* number of slots and number of entries.                                  *)
(***************************************************************************)
EXTENDS MCHashTable, LinkedListProofs, WellFoundedInduction

USE NullAssumption, HashAssumption, AbsentAssumption, SlotAssumption DEF Pointer

\* The entries the list's erase loop is about to delete, and the others.
Leaving(n) ==
  op = "erase" /\ it # Null /\ pos[n] >= pos[it] /\ (stop # Null => pos[n] < pos[stop])
Staying == {n \in live : ~Leaving(n)}

\* Every entry is filed under the hash of its key.
EntriesInv ==
  /\ DOMAIN key = Node /\ DOMAIN value = Node /\ DOMAIN tableIterator = Node
  /\ \A n \in live : key[n] \in Key /\ value[n] \in Value /\ tableIterator[n] = Hash[key[n]]

\* One entry per key, in a table without multiple keys.
UniqueKeys == \A m, n \in live : key[m] = key[n] => m = n

\* The slot leads to the first of its entries in S, to end() when there is none.
HeadIn(S, s) ==
  IF \E n \in S : tableIterator[n] = s
  THEN /\ mTable[s] \in S /\ tableIterator[mTable[s]] = s
       /\ \A n \in S : tableIterator[n] = s => pos[mTable[s]] <= pos[n]
  ELSE mTable[s] = Null

\* An entry of the range the running range erase was given.
InScan(n) == pos[n] >= pos[rangeBegin] /\ (rangeEnd # Null => pos[n] < pos[rangeEnd])

\* The range has one first entry of a hash at most; headSlot is its slot once the
\* loop is past it.
ScanInv ==
  /\ Idle /\ rangeBegin \in live /\ rangeEnd \in live \cup {Null} /\ scan \in live \cup {Null}
  /\ rangeEnd # Null => pos[rangeBegin] < pos[rangeEnd]
  /\ (previous[rangeBegin] = Null) <=> (rangeEnd = Null)
  /\ scan # rangeEnd => scan # Null /\ InScan(scan)
  /\ \A s, t \in Slot : /\ mTable[s] # Null /\ mTable[t] # Null
                        /\ InScan(mTable[s]) /\ InScan(mTable[t])
                        => s = t
  /\ headSlot = Null =>
       \A n \in live : InScan(n) /\ (scan # Null => pos[n] < pos[scan])
                       => mTable[tableIterator[n]] # n
  /\ headSlot # Null =>
       /\ headSlot \in Slot /\ mTable[headSlot] # Null /\ InScan(mTable[headSlot])
       /\ scan # Null => pos[mTable[headSlot]] < pos[scan]

\* What every call, and every step of the range erase, keeps.
HashInv ==
  /\ ListInv /\ EntriesInv /\ Contiguous
  /\ mTable \in [Slot -> Pointer]
  /\ \A s \in Slot : HeadIn(Staying, s)
  /\ op \in {"idle", "erase"}
  /\ rangeBegin = Null => scan = Null /\ headSlot = Null
  /\ rangeBegin # Null => ScanInv

-----------------------------------------------------------------------------
(* Positions.                                                              *)

\* The live nodes are addresses with different positions.
LEMMA LivePositions ==
  ASSUME ListInv
  PROVE  /\ \A n \in live : n \in Node /\ n # Null /\ pos[n] \in Nat \ {0} /\ pos[n] <= mSize
         /\ \A m, n \in live : pos[m] = pos[n] => m = n
         /\ mSize \in Nat
  BY DEF ListInv, TypeOK, Positions

\* Every set of naturals that is not empty has a least element.
LEMMA LeastNatural ==
  ASSUME NEW T \in SUBSET Nat, T # {}
  PROVE  \E x \in T : \A y \in T : x <= y
  <1> DEFINE R == {ss \in Nat \X Nat : ss[1] < ss[2]}
  <1>1. IsWellFoundedOn(R, Nat)
    BY NatLessThanWellFounded, Zenon DEF OpToRel
  <1>2. PICK x \in T : \A y \in T : ~(<<y, x>> \in R)
    <2> HIDE DEF R
    <2> QED
      BY <1>1, WFMin
  <1>3. ASSUME NEW y \in T PROVE x <= y
    <2>1. <<y, x>> \in Nat \X Nat /\ ~(<<y, x>> \in R)
      BY <1>2
    <2>2. x \in Nat /\ y \in Nat /\ ~(y < x)
      BY <2>1
    <2> QED
      BY <2>2
  <1> QED
    BY <1>3

\* Of some live nodes one is the first.
LEMMA FirstOfSome ==
  ASSUME ListInv, NEW S, S \subseteq live, S # {}
  PROVE  \E n \in S : \A m \in S : pos[n] <= pos[m]
  <1> DEFINE T == {pos[n] : n \in S}
  <1>1. T \subseteq Nat /\ T # {}
    BY LivePositions
  <1>2. PICK x \in T : \A y \in T : x <= y
    BY <1>1, LeastNatural
  <1> QED
    BY <1>2

\* Of some live nodes one is the last.
LEMMA LastOfSome ==
  ASSUME ListInv, NEW S, S \subseteq live, S # {}
  PROVE  \E n \in S : \A m \in S : pos[m] <= pos[n]
  <1> DEFINE T == {mSize - pos[n] : n \in S}
  <1>1. T \subseteq Nat /\ T # {}
    BY LivePositions
  <1>2. PICK x \in T : \A y \in T : x <= y
    BY <1>1, LeastNatural
  <1>3. PICK n \in S : x = mSize - pos[n]
    OBVIOUS
  <1>4. \A m \in S : mSize - pos[n] <= mSize - pos[m]
    BY <1>2, <1>3
  <1> QED
    BY <1>4, LivePositions

\* A new node moves the others only apart.
LEMMA InsertedOrder ==
  ASSUME ListInv, NEW new \in Node, new \notin live, NEW p \in Nat,
         pos' = InsertedAt(p, new)
  PROVE  /\ \A m, n \in live : (pos'[m] < pos'[n] <=> pos[m] < pos[n])
                               /\ (pos'[m] <= pos'[n] <=> pos[m] <= pos[n])
         /\ \A m \in live : /\ pos'[m] < pos'[new] <=> pos[m] < p
                            /\ pos'[new] < pos'[m] <=> p <= pos[m]
         /\ pos'[new] = p
  BY LivePositions DEF InsertedAt

\* A node that leaves keeps the others in their order.
LEMMA RemovedOrder ==
  ASSUME ListInv, NEW gone \in live, pos' = Removed(gone)
  PROVE  \A m, n \in live \ {gone} : (pos'[m] < pos'[n] <=> pos[m] < pos[n])
                                     /\ (pos'[m] <= pos'[n] <=> pos[m] <= pos[n])
  BY LivePositions DEF Removed

\* Between calls every entry stays.
LEMMA IdleStaying == Idle => Staying = live
  BY DEF Idle, Staying, Leaving

-----------------------------------------------------------------------------
(* Looking a key up.                                                       *)

\* The walk from an entry reaches the entries of its hash from there on, and
\* nothing else.
LEMMA MiniListIs ==
  ASSUME HashInv, Idle, NEW first \in live
  PROVE  MiniList(first) = {n \in live : /\ tableIterator[n] = tableIterator[first]
                                         /\ pos[first] <= pos[n]}
  <1> DEFINE Rest == {n \in live : /\ tableIterator[n] = tableIterator[first]
                                   /\ pos[first] <= pos[n]}
             Closed(S) == /\ first \in S
                          /\ \A m \in S : next[m] # Null /\ tableIterator[next[m]] = tableIterator[first]
                                          => next[m] \in S
  <1>1. ListInv /\ Whole
    BY IdleIsWhole DEF HashInv
  <1>2. Rest \in SUBSET Node /\ Closed(Rest)
    <2>1. ASSUME NEW m \in Rest, next[m] # Null PROVE next[m] \in live /\ pos[next[m]] = pos[m] + 1
      BY <1>1, <2>1 DEF Whole, NextOK
    <2>2. first \in Rest /\ Rest \subseteq Node
      BY <1>1, LivePositions
    <2> QED
      BY <1>1, <2>1, <2>2, LivePositions
  <1>3. MiniList(first) \subseteq Rest
    BY <1>2 DEF MiniList
  <1>4. ASSUME NEW S \in SUBSET Node, Closed(S) PROVE Rest \subseteq S
    <2>1. SUFFICES ASSUME Rest \ S # {} PROVE FALSE
      OBVIOUS
    <2>2. PICK x \in Rest \ S : \A y \in Rest \ S : pos[x] <= pos[y]
      BY <1>1, <2>1, FirstOfSome
    <2>3. x \in live /\ x # first /\ pos[first] < pos[x] /\ tableIterator[x] = tableIterator[first]
      BY <1>1, <1>4, <2>2, LivePositions
    <2>4. previous[x] \in live /\ pos[previous[x]] = pos[x] - 1
      BY <1>1, <2>3, LivePositions DEF Whole, PreviousOK
    <2>5. tableIterator[previous[x]] = tableIterator[first]
      <3>1. CASE previous[x] = first
        BY <3>1
      <3>2. CASE previous[x] # first
        <4>1. pos[first] < pos[previous[x]] /\ pos[previous[x]] < pos[x]
          BY <1>1, <2>3, <2>4, <3>2, LivePositions
        <4> QED
          BY <2>3, <2>4, <4>1 DEF HashInv, Contiguous
      <3> QED
        BY <3>1, <3>2
    <2>6. previous[x] \in S
      BY <1>1, <2>2, <2>3, <2>4, <2>5, LivePositions
    <2>7. next[previous[x]] = x
      BY <1>1, <2>3, <2>4, LivePositions DEF Whole, NextOK
    <2> QED
      BY <1>1, <1>4, <2>2, <2>3, <2>6, <2>7, LivePositions
  <1>5. Rest \subseteq MiniList(first)
    BY <1>2, <1>4 DEF MiniList
  <1> QED
    BY <1>3, <1>5

\* find gives the first entry of the key, or end() when the key has none.
LEMMA FindIs ==
  ASSUME HashInv, Idle, NEW k \in Key
  PROVE  /\ Find(k) = Null => \A n \in live : key[n] # k
         /\ Find(k) # Null => /\ Find(k) \in live /\ key[Find(k)] = k
                              /\ \A n \in live : key[n] = k => pos[Find(k)] <= pos[n]
  <1> DEFINE first == mTable[Hash[k]]
             mine == {n \in live : key[n] = k}
  <1>1. Hash[k] \in Slot /\ HeadIn(live, Hash[k]) /\ ListInv /\ EntriesInv
    BY IdleStaying DEF HashInv
  <1>2. \A n \in mine : tableIterator[n] = Hash[k]
    BY <1>1 DEF EntriesInv
  <1>3. CASE mine = {}
    <2>1. ASSUME first # Null PROVE {n \in MiniList(first) : key[n] = k} = {}
      <3>1. first \in live
        BY <1>1, <2>1 DEF HeadIn
      <3> QED
        BY <1>3, <3>1, MiniListIs
    <2>2. Find(k) = Null
      BY <2>1 DEF Find, LookupKeyInKeyList
    <2> QED
      BY <1>3, <2>2
  <1>4. CASE mine # {}
    <2>1. /\ first \in live /\ first # Null /\ tableIterator[first] = Hash[k]
          /\ \A n \in mine : pos[first] <= pos[n]
      BY <1>1, <1>2, <1>4, LivePositions DEF HeadIn
    <2>2. {n \in MiniList(first) : key[n] = k} = mine
      BY <1>2, <2>1, MiniListIs
    <2>3. \A n \in mine : mine \subseteq MiniList(n) <=> \A m \in mine : pos[n] <= pos[m]
      <3>1. ASSUME NEW n \in mine
            PROVE  MiniList(n) = {m \in live : /\ tableIterator[m] = tableIterator[n]
                                               /\ pos[n] <= pos[m]}
        BY MiniListIs
      <3> QED
        BY <1>2, <3>1
    <2>4. \E n \in mine : mine \subseteq MiniList(n)
      BY <1>1, <1>4, <2>3, FirstOfSome
    <2>5. Find(k) = CHOOSE n \in mine : mine \subseteq MiniList(n)
      BY <1>4, <2>1, <2>2 DEF Find, LookupKeyInKeyList
    <2>6. Find(k) \in mine /\ mine \subseteq MiniList(Find(k))
      BY <2>4, <2>5
    <2>7. Find(k) # Null
      BY <1>1, <2>6, LivePositions
    <2> QED
      BY <2>3, <2>6, <2>7
  <1> QED
    BY <1>3, <1>4

-----------------------------------------------------------------------------
(* A new entry.                                                            *)

\* A new entry right after some entry of its hash, or last when its hash has
\* none, keeps the entries of every hash together and their firsts first.
LEMMA NewEntry ==
  ASSUME HashInv, Idle, NEW k \in Key, NEW v \in Value, NEW new \in Node, new \notin live,
         NEW p \in Nat,
         mTable[Hash[k]] = Null => \A n \in live : pos[n] < p,
         mTable[Hash[k]] # Null => \E w \in live : tableIterator[w] = Hash[k] /\ p = pos[w] + 1,
         live' = live \cup {new},
         pos' = InsertedAt(p, new),
         key' = [key EXCEPT ![new] = k],
         value' = [value EXCEPT ![new] = v],
         tableIterator' = [tableIterator EXCEPT ![new] = Hash[k]],
         mTable' = IF mTable[Hash[k]] = Null THEN [mTable EXCEPT ![Hash[k]] = new] ELSE mTable
  PROVE  EntriesInv' /\ Contiguous' /\ mTable' \in [Slot -> Pointer]
         /\ \A s \in Slot : HeadIn(live, s)'
  <1>1. /\ ListInv /\ EntriesInv /\ mTable \in [Slot -> Pointer] /\ Hash[k] \in Slot
        /\ \A s \in Slot : HeadIn(live, s)
    BY IdleStaying DEF HashInv
  <1>2. /\ \A n \in live : n \in Node /\ n # new /\ n # Null
        /\ \A n \in live : /\ tableIterator'[n] = tableIterator[n] /\ key'[n] = key[n]
                           /\ value'[n] = value[n]
        /\ tableIterator'[new] = Hash[k] /\ key'[new] = k /\ value'[new] = v
    BY <1>1, LivePositions DEF EntriesInv
  <1>3. /\ \A m, n \in live : (pos'[m] < pos'[n] <=> pos[m] < pos[n])
                              /\ (pos'[m] <= pos'[n] <=> pos[m] <= pos[n])
        /\ \A m \in live : /\ pos'[m] < pos'[new] <=> pos[m] < p
                           /\ pos'[new] < pos'[m] <=> p <= pos[m]
        /\ pos'[new] = p
    BY <1>1, InsertedOrder
  <1>4. EntriesInv'
    BY <1>1, <1>2 DEF EntriesInv
  <1>5. mTable' \in [Slot -> Pointer]
    BY <1>1
  <1>6. CASE mTable[Hash[k]] = Null
    <2>1. \A n \in live : tableIterator[n] # Hash[k]
      BY <1>1, <1>2, <1>6 DEF HeadIn
    <2>2. \A n \in live : pos'[n] < pos'[new] /\ ~(pos'[new] < pos'[n])
      BY <1>1, <1>3, <1>6, LivePositions
    <2>3. Contiguous'
      <3>1. ASSUME NEW m \in live', NEW n \in live', NEW o \in live',
                   tableIterator'[m] = tableIterator'[o],
                   pos'[m] < pos'[n], pos'[n] < pos'[o]
            PROVE  tableIterator'[n] = tableIterator'[m]
        <4>1. m # new \/ o # new
          BY <1>1, <1>3, <3>1, LivePositions
        <4>2. m \in live /\ o \in live
          BY <1>2, <2>1, <3>1, <4>1
        <4>3. n \in live
          BY <2>2, <3>1, <4>2
        <4> QED
          BY <1>2, <1>3, <3>1, <4>2, <4>3 DEF HashInv, Contiguous
      <3> QED
        BY <3>1 DEF Contiguous
    <2>4. ASSUME NEW s \in Slot PROVE HeadIn(live, s)'
      <3>1. CASE s = Hash[k]
        <4>1. mTable'[s] = new
          BY <1>1, <1>6, <3>1
        <4> QED
          BY <1>2, <1>3, <2>1, <3>1, <4>1 DEF HeadIn
      <3>2. CASE s # Hash[k]
        <4>1. mTable'[s] = mTable[s]
          BY <1>1, <1>6, <3>2
        <4> QED
          BY <1>1, <1>2, <1>3, <3>2, <4>1 DEF HeadIn
      <3> QED
        BY <3>1, <3>2
    <2> QED
      BY <1>4, <1>5, <2>3, <2>4
  <1>7. CASE mTable[Hash[k]] # Null
    <2>1. PICK w \in live : tableIterator[w] = Hash[k] /\ p = pos[w] + 1
      BY <1>7
    <2>2. \A n \in live : /\ pos'[n] < pos'[new] <=> pos[n] <= pos[w]
                          /\ pos'[new] < pos'[n] <=> pos[w] < pos[n]
      BY <1>1, <1>3, <2>1, LivePositions
    <2>3. Contiguous'
      <3>1. ASSUME NEW m \in live', NEW n \in live', NEW o \in live',
                   tableIterator'[m] = tableIterator'[o],
                   pos'[m] < pos'[n], pos'[n] < pos'[o]
            PROVE  tableIterator'[n] = tableIterator'[m]
        <4>0. \A a \in live' : a = new \/ a \in live
          OBVIOUS
        <4>1. CASE m = new
          <5>1. o \in live /\ n \in live
            BY <1>3, <3>1, <4>0, <4>1, <1>1, LivePositions
          <5> QED
            BY <1>2, <1>3, <2>1, <2>2, <3>1, <4>1, <5>1 DEF HashInv, Contiguous
        <4>2. CASE o = new
          <5>1. m \in live /\ n \in live
            BY <1>3, <3>1, <4>0, <4>2, <1>1, LivePositions
          <5>2. pos[n] <= pos[w] /\ pos[m] < pos[n] /\ tableIterator[m] = Hash[k]
            BY <1>2, <1>3, <2>2, <3>1, <4>2, <5>1
          <5>3. n = w \/ pos[n] < pos[w]
            BY <1>1, <5>1, <5>2, LivePositions
          <5>4. tableIterator[n] = Hash[k]
            BY <2>1, <5>1, <5>2, <5>3 DEF HashInv, Contiguous
          <5> QED
            BY <1>2, <3>1, <4>2, <5>1, <5>4
        <4>3. CASE m # new /\ o # new /\ n = new
          <5>1. m \in live /\ o \in live
            BY <4>0, <4>3
          <5>2. pos[m] <= pos[w] /\ pos[w] < pos[o] /\ tableIterator[m] = tableIterator[o]
            BY <1>2, <2>2, <3>1, <4>3, <5>1
          <5>3. m = w \/ pos[m] < pos[w]
            BY <1>1, <5>1, <5>2, LivePositions
          <5>4. tableIterator[m] = Hash[k]
            BY <2>1, <5>1, <5>2, <5>3 DEF HashInv, Contiguous
          <5> QED
            BY <1>2, <4>3, <5>1, <5>4
        <4>4. CASE m # new /\ o # new /\ n # new
          <5>1. m \in live /\ o \in live /\ n \in live
            BY <4>0, <4>4
          <5> QED
            BY <1>2, <1>3, <3>1, <5>1 DEF HashInv, Contiguous
        <4> QED
          BY <4>1, <4>2, <4>3, <4>4
      <3> QED
        BY <3>1 DEF Contiguous
    <2>4. ASSUME NEW s \in Slot PROVE HeadIn(live, s)'
      <3>1. mTable'[s] = mTable[s]
        BY <1>7
      <3>2. CASE s = Hash[k]
        <4>1. /\ mTable[s] \in live /\ tableIterator[mTable[s]] = s
              /\ \A n \in live : tableIterator[n] = s => pos[mTable[s]] <= pos[n]
          BY <1>1, <2>1, <3>2 DEF HeadIn
        <4>2. pos'[mTable[s]] < pos'[new]
          BY <2>1, <2>2, <3>2, <4>1
        <4>3. pos'[mTable[s]] <= pos'[new]
          BY <1>1, <1>3, <4>1, <4>2, LivePositions DEF InsertedAt
        <4>4. \A n \in live' : tableIterator'[n] = s => pos'[mTable[s]] <= pos'[n]
          BY <1>2, <1>3, <4>1, <4>3
        <4> QED
          BY <1>2, <3>1, <4>1, <4>4 DEF HeadIn
      <3>3. CASE s # Hash[k]
        BY <1>1, <1>2, <1>3, <3>1, <3>3 DEF HeadIn
      <3> QED
        BY <3>2, <3>3
    <2> QED
      BY <1>4, <1>5, <2>3, <2>4
  <1> QED
    BY <1>6, <1>7

\* The call is over: nothing of a range erase is left.
LEMMA FreeInv ==
  ASSUME HashInv, Free, ListInv', UNCHANGED <<op, erasing>>,
         EntriesInv', Contiguous', mTable' \in [Slot -> Pointer],
         \A s \in Slot : HeadIn(live, s)'
  PROVE  HashInv'
  <1>1. /\ Idle' /\ rangeBegin' = Null /\ scan' = Null /\ headSlot' = Null
    BY DEF Free, Idle, erasing, HashInv
  <1>2. Staying' = live'
    BY <1>1 DEF Idle, Staying, Leaving
  <1>3. \A s \in Slot : HeadIn(Staying, s)'
    BY <1>2 DEF HeadIn
  <1> QED
    BY <1>1, <1>3 DEF HashInv, Idle

\* emplace_before end() puts the new node after all others, elsewhere right
\* before the node.
LEMMA EmplaceBeforePosition ==
  ASSUME ListInv, Idle, NEW where \in live \cup {Null}, NEW new \in Node,
         EmplaceBeforeEffect(where, new)
  PROVE  /\ new \notin live /\ live' = live \cup {new}
         /\ pos' = InsertedAt(IF where = Null THEN mSize + 1 ELSE pos[where], new)
  <1>1. FieldTypes /\ Whole
    BY IdleIsWhole
  <1>2. CASE where = Null
    <2>1. EmplaceAfterEffect(mBeforeEnd, new)
      BY <1>2 DEF EmplaceBeforeEffect
    <2>2. After(mBeforeEnd) = mSize + 1
      BY <1>1 DEF Whole, BeforeEndOK, After, FieldTypes
    <2> QED
      BY <1>2, <2>1, <2>2 DEF EmplaceAfterEffect, NewNode
  <1>3. CASE where # Null
    BY <1>3 DEF EmplaceBeforeEffect, NewNode
  <1> QED
    BY <1>2, <1>3

\* The next node of a live node is the one right after it; the last has none.
LEMMA NextPosition ==
  ASSUME ListInv, Idle, NEW n \in live
  PROVE  /\ next[n] \in live \cup {Null}
         /\ next[n] = Null <=> pos[n] = mSize
         /\ next[n] # Null => next[n] \in live /\ pos[next[n]] = pos[n] + 1
  <1>1. NextOK(n) /\ n \in Node /\ live \subseteq Node
    BY IdleIsWhole, LivePositions DEF Whole
  <1> QED
    BY <1>1 DEF NextOK

\* insert of a new key.
LEMMA InsertEntryInv ==
  ASSUME HashInv, Free, NEW k \in Key, NEW v \in Value, NEW new \in Node, InsertEntry(k, v, new)
  PROVE  HashInv'
  <1> DEFINE first == mTable[Hash[k]]
             where == InsertWhere(first)
             p == IF where = Null THEN mSize + 1 ELSE pos[where]
  <1>1. /\ ListInv /\ Idle /\ Hash[k] \in Slot
        /\ \A s \in Slot : HeadIn(live, s)
    BY IdleStaying DEF HashInv, Free
  <1>2. first \in live \cup {Null} /\ (first # Null => tableIterator[first] = Hash[k])
    BY <1>1 DEF HeadIn
  <1>3. where \in live \cup {Null}
    BY <1>1, <1>2, NextPosition DEF InsertWhere
  <1>4. /\ EmplaceBeforeEffect(where, new)
        /\ key' = [key EXCEPT ![new] = k]
        /\ value' = [value EXCEPT ![new] = v]
        /\ tableIterator' = [tableIterator EXCEPT ![new] = Hash[k]]
        /\ mTable' = IF first = Null THEN [mTable EXCEPT ![Hash[k]] = new] ELSE mTable
        /\ ret' = new /\ UNCHANGED <<locals, erasing>>
    BY DEF InsertEntry
  <1>5. ListInv'
    BY <1>1, <1>3, <1>4, EmplaceInv
  <1>6. new \notin live /\ live' = live \cup {new} /\ pos' = InsertedAt(p, new)
    BY <1>1, <1>3, <1>4, EmplaceBeforePosition
  <1>7. /\ p \in Nat
        /\ first = Null => \A n \in live : pos[n] < p
        /\ first # Null => \E w \in live : tableIterator[w] = Hash[k] /\ p = pos[w] + 1
    <2>1. CASE first = Null
      BY <1>1, <2>1, LivePositions DEF InsertWhere
    <2>2. CASE first # Null
      <3>1. first \in live /\ where = next[first] /\ tableIterator[first] = Hash[k]
        BY <1>2, <2>2 DEF InsertWhere
      <3>2. p = pos[first] + 1
        BY <1>1, <3>1, NextPosition, LivePositions
      <3> QED
        BY <1>1, <2>2, <3>1, <3>2, LivePositions
    <2> QED
      BY <2>1, <2>2
  <1>8. EntriesInv' /\ Contiguous' /\ mTable' \in [Slot -> Pointer]
        /\ \A s \in Slot : HeadIn(live, s)'
    <2> HIDE DEF p
    <2> QED
      BY <1>1, <1>4, <1>6, <1>7, NewEntry
  <1> QED
    BY <1>4, <1>5, <1>8, FreeInv DEF locals

\* insert of a new entry in a table with multiple keys.
LEMMA MultiInsertInv ==
  ASSUME HashInv, NEW k \in Key, NEW v \in Value, NEW new \in Node, MultiInsert(k, v, new)
  PROVE  HashInv'
  <1> DEFINE first == mTable[Hash[k]]
             where == IF first = Null THEN mBeforeEnd ELSE InsertAfter(first, k)
  <1>1. /\ ListInv /\ Free /\ Idle /\ Hash[k] \in Slot
        /\ \A s \in Slot : HeadIn(live, s)
    BY IdleStaying DEF HashInv, Free, MultiInsert
  <1>2. first \in live \cup {Null} /\ (first # Null => tableIterator[first] = Hash[k])
    BY <1>1 DEF HeadIn
  <1>3. first # Null => where \in live /\ tableIterator[where] = Hash[k]
    <2>1. Find(k) = LookupKeyInKeyList(first, k)
      BY DEF Find
    <2>2. Find(k) # Null => Find(k) \in live /\ tableIterator[Find(k)] = Hash[k]
      BY <1>1, FindIs DEF HashInv, EntriesInv
    <2> QED
      BY <1>2, <2>1, <2>2 DEF InsertAfter
  <1>4. first = Null => where = mBeforeEnd
    OBVIOUS
  <1>5. where \in live \cup {Null}
    BY <1>1, <1>3, <1>4, EndsAreIterators
  <1>6. /\ EmplaceAfterEffect(where, new)
        /\ key' = [key EXCEPT ![new] = k]
        /\ value' = [value EXCEPT ![new] = v]
        /\ tableIterator' = [tableIterator EXCEPT ![new] = Hash[k]]
        /\ mTable' = IF first = Null THEN [mTable EXCEPT ![Hash[k]] = new] ELSE mTable
        /\ ret' = new /\ UNCHANGED <<locals, erasing>>
    BY DEF MultiInsert
  <1>7. ListInv'
    BY <1>1, <1>5, <1>6, EmplaceInv
  <1>8. new \notin live /\ live' = live \cup {new} /\ pos' = InsertedAt(After(where), new)
    BY <1>6 DEF EmplaceAfterEffect, NewNode
  <1>9. /\ After(where) \in Nat
        /\ first = Null => \A n \in live : pos[n] < After(where)
        /\ first # Null => \E w \in live : tableIterator[w] = Hash[k] /\ After(where) = pos[w] + 1
    <2>1. CASE first = Null
      <3>1. BeforeEndOK /\ where = mBeforeEnd
        BY <1>1, <2>1, IdleIsWhole DEF Whole
      <3>2. After(where) = mSize + 1
        BY <1>1, <3>1, LivePositions DEF BeforeEndOK, After
      <3> QED
        BY <1>1, <2>1, <3>2, LivePositions
    <2>2. CASE first # Null
      BY <1>1, <1>3, <2>2, LivePositions DEF After
    <2> QED
      BY <2>1, <2>2
  <1>10. EntriesInv' /\ Contiguous' /\ mTable' \in [Slot -> Pointer]
         /\ \A s \in Slot : HeadIn(live, s)'
    <2> HIDE DEF where
    <2> QED
      BY <1>1, <1>6, <1>8, <1>9, NewEntry
  <1> QED
    BY <1>1, <1>6, <1>7, <1>10, FreeInv DEF locals

-----------------------------------------------------------------------------
(* Erasing.                                                                *)

\* Of fewer entries, in the same order, those of a hash still stand together.
LEMMA FewerContiguous ==
  ASSUME Contiguous, live' \subseteq live, UNCHANGED tableIterator,
         \A m, n \in live' : pos'[m] < pos'[n] <=> pos[m] < pos[n]
  PROVE  Contiguous'
  BY DEF Contiguous

\* erase(iterator): the entry that takes the place of a slot's first entry is
\* the next of its hash, also when LinkedList::erase returns the one before.
LEMMA EraseIteratorInv ==
  ASSUME HashInv, NEW node \in live, EraseIterator(node)
  PROVE  HashInv'
  <1>0. PICK mine \in Slot : mine = tableIterator[node]
    BY DEF HashInv, EntriesInv
  <1>1. /\ Free /\ Idle /\ EraseEffect(node)
        /\ mTable' = IF mTable[mine] = node THEN UpdateEraseFirst(mine, ret') ELSE mTable
        /\ UNCHANGED <<locals, entries, inserted, erasing>>
    BY <1>0 DEF EraseIterator, Free
  <1>2. /\ ListInv /\ EntriesInv /\ Contiguous /\ mTable \in [Slot -> Pointer]
        /\ Whole
        /\ \A s \in Slot : HeadIn(live, s)
    BY <1>1, IdleStaying, IdleIsWhole DEF HashInv, EntriesInv
  <1>3. ListInv' /\ ret' \in live' \cup {Null}
    BY <1>1, <1>2, EraseNodeInv DEF Erase
  <1>4. live' = live \ {node} /\ pos' = Removed(node)
        /\ ret' = (IF node = mBeforeEnd THEN previous[node] ELSE next[node])
        /\ key' = key /\ value' = value /\ tableIterator' = tableIterator
    BY <1>1 DEF EraseEffect, DeleteNode, EraseResult, entries
  <1>5. \A m, n \in live' : (pos'[m] < pos'[n] <=> pos[m] < pos[n])
                            /\ (pos'[m] <= pos'[n] <=> pos[m] <= pos[n])
    BY <1>2, <1>4, RemovedOrder
  <1>6. EntriesInv' /\ Contiguous'
    BY <1>2, <1>4, <1>5, FewerContiguous DEF EntriesInv
  <1>7. mTable' \in [Slot -> Pointer]
    BY <1>1, <1>2, <1>3, <1>4, LivePositions DEF UpdateEraseFirst
  <1>8. ASSUME NEW s \in Slot, mTable[mine] # node \/ s # mine PROVE HeadIn(live, s)'
    <2>1. mTable'[s] = mTable[s] /\ mTable[s] # node
      BY <1>0, <1>1, <1>2, <1>8, LivePositions DEF UpdateEraseFirst, HeadIn
    <2> QED
      BY <1>2, <1>4, <1>5, <2>1 DEF HeadIn
  <1>9. ASSUME mTable[mine] = node PROVE HeadIn(live, mine)'
    <2>1. /\ mTable'[mine] = (IF ret' # Null /\ tableIterator[ret'] = mine THEN ret' ELSE Null)
          /\ \A n \in live' : tableIterator[n] = mine => pos[node] < pos[n]
      <3>1. mTable'[mine] = (IF ret' # Null /\ tableIterator[ret'] = mine THEN ret' ELSE Null)
        BY <1>1, <1>2, <1>9 DEF UpdateEraseFirst
      <3>2. ASSUME NEW n \in live', tableIterator[n] = mine PROVE pos[node] < pos[n]
        <4>1. n \in live /\ n # node /\ pos[node] <= pos[n]
          BY <1>0, <1>2, <1>4, <1>9, <3>2 DEF HeadIn
        <4> QED
          BY <1>2, <4>1, LivePositions
      <3> QED
        BY <3>1, <3>2
    <2>2. CASE node = mBeforeEnd
      <3>1. pos[node] = mSize
        BY <1>2, <2>2, LivePositions DEF Whole, BeforeEndOK
      <3>2. \A n \in live' : tableIterator[n] # mine
        BY <1>2, <1>4, <2>1, <3>1, LivePositions
      <3>3. mTable'[mine] = Null
        BY <1>3, <2>1, <3>2
      <3> QED
        BY <1>4, <3>2, <3>3 DEF HeadIn
    <2>3. CASE node # mBeforeEnd
      <3>1. ret' = next[node] /\ next[node] # Null /\ next[node] \in live
            /\ pos[next[node]] = pos[node] + 1
        <4>1. pos[node] # mSize
          BY <1>2, <2>3, LivePositions DEF Whole, BeforeEndOK
        <4> QED
          BY <1>1, <1>2, <1>4, <2>3, <4>1, NextPosition
      <3>2. ret' \in live' /\ \A n \in live' : pos[node] < pos[n] => pos[ret'] <= pos[n]
        BY <1>2, <1>3, <1>4, <3>1, LivePositions
      <3>3. CASE tableIterator[ret'] = mine
        <4>1. mTable'[mine] = ret'
          BY <2>1, <3>1, <3>3
        <4> QED
          BY <1>4, <1>5, <2>1, <3>2, <3>3, <4>1 DEF HeadIn
      <3>4. CASE tableIterator[ret'] # mine
        <4>1. ASSUME NEW n \in live', tableIterator[n] = mine PROVE FALSE
          <5>1. pos[node] < pos[ret'] /\ pos[ret'] < pos[n]
            BY <1>2, <1>4, <2>1, <3>1, <3>2, <3>4, <4>1, LivePositions
          <5> QED
            BY <1>0, <1>2, <1>4, <3>2, <3>4, <4>1, <5>1 DEF Contiguous
        <4>2. mTable'[mine] = Null
          BY <2>1, <3>4
        <4> QED
          BY <1>4, <4>1, <4>2 DEF HeadIn
      <3> QED
        BY <3>3, <3>4
    <2> QED
      BY <2>2, <2>3
  <1>10. \A s \in Slot : HeadIn(live, s)'
    BY <1>8, <1>9
  <1> QED
    BY <1>1, <1>3, <1>6, <1>7, <1>10, FreeInv DEF locals

\* A range that SafeRange allows has at most one first entry of a hash.
LEMMA SafeHead ==
  ASSUME NEW first, NEW last, SafeRange(first, last),
         NEW s \in Slot, mTable[s] # Null, pos[mTable[s]] >= pos[first],
         last # Null => pos[mTable[s]] < pos[last],
         NEW t \in Slot, mTable[t] # Null, pos[mTable[t]] >= pos[first],
         last # Null => pos[mTable[t]] < pos[last]
  PROVE  s = t
  <1> DEFINE heads == {u \in Slot : /\ mTable[u] # Null
                                    /\ pos[mTable[u]] >= pos[first]
                                    /\ last # Null => pos[mTable[u]] < pos[last]}
  <1>1. IsFiniteSet(heads) /\ Cardinality(heads) <= 1 /\ Cardinality(heads) \in Nat
    BY FS_Subset, FS_CardinalityType DEF SafeRange
  <1>2. {s, t} \subseteq heads
    OBVIOUS
  <1>3. s # t => Cardinality({s, t}) = 2
    <2>1. IsFiniteSet({s}) /\ Cardinality({s}) = 1
      BY FS_Singleton
    <2>2. t \notin {s} => Cardinality({s} \cup {t}) = Cardinality({s}) + 1
      BY <2>1, FS_AddElement
    <2>3. {s} \cup {t} = {s, t}
      OBVIOUS
    <2> QED
      BY <2>1, <2>2, <2>3
  <1>4. Cardinality({s, t}) <= Cardinality(heads)
    BY <1>1, <1>2, FS_Subset
  <1> QED
    BY <1>1, <1>3, <1>4

\* The range erase starts: no entry of the range has been passed.
LEMMA EraseEntriesInv ==
  ASSUME HashInv, NEW first \in live, NEW last \in live \cup {Null},
         IsRange(first, last), SafeRange(first, last), EraseEntries(first, last)
  PROVE  HashInv'
  <1>1. /\ Free /\ Idle /\ rangeBegin' = first /\ rangeEnd' = last /\ scan' = first
        /\ ret' = Null
        /\ UNCHANGED <<fields, locals, pos, mTable, entries, inserted, headSlot>>
    BY DEF EraseEntries, Free
  <1>2. /\ ListInv /\ Idle' /\ headSlot' = Null /\ first # Null
        /\ live' = live /\ previous' = previous /\ pos' = pos /\ mTable' = mTable
        /\ tableIterator' = tableIterator /\ op' = op
    BY <1>1, LivePositions DEF HashInv, Free, Idle, fields, locals, entries
  <1>3. ListInv'
    <2>1. FieldTypes' /\ Whole'
      BY <1>1, <1>2, IdleIsWhole
         DEF fields, FieldTypes, Whole, Positions, NextOK, PreviousOK, BeginOK, BeforeEndOK
    <2> QED
      BY <1>1, <1>2, <2>1, WholeCall
  <1>4. EntriesInv' /\ Contiguous'
    BY <1>1, <1>2 DEF HashInv, EntriesInv, Contiguous, entries
  <1>5. \A s \in Slot : HeadIn(Staying, s)'
    <2>1. Staying = live /\ Staying' = live'
      BY <1>1, <1>2 DEF Idle, Staying, Leaving
    <2> QED
      BY <1>2, <2>1 DEF HashInv, HeadIn
  <1>6. ScanInv'
    <2>1. /\ last # Null => pos[first] < pos[last]
          /\ (previous[first] = Null) <=> (last = Null)
      BY DEF IsRange, SafeRange, ListRange
    <2>2. first # last => pos[first] >= pos[first] /\ (last # Null => pos[first] < pos[last])
      BY <1>2, <2>1, LivePositions
    <2>3. \A s, t \in Slot :
            /\ mTable[s] # Null /\ mTable[t] # Null
            /\ pos[mTable[s]] >= pos[first] /\ (last # Null => pos[mTable[s]] < pos[last])
            /\ pos[mTable[t]] >= pos[first] /\ (last # Null => pos[mTable[t]] < pos[last])
            => s = t
      BY SafeHead
    <2>4. \A n \in live : ~(pos[n] >= pos[first] /\ pos[n] < pos[first])
      BY <1>2, LivePositions
    <2> QED
      BY <1>1, <1>2, <2>1, <2>2, <2>3, <2>4 DEF ScanInv, InScan
  <1> QED
    BY <1>1, <1>2, <1>3, <1>4, <1>5, <1>6 DEF HashInv

\* One entry of the first loop.  An entry of a second hash in the range comes
\* before the first entry of the first hash, or it would be the first of its
\* own: no slot is cleared here.
LEMMA ScanStepInv ==
  ASSUME HashInv, ScanStep
  PROVE  HashInv'
  <1> DEFINE slot == tableIterator[scan]
  <1>1. /\ rangeBegin # Null /\ scan # rangeEnd /\ ScanInv /\ Idle /\ ListInv
        /\ EntriesInv /\ Contiguous /\ \A s \in Slot : HeadIn(live, s)
    BY IdleStaying DEF ScanStep, HashInv, ScanInv
  <1>2. /\ scan \in live /\ scan # Null /\ InScan(scan) /\ slot \in Slot
        /\ rangeBegin \in live /\ rangeEnd \in live \cup {Null}
    BY <1>1 DEF ScanInv, EntriesInv
  <1>3. /\ mTable[slot] \in live /\ tableIterator[mTable[slot]] = slot
        /\ pos[mTable[slot]] <= pos[scan]
    BY <1>1, <1>2 DEF HeadIn
  <1>4. ASSUME headSlot # Null PROVE slot = headSlot
    <2>1. /\ headSlot \in Slot /\ mTable[headSlot] # Null /\ InScan(mTable[headSlot])
          /\ pos[mTable[headSlot]] < pos[scan]
      BY <1>1, <1>2, <1>4 DEF ScanInv
    <2>2. mTable[headSlot] \in live /\ tableIterator[mTable[headSlot]] = headSlot
      BY <1>1, <2>1 DEF HeadIn
    <2>3. CASE InScan(mTable[slot])
      BY <1>1, <1>2, <1>3, <2>1, <2>3, LivePositions DEF ScanInv
    <2>4. CASE ~InScan(mTable[slot])
      <3>1. pos[mTable[slot]] < pos[rangeBegin]
        BY <1>1, <1>2, <1>3, <2>4, LivePositions DEF InScan
      <3>2. pos[mTable[slot]] < pos[mTable[headSlot]]
        BY <1>1, <1>2, <1>3, <2>1, <2>2, <3>1, LivePositions DEF InScan
      <3> QED
        BY <1>1, <1>2, <1>3, <2>1, <2>2, <3>2 DEF Contiguous
    <2> QED
      BY <2>3, <2>4
  <1>5. /\ mTable' = mTable /\ scan' = next[scan]
        /\ headSlot' = (IF headSlot # Null THEN headSlot
                        ELSE IF mTable[slot] = scan THEN slot ELSE Null)
        /\ UNCHANGED <<vars, entries, inserted, rangeBegin, rangeEnd>>
    BY <1>4 DEF ScanStep
  <1>6. /\ live' = live /\ previous' = previous /\ next' = next /\ pos' = pos /\ mSize' = mSize
        /\ op' = op /\ it' = it /\ stop' = stop /\ saved' = saved
        /\ mBegin' = mBegin /\ mBeforeEnd' = mBeforeEnd
        /\ beginHit' = beginHit /\ beforeEndHit' = beforeEndHit /\ ret' = ret
        /\ key' = key /\ value' = value /\ tableIterator' = tableIterator
        /\ rangeBegin' = rangeBegin /\ rangeEnd' = rangeEnd
    BY <1>5 DEF vars, fields, locals, entries
  <1>7. ListInv'
    <2>1. FieldTypes' /\ Whole'
      BY <1>1, <1>6, IdleIsWhole
         DEF FieldTypes, Whole, Positions, NextOK, PreviousOK, BeginOK, BeforeEndOK
    <2>2. UNCHANGED locals /\ ret' \in Pointer
      BY <1>1, <1>6 DEF locals, ListInv, TypeOK
    <2> QED
      BY <1>1, <2>1, <2>2, WholeCall
  <1>8. EntriesInv' /\ Contiguous' /\ Idle' /\ mTable' \in [Slot -> Pointer]
    BY <1>1, <1>5, <1>6 DEF HashInv, EntriesInv, Contiguous, Idle
  <1>9. \A s \in Slot : HeadIn(Staying, s)'
    <2>1. Staying' = live
      BY <1>6, <1>8 DEF Idle, Staying, Leaving
    <2> QED
      BY <1>1, <1>5, <1>6, <2>1 DEF HeadIn
  <1>10. ScanInv'
    <2>1. /\ next[scan] \in live \cup {Null}
          /\ next[scan] = Null <=> pos[scan] = mSize
          /\ next[scan] # Null => next[scan] \in live /\ pos[next[scan]] = pos[scan] + 1
      BY <1>1, <1>2, NextPosition
    <2>2. next[scan] # rangeEnd => next[scan] # Null /\ InScan(next[scan])
      BY <1>1, <1>2, <2>1, LivePositions DEF InScan
    <2>3. ASSUME headSlot' = Null, NEW n \in live, InScan(n), next[scan] # Null => pos[n] < pos[next[scan]]
          PROVE  mTable[tableIterator[n]] # n
      <3>1. headSlot = Null /\ mTable[slot] # scan
        BY <1>2, <1>5, <2>3
      <3>2. CASE n = scan
        BY <3>1, <3>2
      <3>3. CASE n # scan
        <4>1. pos[n] < pos[scan]
          BY <1>1, <1>2, <2>1, <2>3, <3>3, LivePositions
        <4> QED
          BY <1>1, <2>3, <3>1, <4>1 DEF ScanInv
      <3> QED
        BY <3>2, <3>3
    <2>4. ASSUME headSlot' # Null
          PROVE  /\ headSlot' \in Slot /\ mTable[headSlot'] # Null /\ InScan(mTable[headSlot'])
                 /\ next[scan] # Null => pos[mTable[headSlot']] < pos[next[scan]]
      <3>1. CASE headSlot # Null
        <4>1. /\ headSlot' = headSlot /\ headSlot \in Slot /\ mTable[headSlot] # Null
              /\ InScan(mTable[headSlot]) /\ pos[mTable[headSlot]] < pos[scan]
          BY <1>1, <1>2, <1>5, <3>1 DEF ScanInv
        <4>2. mTable[headSlot] \in live
          BY <1>1, <4>1 DEF HeadIn
        <4> QED
          BY <1>1, <1>2, <2>1, <4>1, <4>2, LivePositions
      <3>2. CASE headSlot = Null
        <4>1. headSlot' = slot /\ mTable[slot] = scan
          BY <1>5, <2>4, <3>2
        <4> QED
          BY <1>1, <1>2, <2>1, <4>1, LivePositions
      <3> QED
        BY <3>1, <3>2
    <2>5. /\ rangeEnd # Null => pos[rangeBegin] < pos[rangeEnd]
          /\ (previous[rangeBegin] = Null) <=> (rangeEnd = Null)
          /\ \A s, t \in Slot : /\ mTable[s] # Null /\ mTable[t] # Null
                                /\ InScan(mTable[s]) /\ InScan(mTable[t])
                                => s = t
      BY <1>1 DEF ScanInv
    <2> QED
      BY <1>2, <1>5, <1>6, <1>8, <2>1, <2>2, <2>3, <2>4, <2>5 DEF ScanInv, InScan
  <1> QED
    BY <1>1, <1>5, <1>6, <1>7, <1>8, <1>9, <1>10 DEF HashInv, Idle

\* The end of the first loop: the one slot whose first entry is in the range
\* gets the entry after the range, or end(), before the list deletes the range.
LEMMA ScanEndInv ==
  ASSUME HashInv, ScanEnd
  PROVE  HashInv'
  <1>1. /\ rangeBegin # Null /\ scan = rangeEnd /\ ScanInv /\ Idle /\ ListInv
        /\ EntriesInv /\ Contiguous /\ mTable \in [Slot -> Pointer]
        /\ \A s \in Slot : HeadIn(live, s)
    BY IdleStaying DEF ScanEnd, HashInv, ScanInv
  <1>2. /\ mTable' = (IF headSlot = Null THEN mTable ELSE UpdateEraseFirst(headSlot, rangeEnd))
        /\ EraseRange(rangeBegin, rangeEnd)
        /\ rangeBegin' = Null /\ scan' = Null /\ headSlot' = Null
        /\ key' = key /\ value' = value /\ tableIterator' = tableIterator
    BY DEF ScanEnd, entries
  <1>3. /\ op' = "erase" /\ it' = rangeBegin /\ stop' = rangeEnd /\ live' = live /\ pos' = pos
    BY <1>2 DEF EraseRange, fields
  <1>4. /\ rangeBegin \in live /\ rangeEnd \in live \cup {Null}
        /\ rangeEnd # Null => pos[rangeBegin] < pos[rangeEnd]
        /\ (previous[rangeBegin] = Null) <=> (rangeEnd = Null)
    BY <1>1 DEF ScanInv
  <1>5. ListInv'
    <2>1. rangeEnd = Null => rangeBegin = mBegin
      <3>1. PreviousOK(rangeBegin) /\ BeginOK /\ live \subseteq Node
        BY <1>1, <1>4, IdleIsWhole, LivePositions DEF Whole
      <3> QED
        BY <1>1, <1>4, <3>1, LivePositions DEF PreviousOK, BeginOK
    <2> QED
      BY <1>1, <1>2, <1>4, <2>1, EraseRangeInv
  <1>6. EntriesInv' /\ Contiguous'
    BY <1>1, <1>2, <1>3 DEF EntriesInv, Contiguous
  <1>7. mTable' \in [Slot -> Pointer]
    BY <1>1, <1>2, <1>4, LivePositions DEF UpdateEraseFirst
  <1>8. Staying' = {n \in live : ~InScan(n)}
    BY <1>1, <1>3 DEF Staying, Leaving, InScan
  <1>9. ASSUME NEW s \in Slot, s # headSlot PROVE HeadIn(Staying, s)'
    <2>1. mTable'[s] = mTable[s]
      BY <1>1, <1>2, <1>9 DEF UpdateEraseFirst
    <2>2. CASE mTable[s] = Null
      BY <1>1, <1>2, <1>8, <2>1, <2>2, LivePositions DEF HeadIn
    <2>3. CASE mTable[s] # Null
      <3>1. /\ mTable[s] \in live /\ tableIterator[mTable[s]] = s
            /\ \A n \in live : tableIterator[n] = s => pos[mTable[s]] <= pos[n]
        BY <1>1, <2>3 DEF HeadIn
      <3>2. ~InScan(mTable[s])
        <4>1. CASE headSlot = Null
          <5>1. InScan(mTable[s]) => (scan # Null => pos[mTable[s]] < pos[scan])
            BY <1>1 DEF InScan
          <5> QED
            BY <1>1, <3>1, <4>1, <5>1 DEF ScanInv
        <4>2. CASE headSlot # Null
          BY <1>1, <1>9, <2>3, <4>2 DEF ScanInv
        <4> QED
          BY <4>1, <4>2
      <3> QED
        BY <1>2, <1>3, <1>8, <2>1, <3>1, <3>2 DEF HeadIn
    <2> QED
      BY <2>2, <2>3
  <1>10. ASSUME NEW s \in Slot, s = headSlot PROVE HeadIn(Staying, s)'
    <2>1. /\ headSlot # Null /\ mTable[s] # Null /\ InScan(mTable[s])
      BY <1>1, <1>10 DEF ScanInv
    <2>2. /\ mTable[s] \in live /\ tableIterator[mTable[s]] = s
          /\ \A n \in live : tableIterator[n] = s => pos[mTable[s]] <= pos[n]
      BY <1>1, <2>1 DEF HeadIn
    <2>3. mTable'[s] = IF rangeEnd # Null /\ tableIterator[rangeEnd] = s THEN rangeEnd ELSE Null
      BY <1>1, <1>2, <1>10, <2>1 DEF UpdateEraseFirst
    <2>4. ASSUME NEW n \in live, ~InScan(n), tableIterator[n] = s
          PROVE  rangeEnd # Null /\ pos[rangeEnd] <= pos[n] /\ pos[mTable[s]] < pos[rangeEnd]
      BY <1>1, <1>4, <2>1, <2>2, <2>4, LivePositions DEF InScan
    <2>5. CASE rangeEnd # Null /\ tableIterator[rangeEnd] = s
      <3>1. rangeEnd \in live /\ ~InScan(rangeEnd)
        BY <1>1, <1>4, <2>5, LivePositions DEF InScan
      <3> QED
        BY <1>2, <1>3, <1>8, <2>3, <2>4, <2>5, <3>1 DEF HeadIn
    <2>6. CASE ~(rangeEnd # Null /\ tableIterator[rangeEnd] = s)
      <3>1. ASSUME NEW n \in live, ~InScan(n), tableIterator[n] = s PROVE FALSE
        <4>1. rangeEnd \in live /\ pos[mTable[s]] < pos[rangeEnd] /\ n # rangeEnd
              /\ pos[rangeEnd] <= pos[n] /\ tableIterator[rangeEnd] # s
          BY <1>4, <2>4, <2>6, <3>1
        <4>2. pos[rangeEnd] < pos[n]
          BY <1>1, <4>1, LivePositions
        <4> QED
          BY <1>1, <2>2, <3>1, <4>1, <4>2 DEF Contiguous
      <3> QED
        BY <1>2, <1>8, <2>3, <2>6, <3>1 DEF HeadIn
    <2> QED
      BY <2>5, <2>6
  <1>11. \A s \in Slot : HeadIn(Staying, s)'
    BY <1>9, <1>10
  <1> QED
    BY <1>2, <1>3, <1>5, <1>6, <1>7, <1>11 DEF HashInv

\* The list's erase loop deletes entries of the range and no other.
LEMMA EraseStepHashInv ==
  ASSUME HashInv, EraseStep, UNCHANGED <<mTable, entries, inserted, erasing>>
  PROVE  HashInv'
  <1>1. /\ op = "erase" /\ it # stop /\ it # Null /\ it' = next[it]
        /\ live' = live \ {it} /\ mSize' = mSize - 1 /\ pos' = Removed(it)
        /\ op' = op /\ stop' = stop /\ saved' = saved /\ next' = next
        /\ mTable' = mTable /\ key' = key /\ value' = value /\ tableIterator' = tableIterator
        /\ rangeBegin' = rangeBegin /\ scan' = scan /\ headSlot' = headSlot
    BY DEF EraseStep, InRange, DeleteNode, entries, erasing
  <1>2. ListInv /\ ListInv' /\ EraseLoop /\ EraseLoop'
    BY EraseStepInv DEF HashInv, ListInv
  <1>3. it \in live /\ rangeBegin = Null
    BY <1>1, <1>2 DEF EraseLoop, HashInv, ScanInv, Idle
  <1>4. \A m, n \in live' : (pos'[m] < pos'[n] <=> pos[m] < pos[n])
                            /\ (pos'[m] <= pos'[n] <=> pos[m] <= pos[n])
    BY <1>1, <1>2, <1>3, RemovedOrder
  <1>5. EntriesInv' /\ Contiguous'
    BY <1>1, <1>4, FewerContiguous DEF HashInv, EntriesInv
  <1>6. Staying' = Staying
    <2>1. /\ \A n \in live : n \in Node /\ pos[n] \in Nat \ {0} /\ pos[n] <= mSize
          /\ \A n \in live : pos[n] = pos[it] => n = it
          /\ \A n \in live' : pos'[n] \in Nat \ {0} /\ n \in live /\ n # it
          /\ \A n \in live' : pos'[n] = (IF pos[n] > pos[it] THEN pos[n] - 1 ELSE pos[n])
      BY <1>1, <1>2, <1>3, LivePositions DEF Removed
    <2>2. it \notin Staying
      BY <1>1, <1>2, <1>3, <2>1 DEF Staying, Leaving, EraseLoop
    <2>3. ASSUME NEW n \in live' PROVE Leaving(n)' <=> Leaving(n)
      <3>1. CASE saved = Null
        <4>1. stop = Null /\ pos[it] = 1 /\ (it' # Null => pos'[it'] = 1) /\ mSize' \in Nat
          BY <1>1, <1>2, <3>1, LivePositions DEF EraseLoop
        <4>2. it' # Null
          BY <1>1, <1>2, <2>1, <2>3, <3>1, LivePositions DEF EraseLoop
        <4> QED
          BY <1>1, <2>1, <2>3, <4>1, <4>2 DEF Leaving
      <3>2. CASE saved # Null
        <4>1. /\ stop \in live /\ stop \in live' /\ stop # Null /\ it' \in live' /\ it' # Null
              /\ saved \in live' /\ pos'[it'] = pos'[saved] + 1 /\ pos[it] = pos[saved] + 1
              /\ pos[it] <= pos[stop]
          BY <1>1, <1>2, <3>2, LivePositions DEF EraseLoop
        <4>2. pos[it] \in Nat /\ pos[saved] \in Nat /\ pos[n] \in Nat /\ pos[stop] \in Nat
              /\ pos[n] # pos[it] /\ pos[stop] # pos[it]
          BY <1>3, <2>1, <4>1
        <4>3. pos'[it'] = pos[it]
          BY <2>1, <4>1, <4>2
        <4>4. /\ pos'[n] = (IF pos[n] > pos[it] THEN pos[n] - 1 ELSE pos[n])
              /\ pos'[stop] = pos[stop] - 1
          BY <2>1, <4>1, <4>2
        <4> QED
          BY <1>1, <4>1, <4>2, <4>3, <4>4 DEF Leaving
      <3> QED
        BY <3>1, <3>2
    <2> QED
      BY <1>1, <2>2, <2>3 DEF Staying
  <1>7. Staying \subseteq live'
    BY <1>6 DEF Staying
  <1>8. \A s \in Slot : HeadIn(Staying, s)'
    BY <1>1, <1>4, <1>6, <1>7 DEF HashInv, HeadIn
  <1> QED
    BY <1>1, <1>2, <1>3, <1>5, <1>8 DEF HashInv

\* The list's erase loop ends: nothing of the range is left.
LEMMA EraseEndHashInv ==
  ASSUME HashInv, EraseEnd, UNCHANGED <<mTable, entries, inserted, erasing>>
  PROVE  HashInv'
  <1>1. /\ op = "erase" /\ it = stop /\ live' = live /\ pos' = pos /\ op' = "idle"
        /\ mTable' = mTable /\ key' = key /\ value' = value /\ tableIterator' = tableIterator
        /\ rangeBegin' = rangeBegin /\ scan' = scan /\ headSlot' = headSlot
    BY DEF EraseEnd, InRange, entries, erasing
  <1>2. ListInv /\ ListInv' /\ rangeBegin = Null
    BY <1>1, EraseEndInv DEF HashInv, ScanInv, Idle
  <1>3. EntriesInv' /\ Contiguous'
    BY <1>1 DEF HashInv, EntriesInv, Contiguous
  <1>4. Staying = live /\ Staying' = live
    <2>1. it # Null => it \in live
      BY <1>1, <1>2 DEF ListInv, EraseLoop
    <2>2. \A n \in live : ~Leaving(n)
      BY <1>1, <1>2, <2>1, LivePositions DEF Leaving
    <2> QED
      BY <1>1, <2>2 DEF Staying, Leaving
  <1>5. \A s \in Slot : HeadIn(Staying, s)'
    BY <1>1, <1>4 DEF HashInv, HeadIn
  <1> QED
    BY <1>1, <1>2, <1>3, <1>5 DEF HashInv

\* erase(key) of a table with multiple keys passes on a range of the list.
LEMMA EqualRangeIsRange ==
  ASSUME HashInv, Idle, NEW k \in Key, Find(k) # Null
  PROVE  /\ Find(k) \in live /\ EqualRangeEnd(k) \in live \cup {Null}
         /\ IsRange(Find(k), EqualRangeEnd(k))
  <1>1. ListInv /\ Find(k) \in live /\ key[Find(k)] = k
    BY FindIs DEF HashInv
  <1>2. Find(k) \in EqualRange(k) /\ EqualRange(k) \subseteq live
    BY <1>1, LivePositions DEF EqualRange
  <1> DEFINE last == CHOOSE n \in EqualRange(k) : \A m \in EqualRange(k) : pos[m] <= pos[n]
  <1>3. \E n \in EqualRange(k) : \A m \in EqualRange(k) : pos[m] <= pos[n]
    BY <1>1, <1>2, LastOfSome
  <1>4. last \in EqualRange(k) /\ \A m \in EqualRange(k) : pos[m] <= pos[last]
    BY <1>3, Zenon
  <1>5. EqualRangeEnd(k) = next[last]
    BY DEF EqualRangeEnd
  <1> HIDE DEF last
  <1>6. /\ next[last] \in live \cup {Null}
        /\ next[last] # Null => next[last] \in live /\ pos[next[last]] = pos[last] + 1
    BY <1>1, <1>2, <1>4, NextPosition
  <1> QED
    BY <1>1, <1>2, <1>4, <1>5, <1>6, LivePositions DEF IsRange

-----------------------------------------------------------------------------
(* The invariant.                                                          *)

\* The empty table.
LEMMA HashInvInit == HInit => HashInv
  <1> SUFFICES ASSUME HInit PROVE HashInv
    OBVIOUS
  <1>1. ListInv /\ live = {} /\ op = "idle"
    BY InvInit DEF HInit, Init
  <1>2. EntriesInv /\ Contiguous /\ Staying = {}
    BY <1>1 DEF HInit, EntriesInv, Contiguous, Staying
  <1> QED
    BY <1>1, <1>2 DEF HInit, HashInv, HeadIn

\* A call that finds the key leaves every entry where it is.
LEMMA FoundInv ==
  ASSUME HashInv, Free, NEW f \in live, ret' = f,
         UNCHANGED <<fields, locals, pos, mTable, key, tableIterator, erasing>>,
         DOMAIN value' = Node, \A n \in live : value'[n] \in Value
  PROVE  HashInv'
  <1>1. /\ ListInv /\ Idle /\ live' = live /\ pos' = pos /\ op' = op
        /\ mTable' = mTable /\ key' = key /\ tableIterator' = tableIterator
    BY DEF HashInv, Free, fields, locals
  <1>2. ListInv'
    <2>1. FieldTypes' /\ Whole'
      BY <1>1, IdleIsWhole
         DEF fields, FieldTypes, Whole, Positions, NextOK, PreviousOK, BeginOK, BeforeEndOK
    <2>2. ret' \in Pointer
      BY <1>1, LivePositions
    <2> QED
      BY <1>1, <2>1, <2>2, WholeCall
  <1>3. EntriesInv' /\ Contiguous'
    BY <1>1 DEF HashInv, EntriesInv, Contiguous
  <1>4. \A s \in Slot : HeadIn(live, s)'
    BY <1>1, IdleStaying DEF HashInv, HeadIn
  <1>5. mTable' \in [Slot -> Pointer]
    BY <1>1 DEF HashInv
  <1> QED
    BY <1>1, <1>2, <1>3, <1>4, <1>5, FreeInv

\* insert and insertOrAssign, of a new key or of an old one.
LEMMA InsertInv ==
  ASSUME HashInv, NEW k \in Key, NEW v \in Value, NEW new \in Node,
         Insert(k, v, new) \/ InsertOrAssign(k, v, new)
  PROVE  HashInv'
  <1>1. Free /\ Idle
    BY DEF Insert, InsertOrAssign, Free
  <1>2. CASE Find(k) = Null
    BY <1>1, <1>2, InsertEntryInv DEF Insert, InsertOrAssign
  <1>3. CASE Find(k) # Null
    <2>1. Find(k) \in live /\ ret' = Find(k)
      BY <1>1, <1>3, FindIs DEF Insert, InsertOrAssign
    <2>2. UNCHANGED <<fields, locals, pos, mTable, key, tableIterator, erasing>>
      BY <1>3 DEF Insert, InsertOrAssign, entries
    <2>3. value' = value \/ value' = [value EXCEPT ![Find(k)] = v]
      BY <1>3 DEF Insert, InsertOrAssign, entries
    <2>4. DOMAIN value' = Node /\ \A n \in live : value'[n] \in Value
      BY <2>1, <2>3, LivePositions DEF HashInv, EntriesInv
    <2> QED
      BY <1>1, <2>1, <2>2, <2>4, FoundInv
  <1> QED
    BY <1>2, <1>3

\* A step that changes nothing of the table.
LEMMA StutterInv == HashInv /\ UNCHANGED hvars => HashInv'
  <1> SUFFICES ASSUME HashInv, UNCHANGED hvars PROVE HashInv'
    OBVIOUS
  <1>1. /\ live' = live /\ previous' = previous /\ next' = next /\ pos' = pos /\ mSize' = mSize
        /\ op' = op /\ it' = it /\ stop' = stop /\ saved' = saved
        /\ mBegin' = mBegin /\ mBeforeEnd' = mBeforeEnd
        /\ beginHit' = beginHit /\ beforeEndHit' = beforeEndHit /\ ret' = ret
        /\ key' = key /\ value' = value /\ tableIterator' = tableIterator /\ mTable' = mTable
        /\ rangeBegin' = rangeBegin /\ rangeEnd' = rangeEnd /\ scan' = scan /\ headSlot' = headSlot
    BY DEF hvars, vars, fields, locals, entries, erasing
  <1>2. ListInv'
    BY InvNext DEF HashInv, hvars
  <1>3. EntriesInv' /\ Contiguous' /\ Staying' = Staying
    BY <1>1 DEF HashInv, EntriesInv, Contiguous, Staying, Leaving
  <1>4. \A s \in Slot : HeadIn(Staying, s)'
    BY <1>1, <1>3 DEF HashInv, HeadIn
  <1>5. rangeBegin # Null => ScanInv'
    BY <1>1 DEF HashInv, ScanInv, InScan, Idle
  <1> QED
    BY <1>1, <1>2, <1>3, <1>4, <1>5 DEF HashInv

\* Every call and every step of a loop keeps the invariant.
LEMMA HashInvNext == HashInv /\ [HNext \/ MultiNext]_hvars => HashInv'
  <1> SUFFICES ASSUME HashInv, [HNext \/ MultiNext]_hvars PROVE HashInv'
    OBVIOUS
  <1>1. ASSUME NEW k \in Key, NEW v \in Value, NEW new \in Node,
               Insert(k, v, new) \/ InsertOrAssign(k, v, new)
        PROVE  HashInv'
    BY <1>1, InsertInv
  <1>2. ASSUME NEW k \in Key, NEW v \in Value, NEW new \in Node, MultiInsert(k, v, new)
        PROVE  HashInv'
    BY <1>2, MultiInsertInv
  <1>3. ASSUME NEW node \in live, EraseIterator(node) PROVE HashInv'
    BY <1>3, EraseIteratorInv
  <1>4. ASSUME NEW k \in Key, EraseKey(k) PROVE HashInv'
    <2>1. Idle /\ Find(k) # Null /\ EraseIterator(Find(k))
      BY <1>4 DEF EraseKey, EraseIterator, Free
    <2>2. Find(k) \in live
      BY <2>1, FindIs
    <2> QED
      BY <2>1, <2>2, EraseIteratorInv
  <1>5. ASSUME NEW first \in live, NEW last \in live \cup {Null},
               IsRange(first, last), SafeRange(first, last), EraseEntries(first, last)
        PROVE  HashInv'
    BY <1>5, EraseEntriesInv
  <1>6. ASSUME NEW k \in Key, MultiErase(k) PROVE HashInv'
    <2>1. /\ Idle /\ Find(k) # Null /\ SafeRange(Find(k), EqualRangeEnd(k))
          /\ EraseEntries(Find(k), EqualRangeEnd(k))
      BY <1>6 DEF MultiErase, Free
    <2>2. /\ Find(k) \in live /\ EqualRangeEnd(k) \in live \cup {Null}
          /\ IsRange(Find(k), EqualRangeEnd(k))
      BY <2>1, EqualRangeIsRange
    <2> QED
      BY <2>1, <2>2, EraseEntriesInv
  <1>7. CASE ScanStep
    BY <1>7, ScanStepInv
  <1>8. CASE ScanEnd
    BY <1>8, ScanEndInv
  <1>9. CASE EraseEntriesLoop
    BY <1>9, EraseStepHashInv, EraseEndHashInv DEF EraseEntriesLoop
  <1>10. CASE UNCHANGED hvars
    BY <1>10, StutterInv
  <1> QED
    BY <1>1, <1>2, <1>3, <1>4, <1>5, <1>6, <1>7, <1>8, <1>9, <1>10 DEF HNext, Calls, MultiNext

-----------------------------------------------------------------------------
(* What the calls of a table with unique keys do to its contents.          *)

\* Contents is the entries' values, Absent where there is no entry.
ContentsOK ==
  /\ DOMAIN Contents = Key /\ Contents = [k \in Key |-> Contents[k]]
  /\ \A n \in live : key[n] \in Key /\ Contents[key[n]] = value[n] /\ value[n] # Absent
  /\ \A k \in Key : (\A n \in live : key[n] # k) => Contents[k] = Absent

\* With one entry per key the entry of a key is the one Contents chooses.
LEMMA ContentsAre == EntriesInv /\ UniqueKeys => ContentsOK
  <1> SUFFICES ASSUME EntriesInv, UniqueKeys PROVE ContentsOK
    OBVIOUS
  <1> USE DEF Contents, GetKeyAction, GetDataAction, ActionIterator
  <1>1. DOMAIN Contents = Key /\ Contents = [k \in Key |-> Contents[k]]
    OBVIOUS
  <1>2. ASSUME NEW n \in live
        PROVE  key[n] \in Key /\ Contents[key[n]] = value[n] /\ value[n] # Absent
    <2>1. key[n] \in Key /\ value[n] # Absent
      BY DEF EntriesInv
    <2>2. {m \in live : GetKeyAction[m] = key[n]} = {n}
      BY DEF UniqueKeys
    <2>3. (CHOOSE m \in {n} : TRUE) = n
      OBVIOUS
    <2> QED
      BY <2>1, <2>2, <2>3
  <1>3. ASSUME NEW k \in Key, \A n \in live : key[n] # k PROVE Contents[k] = Absent
    <2>1. {m \in live : GetKeyAction[m] = k} = {}
      BY <1>3
    <2> QED
      BY <2>1
  <1> QED
    BY <1>1, <1>2, <1>3 DEF ContentsOK

\* The four things a step does to the entries: add one of a new key, assign to
\* one, delete one, or leave them as they are.
AddsEntry(k, v) ==
  \E new \in Node : /\ new \notin live /\ live' = live \cup {new}
                    /\ key' = [key EXCEPT ![new] = k] /\ value' = [value EXCEPT ![new] = v]
Assigns(k, v) ==
  \E f \in live : /\ key[f] = k /\ live' = live /\ key' = key
                  /\ value' = [value EXCEPT ![f] = v]
DeletesEntry(node) == live' = live \ {node} /\ key' = key /\ value' = value
KeepsEntries == live' = live /\ key' = key /\ value' = value

\* The calls, as what they do to the entries and what they return.
LEMMA CallEffect ==
  ASSUME HashInv, HNext
  PROVE  \/ \E k \in Key, v \in Value :
              (\A n \in live : key[n] # k) /\ AddsEntry(k, v) /\ inserted' = TRUE
         \/ \E k \in Key, v \in Value :
              (\E n \in live : key[n] = k) /\ (KeepsEntries \/ Assigns(k, v)) /\ inserted' = FALSE
         \/ \E node \in live : DeletesEntry(node) /\ inserted' = inserted
         \/ KeepsEntries /\ inserted' = inserted
  <1>1. ASSUME NEW k \in Key, NEW v \in Value, NEW new \in Node,
               Insert(k, v, new) \/ InsertOrAssign(k, v, new)
        PROVE  \/ (\A n \in live : key[n] # k) /\ AddsEntry(k, v) /\ inserted' = TRUE
               \/ (\E n \in live : key[n] = k) /\ (KeepsEntries \/ Assigns(k, v)) /\ inserted' = FALSE
    <2>1. Free /\ Idle
      BY <1>1 DEF Insert, InsertOrAssign, Free
    <2>2. CASE Find(k) = Null
      <3>1. (\A n \in live : key[n] # k) /\ InsertEntry(k, v, new)
        BY <1>1, <2>1, <2>2, FindIs DEF Insert, InsertOrAssign
      <3>2. /\ new \notin live /\ live' = live \cup {new}
            /\ key' = [key EXCEPT ![new] = k] /\ value' = [value EXCEPT ![new] = v]
            /\ inserted' = TRUE
        BY <3>1 DEF InsertEntry, EmplaceBeforeEffect, EmplaceAfterEffect, NewNode
      <3> QED
        BY <3>1, <3>2 DEF AddsEntry
    <2>3. CASE Find(k) # Null
      <3>1. Find(k) \in live /\ key[Find(k)] = k
        BY <2>1, <2>3, FindIs
      <3>2. CASE Insert(k, v, new)
        BY <2>3, <3>1, <3>2 DEF Insert, KeepsEntries, fields, entries
      <3>3. CASE InsertOrAssign(k, v, new)
        BY <2>3, <3>1, <3>3 DEF InsertOrAssign, Assigns, fields
      <3> QED
        BY <1>1, <3>2, <3>3
    <2> QED
      BY <2>2, <2>3
  <1>2. ASSUME NEW node \in live, EraseIterator(node)
        PROVE  DeletesEntry(node) /\ inserted' = inserted
    BY <1>2 DEF EraseIterator, EraseEffect, DeleteNode, entries, DeletesEntry
  <1>3. ASSUME NEW k \in Key, EraseKey(k)
        PROVE  \E node \in live : DeletesEntry(node) /\ inserted' = inserted
    <2>1. Idle /\ Find(k) # Null /\ EraseIterator(Find(k))
      BY <1>3 DEF EraseKey, EraseIterator, Free
    <2>2. Find(k) \in live
      BY <2>1, FindIs
    <2> QED
      BY <1>2, <2>1, <2>2
  <1>4. ASSUME ScanStep \/ ScanEnd \/ (\E first, last : EraseEntries(first, last))
        PROVE  KeepsEntries /\ inserted' = inserted
    BY <1>4 DEF ScanStep, ScanEnd, EraseEntries, EraseRange, vars, fields, entries, KeepsEntries
  <1>5. ASSUME EraseEntriesLoop
        PROVE  \/ \E node \in live : DeletesEntry(node) /\ inserted' = inserted
               \/ KeepsEntries /\ inserted' = inserted
    <2>1. CASE EraseStep
      <3>1. it \in live
        BY <2>1 DEF EraseStep, InRange, HashInv, ListInv, EraseLoop
      <3> QED
        BY <1>5, <2>1, <3>1 DEF EraseEntriesLoop, EraseStep, DeleteNode, entries, DeletesEntry
    <2>2. CASE EraseEnd
      BY <1>5, <2>2 DEF EraseEntriesLoop, EraseEnd, entries, KeepsEntries
    <2> QED
      BY <1>5, <2>1, <2>2 DEF EraseEntriesLoop
  <1>6. CASE \E k \in Key, v \in Value, new \in Node : Insert(k, v, new) \/ InsertOrAssign(k, v, new)
    BY <1>1, <1>6
  <1> QED
    BY <1>2, <1>3, <1>4, <1>5, <1>6 DEF HNext, Calls

\* A key gets its second entry in no call.
LEMMA UniqueKeysNext == HashInv /\ UniqueKeys /\ HNext => UniqueKeys'
  <1> SUFFICES ASSUME HashInv, UniqueKeys, HNext PROVE UniqueKeys'
    OBVIOUS
  <1>1. DOMAIN key = Node /\ live \subseteq Node
    BY LivePositions DEF HashInv, EntriesInv
  <1>2. ASSUME NEW k \in Key, NEW v \in Value, \A n \in live : key[n] # k, AddsEntry(k, v)
        PROVE  UniqueKeys'
    BY <1>1, <1>2 DEF UniqueKeys, AddsEntry
  <1>3. ASSUME live' \subseteq live, key' = key PROVE UniqueKeys'
    BY <1>3 DEF UniqueKeys
  <1> QED
    BY <1>2, <1>3, CallEffect DEF Assigns, DeletesEntry, KeepsEntries

\* A step of the table with unique keys is a step of the map, or changes nothing
\* of it.
LEMMA MapStep ==
  ASSUME HashInv, UniqueKeys, HNext, HashInv', UniqueKeys', ~multi, multi' = multi
  PROVE  [Map!Next]_(Map!vars)
  <1> DEFINE bar == IF multi THEN [k \in Key |-> Absent] ELSE Contents
             told == ~multi /\ inserted
  <1>1. ContentsOK /\ ContentsOK' /\ DOMAIN key = Node /\ DOMAIN value = Node /\ live \subseteq Node
    <2>1. EntriesInv /\ EntriesInv'
      BY DEF HashInv
    <2>2. ContentsOK
      BY <2>1, ContentsAre
    <2>3. ContentsOK'
      BY <2>1, ContentsAre, PTL
    <2> QED
      BY <2>1, <2>2, <2>3, LivePositions DEF HashInv, EntriesInv
  <1>2. bar = Contents /\ bar' = Contents'
    OBVIOUS
  <1>3. ASSUME NEW k \in Key, NEW v \in Value, \A n \in live : key[n] # k, AddsEntry(k, v),
               inserted' = TRUE
        PROVE  Map!Insert(k, v)
    <2>1. PICK new \in Node : /\ new \notin live /\ live' = live \cup {new}
                              /\ key' = [key EXCEPT ![new] = k] /\ value' = [value EXCEPT ![new] = v]
      BY <1>3 DEF AddsEntry
    <2>2. Contents[k] = Absent
      BY <1>1, <1>3 DEF ContentsOK
    <2>3. ASSUME NEW j \in Key PROVE Contents'[j] = IF j = k THEN v ELSE Contents[j]
      <3>1. CASE j = k
        BY <1>1, <2>1, <3>1 DEF ContentsOK
      <3>2. CASE j # k /\ \E n \in live : key[n] = j
        BY <1>1, <2>1, <3>2 DEF ContentsOK
      <3>3. CASE j # k /\ \A n \in live : key[n] # j
        <4>1. \A n \in live' : key'[n] # j
          BY <1>1, <2>1, <3>3
        <4> QED
          BY <1>1, <3>3, <4>1 DEF ContentsOK
      <3> QED
        BY <3>1, <3>2, <3>3
    <2>4. Contents' = [Contents EXCEPT ![k] = v]
      BY <1>1, <2>3 DEF ContentsOK
    <2>5. told' = TRUE
      BY <1>3
    <2> QED
      BY <1>2, <2>2, <2>4, <2>5 DEF Map!Insert
  <1>4. ASSUME KeepsEntries PROVE Contents' = Contents
    BY <1>4 DEF KeepsEntries, Contents, GetKeyAction, GetDataAction, ActionIterator
  <1>5. ASSUME NEW k \in Key, NEW v \in Value, \E n \in live : key[n] = k,
               KeepsEntries \/ Assigns(k, v), inserted' = FALSE
        PROVE  Map!Insert(k, v) \/ Map!InsertOrAssign(k, v)
    <2>1. Contents[k] # Absent
      BY <1>1, <1>5 DEF ContentsOK
    <2>2. told' = FALSE
      BY <1>5
    <2>3. CASE KeepsEntries
      BY <1>2, <1>4, <2>1, <2>2, <2>3 DEF Map!Insert
    <2>4. CASE Assigns(k, v)
      <3>1. PICK f \in live : /\ key[f] = k /\ live' = live /\ key' = key
                              /\ value' = [value EXCEPT ![f] = v]
        BY <2>4 DEF Assigns
      <3>2. ASSUME NEW j \in Key PROVE Contents'[j] = IF j = k THEN v ELSE Contents[j]
        <4>1. CASE j = k
          BY <1>1, <3>1, <4>1 DEF ContentsOK
        <4>2. CASE j # k /\ \E n \in live : key[n] = j
          BY <1>1, <3>1, <4>2 DEF ContentsOK
        <4>3. CASE j # k /\ \A n \in live : key[n] # j
          BY <1>1, <3>1, <4>3 DEF ContentsOK
        <4> QED
          BY <4>1, <4>2, <4>3
      <3>3. Contents' = [Contents EXCEPT ![k] = v]
        BY <1>1, <3>2 DEF ContentsOK
      <3> QED
        BY <1>2, <2>1, <2>2, <3>3 DEF Map!InsertOrAssign
    <2> QED
      BY <1>5, <2>3, <2>4
  <1>6. ASSUME NEW node \in live, DeletesEntry(node), inserted' = inserted
        PROVE  Map!Erase(key[node]) /\ key[node] \in Key
    <2>1. /\ live' = live \ {node} /\ key' = key /\ value' = value
          /\ key[node] \in Key /\ Contents[key[node]] # Absent
      BY <1>1, <1>6 DEF DeletesEntry, ContentsOK
    <2>2. ASSUME NEW j \in Key PROVE Contents'[j] = IF j = key[node] THEN Absent ELSE Contents[j]
      <3>1. CASE j = key[node]
        <4>1. \A n \in live' : key'[n] # j
          BY <2>1, <3>1 DEF UniqueKeys
        <4> QED
          BY <1>1, <3>1, <4>1 DEF ContentsOK
      <3>2. CASE j # key[node] /\ \E n \in live : key[n] = j
        BY <1>1, <2>1, <3>2 DEF ContentsOK
      <3>3. CASE j # key[node] /\ \A n \in live : key[n] # j
        BY <1>1, <2>1, <3>3 DEF ContentsOK
      <3> QED
        BY <3>1, <3>2, <3>3
    <2>3. Contents' = [Contents EXCEPT ![key[node]] = Absent]
      BY <1>1, <2>2 DEF ContentsOK
    <2>4. told' = told
      BY <1>6
    <2> QED
      BY <1>2, <2>1, <2>3, <2>4 DEF Map!Erase
  <1>7. ASSUME KeepsEntries, inserted' = inserted PROVE UNCHANGED Map!vars
    BY <1>2, <1>4, <1>7 DEF Map!vars
  <1> QED
    BY <1>3, <1>5, <1>6, <1>7, CallEffect DEF Map!Next

-----------------------------------------------------------------------------
(* The theorems, about both tables.                                        *)

\* The invariant, and one entry per key in the table with unique keys.
MCInv == HashInv /\ (~multi => UniqueKeys)

\* The invariant holds from the empty table on.
LEMMA MCInvInit == MCInit => MCInv
  BY HashInvInit DEF MCInit, MCInv, HInit, Init, UniqueKeys

\* Every step of either table keeps the invariant.
LEMMA MCInvNext == MCInv /\ [MCNext /\ UNCHANGED multi]_<<hvars, multi>> => MCInv'
  <1> SUFFICES ASSUME MCInv, [MCNext /\ UNCHANGED multi]_<<hvars, multi>> PROVE MCInv'
    OBVIOUS
  <1>1. HashInv /\ multi' = multi
    BY DEF MCInv
  <1>2. CASE UNCHANGED <<hvars, multi>>
    <2>1. HashInv'
      BY <1>1, <1>2, HashInvNext
    <2>2. live' = live /\ key' = key
      BY <1>2 DEF hvars, vars, fields, entries
    <2> QED
      BY <1>1, <2>1, <2>2 DEF MCInv, UniqueKeys
  <1>3. CASE ~multi /\ HNext
    BY <1>1, <1>3, HashInvNext, UniqueKeysNext DEF MCInv
  <1>4. CASE multi /\ MultiNext
    BY <1>1, <1>4, HashInvNext DEF MCInv
  <1> QED
    BY <1>2, <1>3, <1>4 DEF MCNext

\* The invariant of both tables, at every step of every call.
THEOREM HashInvariant == MCSpec => []MCInv
  BY MCInvInit, MCInvNext, PTL DEF MCSpec

\* The entries of a hash stand together in mKeysList through any sequence of
\* inserts and erases, in both tables.
THEOREM AlwaysContiguous == MCSpec => []Contiguous
  <1>1. MCInv => Contiguous
    BY DEF MCInv, HashInv
  <1> QED
    BY <1>1, HashInvariant, PTL

\* Between calls mTable leads to the first entry of every hash and holds no
\* iterator to a deleted entry.
THEOREM TableAlwaysOK == MCSpec => []TableOK
  <1>1. MCInv => TableOK
    <2> SUFFICES ASSUME MCInv, Free, NEW s \in Slot
                 PROVE  LET mine == {n \in live : tableIterator[n] = s} IN
                        IF mine = {} THEN mTable[s] = Null
                        ELSE /\ mTable[s] \in mine
                             /\ \A n \in mine : pos[mTable[s]] <= pos[n]
      BY DEF TableOK
    <2>1. HeadIn(live, s)
      BY IdleStaying DEF MCInv, HashInv, Free
    <2> QED
      BY <2>1 DEF HeadIn
  <1> QED
    BY <1>1, HashInvariant, PTL

\* find gives an entry of the key exactly when the key has one.
THEOREM FindAlwaysExact == MCSpec => []FindIsExact
  <1>1. MCInv => FindIsExact
    <2> SUFFICES ASSUME MCInv, Free, NEW k \in Key
                 PROVE  IF \E n \in live : key[n] = k
                        THEN Find(k) \in live /\ key[Find(k)] = k
                        ELSE Find(k) = Null
      BY DEF FindIsExact
    <2> QED
      BY FindIs DEF MCInv, Free
  <1> QED
    BY <1>1, HashInvariant, PTL

\* count gives every entry of a key whose hash no other key shares.
THEOREM CountAlwaysExact == MCSpec => []CountIsExact
  <1>1. MCInv => CountIsExact
    <2> SUFFICES ASSUME MCInv, Free, NEW k \in Key
                 PROVE  LET mine == {n \in live : key[n] = k} IN
                        \/ EqualRange(k) = mine
                        \/ EqualRange(k) # {} /\ \E n \in live : key[n] # k /\ Hash[key[n]] = Hash[k]
      BY DEF CountIsExact
    <2> DEFINE mine == {n \in live : key[n] = k}
    <2>1. HashInv /\ Idle /\ ListInv /\ EntriesInv /\ Contiguous
      BY DEF MCInv, HashInv, Free
    <2>2. CASE Find(k) = Null
      BY <2>1, <2>2, FindIs DEF EqualRange
    <2>3. CASE Find(k) # Null
      <3>1. /\ Find(k) \in live /\ key[Find(k)] = k
            /\ \A n \in mine : pos[Find(k)] <= pos[n]
        BY <2>1, <2>3, FindIs
      <3>2. Find(k) \in EqualRange(k)
        BY <2>1, <2>3, <3>1, LivePositions DEF EqualRange
      <3>3. EqualRange(k) \subseteq mine
        BY <2>1, <3>1, LivePositions DEF EqualRange
      <3>4. ASSUME \A n \in live : Hash[key[n]] = Hash[k] => key[n] = k PROVE mine \subseteq EqualRange(k)
        <4>1. ASSUME NEW n \in mine, NEW m \in live, pos[Find(k)] <= pos[m], pos[m] <= pos[n]
              PROVE  key[m] = k
          <5>1. m = Find(k) \/ m = n \/ (pos[Find(k)] < pos[m] /\ pos[m] < pos[n])
            BY <2>1, <3>1, <4>1, LivePositions
          <5>2. tableIterator[Find(k)] = Hash[k] /\ tableIterator[n] = Hash[k]
                /\ tableIterator[m] = Hash[key[m]]
            BY <2>1, <3>1, <4>1 DEF EntriesInv
          <5>3. m = Find(k) \/ m = n \/ tableIterator[m] = Hash[k]
            BY <2>1, <3>1, <4>1, <5>1, <5>2 DEF Contiguous
          <5> QED
            BY <3>1, <3>4, <4>1, <5>2, <5>3
        <4> QED
          BY <2>3, <3>1, <4>1 DEF EqualRange
      <3> QED
        BY <3>2, <3>3, <3>4
    <2> QED
      BY <2>2, <2>3
  <1> QED
    BY <1>1, HashInvariant, PTL

\* The table with unique keys implements the map of MapSpec: its initial state
\* is the empty map, and every step of it, in the middle of a range erase too, is
\* a step of the map or leaves the map alone.
THEOREM TableImplementsMap == MCSpec => ImplementsMap
  <1>1. MCInit => Map!Init
    <2> SUFFICES ASSUME MCInit PROVE Map!Init
      OBVIOUS
    <2>1. live = {} /\ inserted = FALSE
      BY DEF MCInit, HInit, Init
    <2>2. Contents = [k \in Key |-> Absent]
      BY <2>1 DEF Contents, GetKeyAction, ActionIterator
    <2> QED
      BY <2>1, <2>2 DEF Map!Init
  <1>2. MCInv /\ MCInv' /\ [MCNext /\ UNCHANGED multi]_<<hvars, multi>> => [Map!Next]_(Map!vars)
    <2> SUFFICES ASSUME MCInv, MCInv', [MCNext /\ UNCHANGED multi]_<<hvars, multi>>
                 PROVE  [Map!Next]_(Map!vars)
      OBVIOUS
    <2>1. multi' = multi
      OBVIOUS
    <2>2. CASE ~multi /\ HNext
      BY <2>1, <2>2, MapStep DEF MCInv
    <2>3. CASE multi
      BY <2>1, <2>3 DEF Map!vars
    <2>4. CASE UNCHANGED <<hvars, multi>>
      <3>1. live' = live /\ key' = key /\ value' = value /\ inserted' = inserted
        BY <2>4 DEF hvars, vars, fields, entries
      <3>2. Contents' = Contents
        BY <3>1 DEF Contents, GetKeyAction, GetDataAction, ActionIterator
      <3> QED
        BY <2>1, <3>1, <3>2 DEF Map!vars
    <2> QED
      BY <2>2, <2>3, <2>4 DEF MCNext
  <1> QED
    BY <1>1, <1>2, HashInvariant, PTL DEF MCSpec, ImplementsMap, Map!Spec

=============================================================================
