----------------------------- MODULE HashTable -----------------------------
(***************************************************************************)
(* Base/HashTable.hpp on top of the LinkedList it uses: mTable is a vector *)
(* of list iterators, mKeysList one list in which the entries of a hash    *)
(* (a "mini-list") stand next to each other, the first of them in mTable.  *)
(* mKeysList is LinkedList itself: its variables and its actions' effects  *)
(* are the ones of the module extended here.                               *)
(*                                                                         *)
(* The range erase first walks its range to clear mTable, one entry per    *)
(* step here, then erases the list range.                                  *)
(***************************************************************************)
EXTENDS LinkedList

CONSTANTS
  Key, Value,
  Slot,      \* the indexes of mTable
  Hash,      \* hash(key) % mTable.size() of every key
  Absent     \* the value of a key that is not in the table

ASSUME HashAssumption == Hash \in [Key -> Slot]
ASSUME AbsentAssumption == Absent \notin Value
ASSUME SlotAssumption == Null \notin Slot /\ IsFiniteSet(Slot)  \* mTable is a vector

VARIABLES
  mTable,     \* an iterator per slot; end() when no key has that hash
  key, value, \* PairType::first and ::second of every node
  tableIterator,
  inserted,   \* .first of the last insert's result; .second is ret
  rangeBegin, rangeEnd, \* the arguments of a running range erase, else Null
  scan,       \* its first loop's iterator
  headSlot    \* firstEntryTableIterator while isAFirstEntryRemoved, else Null

entries == <<key, value, tableIterator>>
erasing == <<rangeBegin, rangeEnd, scan, headSlot>>
hvars == <<vars, mTable, entries, inserted, erasing>>

Free == Idle /\ rangeBegin = Null

HInit ==
  /\ Init
  /\ mTable = [s \in Slot |-> Null]
  /\ key \in [Node -> {CHOOSE k \in Key : TRUE}]
  /\ value = [n \in Node |-> Absent]
  /\ tableIterator \in [Node -> {CHOOSE s \in Slot : TRUE}]
  /\ inserted = FALSE
  /\ rangeBegin = Null /\ rangeEnd = Null /\ scan = Null /\ headSlot = Null

-----------------------------------------------------------------------------
\* The nodes lookupKeyInKeyList visits: from first along next while the entries
\* have first's tableIterator; the least set closed under that step.
MiniList(first) ==
  {n \in Node : \A S \in SUBSET Node :
     (/\ first \in S
      /\ \A m \in S : next[m] # Null /\ tableIterator[next[m]] = tableIterator[first]
                      => next[m] \in S)
     => n \in S}

\* lookupKeyInKeyList from a slot's first entry: the first one with the key.
LookupFirstOnly(first, k) == IF first # Null /\ key[first] = k THEN first ELSE Null
LookupKeyInKeyList(first, k) ==
  LET found == {n \in MiniList(first) : key[n] = k} IN
  IF first # Null /\ found # {}
  THEN CHOOSE n \in found : found \subseteq MiniList(n)
  ELSE Null

Find(k) == LookupKeyInKeyList(mTable[Hash[k]], k)

\* Where insert puts a new entry: before the one after the first of its hash,
\* before end() when its hash has none.
AlwaysAtEnd(first) == Null
InsertWhere(first) == IF first = Null THEN Null ELSE next[first]

\* insert of a new key: the mini-list's first entry stays the first.
InsertEntry(k, v, new) ==
  LET first == mTable[Hash[k]] IN
  /\ EmplaceBeforeEffect(InsertWhere(first), new)
  /\ key' = [key EXCEPT ![new] = k]
  /\ value' = [value EXCEPT ![new] = v]
  /\ tableIterator' = [tableIterator EXCEPT ![new] = Hash[k]]
  /\ mTable' = IF first = Null THEN [mTable EXCEPT ![Hash[k]] = new] ELSE mTable
  /\ ret' = new /\ inserted' = TRUE
  /\ UNCHANGED <<locals, erasing>>

\* insert (and operator[], which inserts a default value).
Insert(k, v, new) ==
  /\ Free
  /\ IF Find(k) = Null
     THEN InsertEntry(k, v, new)
     ELSE /\ ret' = Find(k) /\ inserted' = FALSE
          /\ UNCHANGED <<fields, locals, pos, mTable, entries, erasing>>

\* insertOrAssign: insert, and on failure an assignment to what it found.
InsertOrAssign(k, v, new) ==
  /\ Free
  /\ IF Find(k) = Null
     THEN InsertEntry(k, v, new)
     ELSE /\ ret' = Find(k) /\ inserted' = FALSE
          /\ value' = [value EXCEPT ![Find(k)] = v]
          /\ UNCHANGED <<fields, locals, pos, mTable, key, tableIterator, erasing>>

\* updateEraseFirstHashEntryTableEntry
EraseTableEntryAlways(slot, nextEntry) == [mTable EXCEPT ![slot] = Null]
UpdateEraseFirst(slot, nextEntry) ==
  [mTable EXCEPT ![slot] =
     IF nextEntry # Null /\ tableIterator[nextEntry] = slot THEN nextEntry ELSE Null]

\* erase(iterator): nextEntry is whatever LinkedList::erase returned.
EraseIterator(node) ==
  /\ Free
  /\ EraseEffect(node)
  /\ mTable' = IF mTable[tableIterator[node]] = node
               THEN UpdateEraseFirst(tableIterator[node], ret') ELSE mTable
  /\ UNCHANGED <<locals, entries, inserted, erasing>>

\* erase(key)
EraseKey(k) ==
  /\ Find(k) # Null
  /\ EraseIterator(Find(k))

\* erase(begin, end) up to its first loop.
EraseEntries(first, last) ==
  /\ Free
  /\ rangeBegin' = first /\ rangeEnd' = last /\ scan' = first
  /\ ret' = Null
  /\ UNCHANGED <<fields, locals, pos, mTable, entries, inserted, headSlot>>

\* One entry of the first loop: the first entry of a hash is remembered; the
\* first entry of another hash after it clears the slot that was remembered,
\* and is not remembered itself.
ScanStep ==
  /\ rangeBegin # Null
  /\ scan # rangeEnd
  /\ LET slot == tableIterator[scan] IN
     IF headSlot = Null
     THEN /\ headSlot' = IF mTable[slot] = scan THEN slot ELSE Null
          /\ UNCHANGED mTable
     ELSE /\ mTable' = IF slot # headSlot THEN [mTable EXCEPT ![headSlot] = Null] ELSE mTable
          /\ headSlot' = IF slot # headSlot THEN Null ELSE headSlot
  /\ scan' = next[scan]
  /\ UNCHANGED <<vars, entries, inserted, rangeBegin, rangeEnd>>

\* The end of the loop: the slot of the last hash is updated, and the list
\* erases the range.
ScanEnd ==
  /\ rangeBegin # Null
  /\ scan = rangeEnd
  /\ mTable' = IF headSlot = Null THEN mTable ELSE UpdateEraseFirst(headSlot, rangeEnd)
  /\ EraseRange(rangeBegin, rangeEnd)
  /\ rangeBegin' = Null /\ rangeEnd' = Null /\ scan' = Null /\ headSlot' = Null
  /\ UNCHANGED <<entries, inserted>>

\* The list's erase loop.
EraseEntriesLoop ==
  /\ EraseStep \/ EraseEnd
  /\ UNCHANGED <<mTable, entries, inserted, erasing>>

-----------------------------------------------------------------------------
\* Two iterators of the list, the second reachable from the first.
IsRange(first, last) == last # Null => pos[first] < pos[last]

\* The ranges the list's loop is written for: the whole list, or with an entry
\* before and an entry after.
ListRange(first, last) == (previous[first] = Null) = (last = Null)

\* The ones the table's loop is written for as well: they hold the first entry of
\* one hash at most.
SafeRange(first, last) ==
  /\ ListRange(first, last)
  /\ Cardinality({s \in Slot : /\ mTable[s] # Null
                               /\ pos[mTable[s]] >= pos[first]
                               /\ last # Null => pos[mTable[s]] < pos[last]}) <= 1

Calls ==
  \/ \E k \in Key, v \in Value, new \in Node : Insert(k, v, new) \/ InsertOrAssign(k, v, new)
  \/ \E node \in live : EraseIterator(node)
  \/ \E k \in Key : EraseKey(k)
  \/ ScanStep
  \/ ScanEnd
  \/ EraseEntriesLoop

HNext ==
  \/ Calls
  \/ \E first \in live, last \in live \cup {Null} :
       IsRange(first, last) /\ SafeRange(first, last) /\ EraseEntries(first, last)

HSpec == HInit /\ [][HNext]_hvars

\* The range erase of the entries of any hashes, where the list's loop is right.
HNextAnyHashes ==
  \/ Calls
  \/ \E first \in live, last \in live \cup {Null} :
       IsRange(first, last) /\ ListRange(first, last) /\ EraseEntries(first, last)

HSpecAnyHashes == HInit /\ [][HNextAnyHashes]_hvars

-----------------------------------------------------------------------------
(* Properties.                                                             *)

\* The entries of a hash stand next to each other in mKeysList, whatever was
\* inserted and erased before ("The entries in the list come right after
\* another").
Contiguous ==
  \A m, n, o \in live :
    /\ tableIterator[m] = tableIterator[o]
    /\ pos[m] < pos[n] /\ pos[n] < pos[o]
    => tableIterator[n] = tableIterator[m]

\* Between calls mTable leads to the first entry of every hash that has entries,
\* and to end() for the others: no iterator to a deleted entry is left in it.
TableOK ==
  Free =>
    \A s \in Slot :
      LET mine == {n \in live : tableIterator[n] = s} IN
      IF mine = {} THEN mTable[s] = Null
      ELSE /\ mTable[s] \in mine
           /\ \A n \in mine : pos[mTable[s]] <= pos[n]

\* find reaches every key that has an entry, and no other: the walk from the
\* slot's first entry stops neither too early nor at a deleted entry.
FindIsExact ==
  Free =>
    \A k \in Key :
      IF \E n \in live : key[n] = k
      THEN Find(k) \in live /\ key[Find(k)] = k
      ELSE Find(k) = Null

\* What the key and the data iterators give of an entry.
GetKeyAction == [n \in live |-> key[n]]
GetDataAction == [n \in live |-> value[n]]
ActionIterator(mAction, n) == mAction[n]

\* The table as a map: what a walk over it from begin() to end() yields.
Contents ==
  [k \in Key |->
     LET mine == {n \in live : ActionIterator(GetKeyAction, n) = k} IN
     IF mine = {} THEN Absent ELSE ActionIterator(GetDataAction, CHOOSE n \in mine : TRUE)]

\* The range erase leaves no iterator to an erased entry in mTable: "Clear
\* mTable from iterators that going to be invalid soon."
NoDanglingSlot ==
  Free => \A s \in Slot : mTable[s] \in live \cup {Null}

=============================================================================
