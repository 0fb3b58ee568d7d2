--------------------------- MODULE MultiHashTable ---------------------------
(***************************************************************************)
(* Base/HashTable.hpp's MultiHashTable, a table whose keys may have many   *)
(* entries, and the hash functions.  Its find and erase are the ones of    *)
(* the base class, in the module extended here.                            *)
(***************************************************************************)
EXTENDS HashTable, SequencesExt

CONSTANT WordValues  \* 2^64: how many values a SizeType has

\* Hash of a number: the cast to SizeType, which wraps a negative one.
TrivialHash(number) == number % WordValues

\* Hash of an array of bytes, and of a vector through its array: djb2.
Djb2(bytes) == FoldLeft(LAMBDA hash, element : (hash * 32 + hash + element) % WordValues, 5381, bytes)

\* getTableEntry, getTableIterator
TableIndex(hash, size) == hash % size

-----------------------------------------------------------------------------
\* insert: after the key's own first entry, else after the first entry of its
\* hash, else at the end of the list.
InsertAfter(first, k) ==
  IF LookupKeyInKeyList(first, k) # Null THEN LookupKeyInKeyList(first, k) ELSE first

MultiInsert(k, v, new) ==
  LET first == mTable[Hash[k]] IN
  /\ Free
  /\ EmplaceAfterEffect(IF first = Null THEN mBeforeEnd ELSE InsertAfter(first, k), new)
  /\ key' = [key EXCEPT ![new] = k]
  /\ value' = [value EXCEPT ![new] = v]
  /\ tableIterator' = [tableIterator EXCEPT ![new] = Hash[k]]
  /\ mTable' = IF first = Null THEN [mTable EXCEPT ![Hash[k]] = new] ELSE mTable
  /\ ret' = new /\ inserted' = TRUE
  /\ UNCHANGED <<locals, erasing>>

\* The entries count and getEqualRange walk over: from find(k), while the key is k.
OneEntry(k) == {n \in live : n = Find(k)}
EqualRange(k) ==
  {n \in live : /\ Find(k) # Null /\ pos[Find(k)] <= pos[n]
                /\ \A m \in live : pos[Find(k)] <= pos[m] /\ pos[m] <= pos[n] => key[m] = k}

Count(k) == Cardinality(EqualRange(k))

\* Where the walk ends.
EqualRangeEnd(k) ==
  LET last == CHOOSE n \in EqualRange(k) : \A m \in EqualRange(k) : pos[m] <= pos[n] IN next[last]

\* erase(key), on the ranges the base's range erase is written for.
MultiErase(k) ==
  /\ Free
  /\ Find(k) # Null
  /\ SafeRange(Find(k), EqualRangeEnd(k))
  /\ EraseEntries(Find(k), EqualRangeEnd(k))

MultiNext ==
  \/ \E k \in Key, v \in Value, new \in Node : MultiInsert(k, v, new)
  \/ \E node \in live : EraseIterator(node)
  \/ \E k \in Key : MultiErase(k)
  \/ ScanStep \/ ScanEnd \/ EraseEntriesLoop

MultiSpec == HInit /\ [][MultiNext]_hvars

-----------------------------------------------------------------------------
\* count(key) and with it erase(key) reach every entry of a key, unless another
\* key of its hash has been put in between: insert puts that one right after the
\* hash's first entry, between the entries of the first key (HashTable.hpp
\* 678-692, 716-736).
CountIsExact ==
  Free =>
    \A k \in Key :
      LET mine == {n \in live : key[n] = k} IN
      \/ EqualRange(k) = mine
      \/ EqualRange(k) # {} /\ \E n \in live : key[n] # k /\ Hash[key[n]] = Hash[k]
=============================================================================
