---------------------------- MODULE MCHashTable ----------------------------
(***************************************************************************)
(* HashTable, and MultiHashTable, with four keys that share two hashes:    *)
(* the first state chooses the table.                                      *)
(***************************************************************************)
EXTENDS MultiHashTable, TLC

CONSTANTS k1, k2, k3, k4

VARIABLE multi  \* _sAllowMultiKeys

\* Strings of bytes as keys: djb2 gives k1 and k2 one slot of two, k3 and k4 the other.
MCBytes == k1 :> <<1, 7>> @@ k2 :> <<3, 5>> @@ k3 :> <<1>> @@ k4 :> <<1, 2>>
MCHash == [k \in Key |-> TableIndex(Djb2(MCBytes[k]), Cardinality(Slot))]
Symmetry == Permutations(Node)

MCInit == HInit /\ multi \in BOOLEAN
MCNext == (~multi /\ HNext) \/ (multi /\ MultiNext)
MCSpec == MCInit /\ [][MCNext /\ UNCHANGED multi]_<<hvars, multi>>

\* The table with unique keys, and the range erase of the entries of any hashes.
MCSpecAnyHashes == HInit /\ multi = FALSE /\ [][HNextAnyHashes /\ UNCHANGED multi]_<<hvars, multi>>

Map ==
  INSTANCE MapSpec WITH map <- IF multi THEN [k \in Key |-> Absent] ELSE Contents,
                        inserted <- ~multi /\ inserted

\* The table whose keys are unique implements the map of MapSpec: each call
\* changes the keys it is about and no other, and insert tells a new key from an
\* old one.
ImplementsMap == Map!Spec
=============================================================================
