------------------------------ MODULE MapSpec ------------------------------
(***************************************************************************)
(* What Base::HashTable promises: a map from keys to values.               *)
(***************************************************************************)
CONSTANTS Key, Value, Absent

VARIABLES
  map,       \* the value of every key, Absent when it has none
  inserted   \* .first of the last insert's result

vars == <<map, inserted>>

Init == map = [k \in Key |-> Absent] /\ inserted = FALSE

\* insert: it never replaces a value, and says whether the key was new.
Insert(k, v) ==
  /\ map' = IF map[k] = Absent THEN [map EXCEPT ![k] = v] ELSE map
  /\ inserted' = (map[k] = Absent)

\* insertOrAssign: the key has the value afterwards.
InsertOrAssign(k, v) ==
  /\ map' = [map EXCEPT ![k] = v]
  /\ inserted' = (map[k] = Absent)

\* erase removes one key and no other.
Erase(k) ==
  /\ map[k] # Absent
  /\ map' = [map EXCEPT ![k] = Absent]
  /\ UNCHANGED inserted

Next == \E k \in Key : (\E v \in Value : Insert(k, v) \/ InsertOrAssign(k, v)) \/ Erase(k)

Spec == Init /\ [][Next]_vars
=============================================================================
