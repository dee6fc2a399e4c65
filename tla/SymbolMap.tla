----------------------------- MODULE SymbolMap -----------------------------
(***************************************************************************)
(* What Ecsi's hash table (src/src/table.h) promises: a map from symbols   *)
(* to values, from which a collection can take symbols away.               *)
(***************************************************************************)
CONSTANTS Key, Val, Absent

VARIABLES
  map,      \* the value of every key, Absent if it has none
  answer    \* what the last operation returned

Init ==
  /\ map = [k \in Key |-> Absent]
  /\ answer = Absent

(* The value, or Absent where the code returns false.                      *)
Get(k) ==
  /\ answer' = map[k]
  /\ UNCHANGED map

(* Whether the key is new.                                                 *)
Set(k, v) ==
  /\ answer' = (map[k] = Absent)
  /\ map' = [map EXCEPT ![k] = v]

(* Whether there was something to delete, or to find.                      *)
Delete(k) ==
  /\ answer' = (map[k] # Absent)
  /\ map' = [map EXCEPT ![k] = Absent]

Find(k) ==
  /\ answer' = (map[k] # Absent)
  /\ UNCHANGED map

(* What a collection does, and the end of the table.                       *)
Forget(dead) ==
  /\ map' = [k \in Key |-> IF k \in dead THEN Absent ELSE map[k]]
  /\ UNCHANGED answer

Next ==
  \/ \E k \in Key : Get(k) \/ Delete(k) \/ Find(k) \/ \E v \in Val : Set(k, v)
  \/ \E dead \in SUBSET Key : Forget(dead)

Spec == Init /\ [][Next]_<<map, answer>>
=============================================================================
