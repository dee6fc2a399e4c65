------------------------------- MODULE Table -------------------------------
(***************************************************************************)
(* Ecsi's hash table (src/src/table.c): open addressing with linear        *)
(* probing, tombstones for deleted keys, and growth that can be            *)
(* interrupted by a collection.                                            *)
(*                                                                         *)
(* vm.globals and vm.strings are such tables.  A key is a symbol and is    *)
(* compared by its address; no two keys here have the same text, so that   *)
(* tableFindString, which compares texts, looks for one key.  How symbols  *)
(* are interned is in Collector.                                           *)
(***************************************************************************)
EXTENDS Integers, FiniteSets, FiniteSetsExt

CONSTANTS
  Key,           \* symbols
  Val,           \* values
  Nil, True,     \* two of them, NIL_VAL and BOOL_VAL(true)
  NoKey,         \* a NULL key
  Absent,        \* no value: what a failed tableGet gives
  Hash,          \* the hashes that a key can have
  MinCapacity,   \* the capacity of the first array, 8 in GROW_CAPACITY
  MaxCapacity    \* bound: no growth beyond this capacity

ASSUME TableAssumption ==
  /\ Nil \in Val /\ True \in Val /\ Nil # True
  /\ NoKey \notin Key /\ Absent \notin Val /\ Absent \notin BOOLEAN
  /\ Hash \subseteq Nat
  /\ MinCapacity \in Nat /\ MinCapacity >= 4
  /\ MaxCapacity \in Nat

VARIABLES
  hash,      \* the hash field of every key
  entries,   \* table->entries, from 0
  count,     \* table->count
  doing,     \* "nothing", or adjustCapacity's "allocate" and "copy"
  pending,   \* the entry that tableSet is going to store after it has grown
  copy,      \* adjustCapacity's entries
  next,      \* adjustCapacity's i
  answer     \* what the last operation returned

growth == <<doing, pending, copy, next>>
vars == <<hash, entries, count, growth, answer>>

Entry == [key : Key \cup {NoKey}, value : Val]
Empty == [key |-> NoKey, value |-> Nil]
Tombstone == [key |-> NoKey, value |-> True]

Array(capacity) == [i \in 0..(capacity - 1) |-> Empty]
CapacityOf(array) == Cardinality(DOMAIN array)
capacity == CapacityOf(entries)

Init ==
  /\ hash \in [Key -> Hash]
  /\ entries = Array(0) /\ count = 0
  /\ doing = "nothing" /\ pending = Empty /\ copy = Array(0) /\ next = 0
  /\ answer = Absent
-----------------------------------------------------------------------------
(* findEntry.                                                              *)

(* The slot that is tried after n others.  A capacity is a power of two,   *)
(* so that the code can mask where this takes the remainder.               *)
Probe(array, k, n) == (hash[k] + n) % CapacityOf(array)

(* The tries at which the loop can stop. *)
Stops(array, k) ==
  {n \in 0..(CapacityOf(array) - 1) :
     array[Probe(array, k, n)] = Empty \/ array[Probe(array, k, n)].key = k}

(* Fault: the first tombstone is taken without looking any further.        *)
FindEntryEarly(array, k) ==
  LET stop == Min({n \in 0..(CapacityOf(array) - 1) :
                     array[Probe(array, k, n)].key \in {NoKey, k}})
  IN  Probe(array, k, stop)

(* The slot of k, or where k can be stored: the first tombstone on the way *)
(* to an empty slot, or the empty slot.                                    *)
FindEntry(array, k) ==
  LET stop == Min(Stops(array, k))
      tombstones == {n \in 0..stop : array[Probe(array, k, n)] = Tombstone}
      found == array[Probe(array, k, stop)].key = k
  IN  Probe(array, k, IF found \/ tombstones = {} THEN stop ELSE Min(tombstones))

Holds(array, k) == array[FindEntry(array, k)].key = k
-----------------------------------------------------------------------------
Idle == doing = "nothing"

TableGet(k) ==
  /\ Idle
  /\ answer' = IF count = 0 \/ ~Holds(entries, k) THEN Absent
               ELSE entries[FindEntry(entries, k)].value
  /\ UNCHANGED <<hash, entries, count, growth>>

(* tableFindString passes over tombstones and returns a key, or NULL.      *)
TableFindString(k) ==
  /\ Idle
  /\ answer' = (count # 0 /\ entries[Probe(entries, k, Min(Stops(entries, k)))].key = k)
  /\ UNCHANGED <<hash, entries, count, growth>>

(* Fault: a reused tombstone is counted once more.                         *)
StoreCounted(array, used, k, v) ==
  LET i == FindEntry(array, k) IN
  /\ entries' = [array EXCEPT ![i] = [key |-> k, value |-> v]]
  /\ count' = used + (IF array[i].key = NoKey THEN 1 ELSE 0)
  /\ answer' = (array[i].key = NoKey)

(* The end of tableSet: only a slot that was empty is counted.             *)
Store(array, used, k, v) ==
  LET i == FindEntry(array, k) IN
  /\ entries' = [array EXCEPT ![i] = [key |-> k, value |-> v]]
  /\ count' = used + (IF array[i] = Empty THEN 1 ELSE 0)
  /\ answer' = (array[i].key = NoKey)

(* Fault: the table is filled to its last slot.                            *)
IsFullLate == count + 1 > capacity

(* The table is full once three quarters of it are used.                   *)
IsFull == 4 * (count + 1) > 3 * capacity

TableSet(k, v) ==
  /\ Idle /\ ~IsFull
  /\ Store(entries, count, k, v)
  /\ UNCHANGED <<hash, growth>>

(* GROW_CAPACITY.                                                          *)
GrownCapacity == IF capacity < MinCapacity THEN MinCapacity ELSE 2 * capacity

(* Fault: adjustCapacity resets the count before it asks for memory.       *)
TableSetFullEarly(k, v) ==
  /\ Idle /\ IsFull /\ GrownCapacity <= MaxCapacity
  /\ doing' = "allocate"
  /\ pending' = [key |-> k, value |-> v]
  /\ count' = 0
  /\ UNCHANGED <<hash, entries, copy, next, answer>>

TableSetFull(k, v) ==
  /\ Idle /\ IsFull /\ GrownCapacity <= MaxCapacity
  /\ doing' = "allocate"
  /\ pending' = [key |-> k, value |-> v]
  /\ UNCHANGED <<hash, entries, count, copy, next, answer>>

(* adjustCapacity goes on once it has the new array.                       *)
Allocated ==
  /\ doing = "allocate"
  /\ doing' = "copy"
  /\ copy' = Array(GrownCapacity) /\ next' = 0
  /\ count' = 0
  /\ UNCHANGED <<hash, entries, pending, answer>>

CopyEntry ==
  /\ doing = "copy" /\ next < capacity
  /\ next' = next + 1
  /\ LET entry == entries[next] IN
     IF entry.key = NoKey THEN UNCHANGED <<copy, count>>
     ELSE /\ copy' = [copy EXCEPT ![FindEntry(copy, entry.key)] = entry]
          /\ count' = count + 1
  /\ UNCHANGED <<hash, entries, doing, pending, answer>>

(* The new array replaces the old one, and tableSet stores its entry.      *)
FinishTableSet ==
  /\ doing = "copy" /\ next = capacity
  /\ Store(copy, count, pending.key, pending.value)
  /\ doing' = "nothing" /\ pending' = Empty
  /\ copy' = Array(0) /\ next' = 0
  /\ UNCHANGED hash

(* Fault: the slot of a deleted key is made empty.                         *)
DeletedEmptied(dead) ==
  [i \in DOMAIN entries |->
     IF count # 0 /\ \E k \in dead : Holds(entries, k) /\ FindEntry(entries, k) = i
     THEN Empty ELSE entries[i]]

(* tableDelete of each of these keys: tombstones take their place.         *)
Deleted(dead) ==
  [i \in DOMAIN entries |->
     IF count # 0 /\ \E k \in dead : Holds(entries, k) /\ FindEntry(entries, k) = i
     THEN Tombstone ELSE entries[i]]

(* Fault: a deleted key is no longer counted, although its slot is used.   *)
TableDeleteUncounted(k) ==
  /\ Idle
  /\ entries' = Deleted({k})
  /\ count' = IF count # 0 /\ Holds(entries, k) THEN count - 1 ELSE count
  /\ answer' = (count # 0 /\ Holds(entries, k))
  /\ UNCHANGED <<hash, growth>>

TableDelete(k) ==
  /\ Idle
  /\ entries' = Deleted({k})
  /\ answer' = (count # 0 /\ Holds(entries, k))
  /\ UNCHANGED <<hash, count, growth>>

(***************************************************************************)
(* tableRemoveWhite: a collection deletes what is not marked, when the     *)
(* table is at rest or when it waits for its new array.  The key that is   *)
(* to be stored is on the stack.                                           *)
(***************************************************************************)
TableRemoveWhite(dead) ==
  /\ doing \in {"nothing", "allocate"} /\ pending.key \notin dead
  /\ entries' = Deleted(dead)
  /\ UNCHANGED <<hash, count, growth, answer>>

(* The table that freeTable leaves is one that initTable made.             *)
FreeTable ==
  /\ Idle
  /\ entries' = Array(0) /\ count' = 0
  /\ UNCHANGED <<hash, growth, answer>>

Grow == Allocated \/ CopyEntry \/ FinishTableSet

Next ==
  \/ \E k \in Key :
       \/ TableGet(k) \/ TableFindString(k) \/ TableDelete(k)
       \/ \E v \in Val : TableSet(k, v) \/ TableSetFull(k, v)
  \/ Grow
  \/ \E dead \in SUBSET Key \ {{}} : TableRemoveWhite(dead)
  \/ FreeTable

Spec == Init /\ [][Next]_vars
-----------------------------------------------------------------------------
(* The load stays at three quarters at most. *)
TypeOK ==
  /\ hash \in [Key -> Hash]
  /\ \E n \in 0..MaxCapacity : entries \in [0..(n - 1) -> Entry]
  /\ \E n \in 0..MaxCapacity : copy \in [0..(n - 1) -> Entry]
  /\ count \in Nat /\ 4 * count <= 3 * capacity
  /\ doing \in {"nothing", "allocate", "copy"}
  /\ pending \in Entry
  /\ next \in 0..MaxCapacity
  /\ answer \in Val \cup BOOLEAN \cup {Absent}

(* The array that the count is about. *)
Counted == IF doing = "copy" THEN copy ELSE entries

(***************************************************************************)
(* The count is that of the slots in use, tombstones included, through     *)
(* deletions, reused tombstones and growth: neither less, or the table     *)
(* fills up, nor zero while there is something to find or to delete, which *)
(* a collection inside adjustCapacity would then leave in the table.       *)
(***************************************************************************)
CountIsUsed == count = Cardinality({i \in DOMAIN Counted : Counted[i] # Empty})

(***************************************************************************)
(* A key in the table is found where it is: no empty slot has come between *)
(* it and the slot its hash gives, and it is nowhere twice.                *)
(***************************************************************************)
FoundIn(array) ==
  \A i \in DOMAIN array :
    array[i].key # NoKey => FindEntry(array, array[i].key) = i

KeysAreFound == FoundIn(entries) /\ FoundIn(copy)

(***************************************************************************)
(* The loops of findEntry and tableFindString end: an array that they can  *)
(* search has an empty slot.                                               *)
(***************************************************************************)
EndsIn(array) == DOMAIN array # {} => \E i \in DOMAIN array : array[i] = Empty

ProbesEnd == EndsIn(entries) /\ EndsIn(copy)

(***************************************************************************)
(* A collection that is about to free a key gets it out of the table, at   *)
(* rest and also when it runs while the table is growing.                  *)
(***************************************************************************)
DeadKeysLeave ==
  doing \in {"nothing", "allocate"} =>
    \A k \in Key : \A i \in DOMAIN entries : Deleted({k})[i].key # k

(***************************************************************************)
(* The table is a map: every operation answers as a map would, whatever    *)
(* collisions, deletions, growth and collections there were before.        *)
(***************************************************************************)
contents ==
  [k \in Key |->
     LET slots == {i \in DOMAIN entries : entries[i].key = k}
     IN  IF slots = {} THEN Absent ELSE entries[Min(slots)].value]

Map == INSTANCE SymbolMap WITH map <- contents

ImplementsSymbolMap == Map!Spec
=============================================================================
