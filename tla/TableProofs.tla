---------------------------- MODULE TableProofs ----------------------------
(***************************************************************************)
(* Proofs about Table, for every set of keys, every hash function and      *)
(* every capacity: probing ends and finds what is there, and the table is  *)
(* a map.                                                                  *)
(***************************************************************************)
EXTENDS Table, NumberProofs, FiniteSetTheorems, WellFoundedInduction, TLAPS

(* Remainders. *)

(* The remainder of a sum.                                                 *)
LEMMA Remainder ==
  ASSUME NEW a \in Nat, NEW c \in Nat \ {0}, NEW n \in 0..(c - 1)
  PROVE  (a + n) % c = IF (a % c) + n < c THEN (a % c) + n ELSE (a % c) + n - c
<1> DEFINE r == a % c
           s == (a + n) % c
           x == a \div c
           y == (a + n) \div c
<1>1. a = c * x + r /\ x \in Int /\ r \in 0..(c - 1)
  OBVIOUS
<1>2. a + n = c * y + s /\ y \in Int /\ s \in 0..(c - 1)
  OBVIOUS
<1> HIDE DEF r, s, x, y
<1>3. ASSUME NEW z \in Int, NEW t \in 0..(c - 1), c * z + t = c * y + s
      PROVE  t = s
  BY <1>2, <1>3, OneRemainder
<1>4. CASE r + n < c
  <2>1. c * x + (r + n) = c * y + s /\ r + n \in 0..(c - 1)
    BY <1>1, <1>2, <1>4
  <2>2. r + n = s
    BY <1>1, <1>3, <2>1
  <2> QED BY <1>4, <2>2 DEF r, s
<1>5. CASE ~(r + n < c)
  <2>1. c * (x + 1) = c * x + c
    BY <1>1
  <2>2. c * (x + 1) + (r + n - c) = c * y + s /\ r + n - c \in 0..(c - 1)
    BY <1>1, <1>2, <1>5, <2>1
  <2>3. r + n - c = s
    <3>1. x + 1 \in Int
      BY <1>1
    <3> QED BY <1>3, <2>2, <3>1
  <2> QED BY <1>5, <2>3 DEF r, s
<1> QED BY <1>4, <1>5

(* The tries go through every slot, and through none twice.                *)
LEMMA TriesReachAll ==
  ASSUME NEW h \in Nat, NEW c \in Nat \ {0}
  PROVE  /\ \A n \in 0..(c - 1) : (h + n) % c \in 0..(c - 1)
         /\ \A i \in 0..(c - 1) : \E n \in 0..(c - 1) : (h + n) % c = i
         /\ \A m, n \in 0..(c - 1) : (h + m) % c = (h + n) % c => m = n
<1> DEFINE q == h % c
<1>1. q \in 0..(c - 1)
  OBVIOUS
<1>2. \A n \in 0..(c - 1) :
        (h + n) % c = IF q + n < c THEN q + n ELSE q + n - c
  BY Remainder
<1> HIDE DEF q
<1>3. ASSUME NEW i \in 0..(c - 1) PROVE \E n \in 0..(c - 1) : (h + n) % c = i
  <2> DEFINE n == IF q <= i THEN i - q ELSE i - q + c
  <2>1. n \in 0..(c - 1)
    BY <1>1
  <2>2. (h + n) % c = IF q + n < c THEN q + n ELSE q + n - c
    BY <1>2, <2>1
  <2>3. (IF q + n < c THEN q + n ELSE q + n - c) = i
    BY <1>1
  <2> QED BY <2>1, <2>2, <2>3
<1>4. ASSUME NEW n \in 0..(c - 1) PROVE (h + n) % c \in 0..(c - 1)
  BY <1>1, <1>2
<1>5. ASSUME NEW m \in 0..(c - 1), NEW n \in 0..(c - 1), (h + m) % c = (h + n) % c
      PROVE  m = n
  BY <1>1, <1>2, <1>5
<1> QED BY <1>3, <1>4, <1>5
-----------------------------------------------------------------------------
(* Arrays, and what findEntry finds in them.                               *)

IsArray(array) ==
  /\ CapacityOf(array) \in Nat
  /\ array \in [0..(CapacityOf(array) - 1) -> Entry]

(* A key is nowhere twice, and no empty slot is tried before its own.      *)
Placed(array) ==
  /\ \A i, j \in DOMAIN array :
       array[i].key # NoKey /\ array[i].key = array[j].key => i = j
  /\ \A k \in Key : \A n \in 0..(CapacityOf(array) - 1) :
       array[Probe(array, k, n)].key = k =>
         \A m \in 0..(n - 1) : array[Probe(array, k, m)] # Empty

Used(array) == {i \in DOMAIN array : array[i] # Empty}

(* What the assumption says of entries.                                    *)
LEMMA Entries ==
  /\ Empty \in Entry /\ Tombstone \in Entry /\ Empty # Tombstone
  /\ Empty.key = NoKey /\ Tombstone.key = NoKey /\ NoKey \notin Key
  BY TableAssumption DEF Entry, Empty, Tombstone

HashesOK == hash \in [Key -> Hash]

(* The capacity is the number of slots, which count from 0.                *)
LEMMA CapacityIs ==
  ASSUME NEW c \in Nat, NEW array, DOMAIN array = 0..(c - 1)
  PROVE  CapacityOf(array) = c
  BY FS_Interval DEF CapacityOf

(* Every array of this capacity is an array.                               *)
LEMMA ArrayOf ==
  ASSUME NEW c \in Nat, NEW array \in [0..(c - 1) -> Entry]
  PROVE  IsArray(array) /\ CapacityOf(array) = c
<1>1. DOMAIN array = 0..(c - 1)
  OBVIOUS
<1>2. CapacityOf(array) = c
  BY <1>1, CapacityIs
<1> QED BY <1>2 DEF IsArray

(* The slots that are tried for a key are those of the array.              *)
LEMMA Tries ==
  ASSUME HashesOK, NEW array, IsArray(array), NEW k \in Key
  PROVE  /\ \A n \in 0..(CapacityOf(array) - 1) :
              Probe(array, k, n) \in DOMAIN array
         /\ \A i \in DOMAIN array : \E n \in 0..(CapacityOf(array) - 1) :
              Probe(array, k, n) = i
         /\ \A m, n \in 0..(CapacityOf(array) - 1) :
              Probe(array, k, m) = Probe(array, k, n) => m = n
<1> DEFINE c == CapacityOf(array)
<1>1. c \in Nat /\ DOMAIN array = 0..(c - 1) /\ hash[k] \in Nat
  BY TableAssumption DEF IsArray, HashesOK
<1> HIDE DEF c
<1>2. CASE c = 0
  BY <1>1, <1>2 DEF c
<1>3. CASE c # 0
  <2>1. c \in Nat \ {0}
    BY <1>1, <1>3
  <2> QED BY <1>1, <2>1, TriesReachAll DEF Probe, c
<1> QED BY <1>2, <1>3

(* A new array is empty.                                                   *)
LEMMA NewArray ==
  ASSUME HashesOK, NEW c \in Nat
  PROVE  /\ IsArray(Array(c)) /\ CapacityOf(Array(c)) = c
         /\ Array(c) \in [0..(c - 1) -> Entry]
         /\ Placed(Array(c)) /\ Used(Array(c)) = {}
<1>1. Array(c) \in [0..(c - 1) -> Entry]
  BY Entries DEF Array
<1>2. IsArray(Array(c)) /\ CapacityOf(Array(c)) = c
  BY <1>1, ArrayOf
<1>3. \A i \in DOMAIN Array(c) : Array(c)[i] = Empty
  BY DEF Array
<1>4. Used(Array(c)) = {}
  BY <1>3 DEF Used
<1>5. ASSUME NEW k \in Key, NEW n \in 0..(CapacityOf(Array(c)) - 1)
      PROVE  Array(c)[Probe(Array(c), k, n)].key = NoKey
  BY <1>2, <1>3, Tries, Entries
<1>6. Placed(Array(c))
  BY <1>3, <1>5, Entries DEF Placed
<1> QED BY <1>1, <1>2, <1>4, <1>6

(* Where the loop of findEntry stops.                                      *)
LEMMA Stop ==
  ASSUME HashesOK, NEW array, IsArray(array), EndsIn(array),
         CapacityOf(array) # 0, NEW k \in Key
  PROVE  /\ Min(Stops(array, k)) \in Stops(array, k)
         /\ \A m \in 0..(Min(Stops(array, k)) - 1) : m \notin Stops(array, k)
<1> DEFINE c == CapacityOf(array)
<1>1. PICK i \in DOMAIN array : array[i] = Empty
  BY DEF EndsIn, IsArray
<1>2. PICK n \in 0..(c - 1) : Probe(array, k, n) = i
  BY <1>1, Tries DEF IsArray
<1>3. Stops(array, k) \subseteq Nat /\ n \in Stops(array, k)
  BY <1>1, <1>2 DEF Stops
<1>4. /\ Min(Stops(array, k)) \in Stops(array, k)
      /\ \A m \in Stops(array, k) : Min(Stops(array, k)) <= m
  BY <1>3, MinIsLeast
<1> QED BY <1>3, <1>4

(***************************************************************************)
(* What findEntry returns: a slot of the array, before which no empty one  *)
(* was tried.  It has the key if any slot has, and is not in use by        *)
(* another one if none has.                                                *)
(***************************************************************************)
LEMMA Found ==
  ASSUME HashesOK, NEW array, IsArray(array), EndsIn(array),
         CapacityOf(array) # 0, Placed(array), NEW k \in Key
  PROVE  /\ FindEntry(array, k) \in DOMAIN array
         /\ \E n \in 0..(CapacityOf(array) - 1) :
              /\ FindEntry(array, k) = Probe(array, k, n)
              /\ \A m \in 0..(n - 1) : array[Probe(array, k, m)] # Empty
         /\ \/ array[FindEntry(array, k)].key = k
            \/ /\ array[FindEntry(array, k)] \in {Empty, Tombstone}
               /\ \A i \in DOMAIN array : array[i].key # k
         /\ \A i \in DOMAIN array : array[i].key = k =>
              i = FindEntry(array, k) /\ i = Probe(array, k, Min(Stops(array, k)))
         /\ array[Probe(array, k, Min(Stops(array, k)))].key = k
              => \E i \in DOMAIN array : array[i].key = k
<1> DEFINE c == CapacityOf(array)
           stop == Min(Stops(array, k))
           tombstones == {n \in 0..stop : array[Probe(array, k, n)] = Tombstone}
           found == array[Probe(array, k, stop)].key = k
           t == IF found \/ tombstones = {} THEN stop ELSE Min(tombstones)
<1>1. /\ stop \in 0..(c - 1)
      /\ array[Probe(array, k, stop)] = Empty \/ found
      /\ \A m \in 0..(stop - 1) :
           array[Probe(array, k, m)] # Empty /\ array[Probe(array, k, m)].key # k
  <2>1. stop \in Stops(array, k) /\ \A m \in 0..(stop - 1) : m \notin Stops(array, k)
    BY Stop
  <2>2. c \in Nat
    BY DEF IsArray
  <2> HIDE DEF stop, c
  <2> QED BY <2>1, <2>2 DEF Stops, c
<1>2. FindEntry(array, k) = Probe(array, k, t)
  BY DEF FindEntry
<1>3. /\ \A n \in 0..(c - 1) : Probe(array, k, n) \in DOMAIN array
      /\ \A i \in DOMAIN array : \E n \in 0..(c - 1) : Probe(array, k, n) = i
      /\ c \in Nat
  BY Tries DEF IsArray
<1> HIDE DEF stop
<1>4. tombstones # {} => Min(tombstones) \in tombstones
  <2>1. tombstones \subseteq Nat
    OBVIOUS
  <2> HIDE DEF tombstones
  <2> QED BY <2>1, MinIsLeast
<1>5. t \in 0..stop /\ (t = stop \/ array[Probe(array, k, t)] = Tombstone)
        /\ (found => t = stop)
  BY <1>1, <1>4
<1> HIDE DEF t
<1>6. ~found => \A i \in DOMAIN array : array[i].key # k
  <2> SUFFICES ASSUME ~found, NEW i \in DOMAIN array, array[i].key = k
               PROVE  FALSE
    OBVIOUS
  <2>1. PICK n \in 0..(c - 1) : Probe(array, k, n) = i
    BY <1>3
  <2>2. \A m \in 0..(n - 1) : array[Probe(array, k, m)] # Empty
    BY <2>1 DEF Placed
  <2>3. stop \notin 0..(n - 1)
    BY <1>1, <2>2
  <2>4. n <= stop /\ n # stop
    BY <1>1, <2>1, <2>3
  <2> QED BY <1>1, <2>1, <2>4
<1>7. found => \A i \in DOMAIN array : array[i].key = k => i = Probe(array, k, stop)
  BY <1>1, <1>3, Entries DEF Placed
<1>8. Probe(array, k, t) \in DOMAIN array /\ Probe(array, k, stop) \in DOMAIN array
  BY <1>1, <1>3, <1>5
<1>9. \A m \in 0..(t - 1) : array[Probe(array, k, m)] # Empty
  BY <1>1, <1>5
<1>10. \/ array[Probe(array, k, t)].key = k
       \/ /\ array[Probe(array, k, t)] \in {Empty, Tombstone}
          /\ \A i \in DOMAIN array : array[i].key # k
  BY <1>1, <1>5, <1>6
<1>11. \A i \in DOMAIN array : array[i].key = k =>
         i = Probe(array, k, t) /\ i = Probe(array, k, stop)
  BY <1>5, <1>6, <1>7
<1>12. stop = Min(Stops(array, k)) /\ t \in 0..(c - 1)
  BY <1>1, <1>3, <1>5 DEF stop
<1> HIDE DEF tombstones
<1>13. found => \E i \in DOMAIN array : array[i].key = k
  BY <1>8
<1>14. \E n \in 0..(c - 1) :
         /\ Probe(array, k, t) = Probe(array, k, n)
         /\ \A m \in 0..(n - 1) : array[Probe(array, k, m)] # Empty
  BY <1>9, <1>12
<1> QED BY <1>2, <1>8, <1>10, <1>11, <1>12, <1>13, <1>14

(* An array that is used to three quarters has an empty slot.              *)
LEMMA HasRoom ==
  ASSUME NEW array, IsArray(array)
  PROVE  /\ IsFiniteSet(Used(array)) /\ Cardinality(Used(array)) \in Nat
         /\ 4 * Cardinality(Used(array)) <= 3 * CapacityOf(array) => EndsIn(array)
         /\ Cardinality(Used(array)) <= CapacityOf(array)
<1> DEFINE c == CapacityOf(array)
<1>1. c \in Nat /\ DOMAIN array = 0..(c - 1)
  BY DEF IsArray
<1>2. IsFiniteSet(DOMAIN array) /\ Cardinality(DOMAIN array) = c
  BY <1>1, FS_Interval DEF CapacityOf
<1>3. Used(array) \in SUBSET DOMAIN array
  BY DEF Used
<1>4. /\ IsFiniteSet(Used(array)) /\ Cardinality(Used(array)) \in Nat
      /\ Cardinality(Used(array)) <= c
  BY <1>2, <1>3, FS_Subset, FS_CardinalityType
<1>5. ASSUME 4 * Cardinality(Used(array)) <= 3 * c, ~EndsIn(array)
      PROVE  FALSE
  <2>1. Used(array) = DOMAIN array /\ DOMAIN array # {}
    BY <1>5 DEF EndsIn, Used
  <2>2. Cardinality(Used(array)) = c /\ c # 0
    BY <1>1, <1>2, <2>1
  <2> QED BY <1>1, <1>5, <2>2
<1> QED BY <1>4, <1>5

(* The end of tableSet, on any array.                                      *)
With(array, k, v) ==
  [array EXCEPT ![FindEntry(array, k)] = [key |-> k, value |-> v]]

(* The key is where it is found, all others where they were, and the       *)
(* count is right.                                                         *)
LEMMA StoredEntry ==
  ASSUME HashesOK, NEW array, IsArray(array), EndsIn(array),
         CapacityOf(array) # 0, Placed(array), NEW k \in Key, NEW v \in Val
  PROVE  /\ IsArray(With(array, k, v))
         /\ CapacityOf(With(array, k, v)) = CapacityOf(array)
         /\ Placed(With(array, k, v))
         /\ Cardinality(Used(With(array, k, v))) = Cardinality(Used(array))
              + (IF array[FindEntry(array, k)] = Empty THEN 1 ELSE 0)
         /\ FindEntry(array, k) \in DOMAIN array
         /\ With(array, k, v)[FindEntry(array, k)] = [key |-> k, value |-> v]
         /\ \A i \in DOMAIN array : i # FindEntry(array, k) =>
              With(array, k, v)[i] = array[i] /\ array[i].key # k
         /\ DOMAIN With(array, k, v) = DOMAIN array
<1> DEFINE stored == With(array, k, v)
<1> DEFINE c == CapacityOf(array)
           e == [key |-> k, value |-> v]
           f == FindEntry(array, k)
<1>1. /\ f \in DOMAIN array
      /\ \E n \in 0..(c - 1) :
           f = Probe(array, k, n) /\ \A m \in 0..(n - 1) : array[Probe(array, k, m)] # Empty
      /\ \A i \in DOMAIN array : array[i].key = k => i = f
  BY Found
<1> HIDE DEF f
<1>2. stored = [array EXCEPT ![f] = e]
  BY DEF f, With
<1> HIDE DEF stored
<1>3. e \in Entry /\ e # Empty /\ e.key = k /\ k # NoKey
  BY Entries DEF Entry
<1> HIDE DEF e
<1>4. c \in Nat /\ array \in [0..(c - 1) -> Entry] /\ DOMAIN array = 0..(c - 1)
  BY DEF IsArray
<1> HIDE DEF c
<1>5. stored \in [0..(c - 1) -> Entry] /\ DOMAIN stored = DOMAIN array
        /\ stored[f] = e /\ \A i \in DOMAIN array : i # f => stored[i] = array[i]
  BY <1>1, <1>2, <1>3, <1>4
<1>6. IsArray(stored) /\ CapacityOf(stored) = c
  BY <1>4, <1>5, ArrayOf
<1>7. Used(stored) = Used(array) \cup {f}
  BY <1>1, <1>3, <1>5 DEF Used
<1>8. Cardinality(Used(stored)) =
        Cardinality(Used(array)) + (IF array[f] = Empty THEN 1 ELSE 0)
  <2>1. IsFiniteSet(Used(array)) /\ Cardinality(Used(array)) \in Nat
    BY HasRoom
  <2>2. Cardinality(Used(array) \cup {f}) =
          IF f \in Used(array) THEN Cardinality(Used(array))
          ELSE Cardinality(Used(array)) + 1
    BY <2>1, FS_AddElement
  <2>3. f \in Used(array) <=> array[f] # Empty
    BY <1>1 DEF Used
  <2>4. CASE array[f] = Empty
    BY <1>7, <2>2, <2>3, <2>4
  <2>5. CASE array[f] # Empty
    <3>1. Used(stored) = Used(array)
      BY <1>7, <2>3, <2>5
    <3> QED BY <2>1, <2>5, <3>1
  <2> QED BY <2>4, <2>5
<1>9. /\ \A kk \in Key : \A n \in 0..(c - 1) : Probe(array, kk, n) \in DOMAIN array
      /\ \A kk \in Key : \A m, n \in 0..(c - 1) :
           Probe(array, kk, m) = Probe(array, kk, n) => m = n
      /\ \A kk \in Key, n \in Int : Probe(stored, kk, n) = Probe(array, kk, n)
  BY <1>6, Tries DEF Probe, c
<1>10. Placed(stored)
  <2>1. ASSUME NEW i \in DOMAIN stored, NEW j \in DOMAIN stored,
               stored[i].key # NoKey, stored[i].key = stored[j].key
        PROVE  i = j
    <3>1. \A x \in DOMAIN array : x = f \/ (stored[x] = array[x] /\ array[x].key # k)
      BY <1>1, <1>5
    <3>2. \A x, y \in DOMAIN array :
            array[x].key # NoKey /\ array[x].key = array[y].key => x = y
      BY DEF Placed
    <3> QED BY <1>3, <1>5, <2>1, <3>1, <3>2
  <2>2. ASSUME NEW kk \in Key, NEW n \in 0..(c - 1),
               stored[Probe(array, kk, n)].key = kk,
               NEW m \in 0..(n - 1)
        PROVE  stored[Probe(array, kk, m)] # Empty
    <3>1. Probe(array, kk, m) \in DOMAIN array /\ Probe(array, kk, n) \in DOMAIN array
      BY <1>4, <1>9
    <3>2. CASE Probe(array, kk, n) = f
      <4>1. kk = k
        BY <1>3, <1>5, <2>2, <3>2
      <4>2. array[Probe(array, kk, m)] # Empty
        BY <1>1, <1>9, <3>2, <4>1
      <4> QED BY <1>3, <1>5, <3>1, <4>2
    <3>3. CASE Probe(array, kk, n) # f
      <4>1. array[Probe(array, kk, n)].key = kk
        BY <1>5, <2>2, <3>1, <3>3
      <4>2. array[Probe(array, kk, m)] # Empty
        BY <4>1 DEF Placed, c
      <4> QED BY <1>3, <1>5, <3>1, <4>2
    <3> QED BY <3>2, <3>3
  <2>3. ASSUME NEW kk \in Key, NEW n \in 0..(CapacityOf(stored) - 1),
               stored[Probe(stored, kk, n)].key = kk
        PROVE  \A m \in 0..(n - 1) : stored[Probe(stored, kk, m)] # Empty
    <3>1. n \in 0..(c - 1) /\ stored[Probe(array, kk, n)].key = kk
      BY <1>6, <2>3 DEF Probe, c
    <3>2. ASSUME NEW m \in 0..(n - 1)
          PROVE  stored[Probe(stored, kk, m)] # Empty
      <4>1. stored[Probe(array, kk, m)] # Empty
        BY <2>2, <3>1
      <4> QED BY <1>6, <4>1 DEF Probe, c
    <3> QED BY <3>2
  <2> QED BY <2>1, <2>3 DEF Placed
<1> QED BY <1>1, <1>5, <1>6, <1>8, <1>10 DEF c, e, f, stored

(* Tombstones for some keys leave every other one where it is found.       *)
Without(array, dead) ==
  [i \in DOMAIN array |-> IF array[i].key \in dead THEN Tombstone ELSE array[i]]

(* Keys stay in their places, and as many slots stay in use.               *)
LEMMA WithoutKeys ==
  ASSUME HashesOK, NEW array, IsArray(array), Placed(array),
         NEW dead \in SUBSET Key
  PROVE  /\ IsArray(Without(array, dead))
         /\ CapacityOf(Without(array, dead)) = CapacityOf(array)
         /\ Placed(Without(array, dead)) /\ Used(Without(array, dead)) = Used(array)
<1> DEFINE c == CapacityOf(array)
           w == Without(array, dead)
<1>1. c \in Nat /\ array \in [0..(c - 1) -> Entry] /\ DOMAIN array = 0..(c - 1)
  BY DEF IsArray
<1> HIDE DEF c
<1>2. /\ w \in [0..(c - 1) -> Entry] /\ DOMAIN w = DOMAIN array
      /\ \A i \in DOMAIN array : IF array[i].key \in dead THEN w[i] = Tombstone
                                 ELSE w[i] = array[i]
  BY <1>1, Entries DEF Without
<1> HIDE DEF w
<1>3. IsArray(w) /\ CapacityOf(w) = c
  BY <1>1, <1>2, ArrayOf
<1>4. \A i \in DOMAIN array :
        /\ w[i] = Empty <=> array[i] = Empty
        /\ w[i].key # NoKey => w[i] = array[i]
  BY <1>2, Entries
<1>5. Used(w) = Used(array)
  BY <1>2, <1>4 DEF Used
<1>6. /\ \A k \in Key : \A n \in 0..(c - 1) : Probe(array, k, n) \in DOMAIN array
      /\ \A k \in Key, n \in Int : Probe(w, k, n) = Probe(array, k, n)
  BY <1>3, Tries DEF Probe, c
<1>7. Placed(w)
  <2>1. \A i, j \in DOMAIN w :
          w[i].key # NoKey /\ w[i].key = w[j].key => i = j
    BY <1>2, <1>4 DEF Placed
  <2>2. ASSUME NEW k \in Key, NEW n \in 0..(c - 1),
               w[Probe(array, k, n)].key = k, NEW m \in 0..(n - 1)
        PROVE  w[Probe(array, k, m)] # Empty
    <3>1. m \in 0..(c - 1)
      BY <1>1
    <3>2. array[Probe(array, k, n)].key = k
      BY <1>4, <1>6, <2>2, Entries
    <3>3. array[Probe(array, k, m)] # Empty
      BY <3>2 DEF Placed, c
    <3> QED BY <1>4, <1>6, <3>1, <3>3
  <2> QED BY <1>3, <1>6, <2>1, <2>2 DEF Placed
<1> QED BY <1>3, <1>5, <1>7 DEF c, w
-----------------------------------------------------------------------------
(* The inductive invariant.                                                *)

ArraysOK ==
  /\ HashesOK
  /\ IsArray(entries) /\ capacity <= MaxCapacity
  /\ capacity = 0 \/ capacity >= MinCapacity
  /\ Placed(entries)
  /\ IsArray(copy) /\ CapacityOf(copy) <= MaxCapacity

(* Three quarters of the table are used at most, also while count counts   *)
(* the new array.                                                          *)
CountOK ==
  /\ 4 * Cardinality(Used(entries)) <= 3 * capacity
  /\ doing # "copy" => count = Cardinality(Used(entries))

GrowthOK ==
  /\ doing \in {"nothing", "allocate", "copy"}
  /\ pending \in Entry /\ next \in 0..MaxCapacity
  /\ answer \in Val \cup BOOLEAN \cup {Absent}
  /\ doing # "copy" => copy = Array(0)
  /\ doing # "nothing" => pending.key \in Key /\ GrownCapacity <= MaxCapacity

(* The keys that have been copied.                                         *)
Passed(n) == {i \in 0..(n - 1) : entries[i].key # NoKey}

(* The new array has exactly the keys below next, and no tombstone; there  *)
(* are not more of them than the old array has.                            *)
CopyOK ==
  doing = "copy" =>
    /\ next \in 0..capacity /\ CapacityOf(copy) = GrownCapacity
    /\ Placed(copy)
    /\ count = Cardinality(Used(copy)) /\ count <= Cardinality(Passed(next))
    /\ \A j \in Used(copy) : \E i \in Passed(next) : entries[i] = copy[j]
    /\ \A i \in Passed(next) : \E j \in Used(copy) : entries[i] = copy[j]

IInv == ArraysOK /\ CountOK /\ GrowthOK /\ CopyOK

(* Placed, of any hashes.                                                  *)
PlacedBy(h, array) ==
  /\ \A i, j \in DOMAIN array :
       array[i].key # NoKey /\ array[i].key = array[j].key => i = j
  /\ \A k \in Key : \A n \in 0..(CapacityOf(array) - 1) :
       array[(h[k] + n) % CapacityOf(array)].key = k =>
         \A m \in 0..(n - 1) : array[(h[k] + m) % CapacityOf(array)] # Empty

(* A step that keeps the hashes keeps what Placed says of an array.        *)
LEMMA PlacedIs ==
  /\ \A array : Placed(array) <=> PlacedBy(hash, array)
  /\ Placed(entries)' <=> PlacedBy(hash', entries')
  /\ Placed(copy)' <=> PlacedBy(hash', copy')
  BY DEF Placed, PlacedBy, Probe

(* The array that tableSet asks for has room for one entry more.           *)
LEMMA Capacities ==
  ASSUME IInv
  PROVE  /\ capacity \in Nat /\ CapacityOf(copy) \in Nat /\ GrownCapacity \in Nat
         /\ GrownCapacity >= MinCapacity /\ GrownCapacity > capacity
         /\ 3 * GrownCapacity >= 3 * capacity + 4
         /\ MinCapacity \in Nat /\ MinCapacity >= 4 /\ MaxCapacity \in Nat
         /\ DOMAIN entries = 0..(capacity - 1)
         /\ DOMAIN copy = 0..(CapacityOf(copy) - 1)
<1>1. /\ capacity \in Nat /\ CapacityOf(copy) \in Nat
      /\ MinCapacity \in Nat /\ MinCapacity >= 4 /\ MaxCapacity \in Nat
      /\ capacity = 0 \/ capacity >= MinCapacity
      /\ DOMAIN entries = 0..(capacity - 1)
      /\ DOMAIN copy = 0..(CapacityOf(copy) - 1)
  BY TableAssumption DEF IInv, ArraysOK, IsArray, capacity
<1> QED BY <1>1 DEF GrownCapacity

(* There is always room in the table.                                      *)
LEMMA TableEnds ==
  ASSUME IInv
  PROVE  EndsIn(entries) /\ IsFiniteSet(Used(entries))
           /\ Cardinality(Used(entries)) \in Nat
  BY HasRoom DEF IInv, ArraysOK, CountOK, capacity

(* The keys of the table are no more than its slots in use.                *)
LEMMA PassedAreUsed ==
  ASSUME IInv, NEW n \in 0..capacity
  PROVE  /\ IsFiniteSet(Passed(n)) /\ Cardinality(Passed(n)) \in Nat
         /\ Cardinality(Passed(n)) <= Cardinality(Used(entries))
         /\ Passed(n) \subseteq DOMAIN entries
<1>1. capacity \in Nat /\ DOMAIN entries = 0..(capacity - 1)
  BY Capacities
<1>2. Passed(n) \in SUBSET Used(entries) /\ Passed(n) \subseteq DOMAIN entries
  BY <1>1, Entries DEF Passed, Used
<1> QED BY <1>2, TableEnds, FS_Subset, FS_CardinalityType

(* The new array has room while it is filled.                              *)
LEMMA CopyEnds ==
  ASSUME IInv, doing = "copy"
  PROVE  /\ EndsIn(copy) /\ CapacityOf(copy) # 0 /\ count \in Nat
         /\ 4 * (count + 1) <= 3 * CapacityOf(copy)
<1>1. /\ next \in 0..capacity /\ CapacityOf(copy) = GrownCapacity
      /\ count = Cardinality(Used(copy)) /\ count <= Cardinality(Passed(next))
      /\ IsArray(copy) /\ 4 * Cardinality(Used(entries)) <= 3 * capacity
  BY DEF IInv, CopyOK, ArraysOK, CountOK
<1>2. /\ count \in Nat
      /\ 4 * Cardinality(Used(copy)) <= 3 * CapacityOf(copy) => EndsIn(copy)
  BY <1>1, HasRoom
<1>3. Cardinality(Passed(next)) \in Nat /\ Cardinality(Used(entries)) \in Nat
        /\ Cardinality(Passed(next)) <= Cardinality(Used(entries))
  BY <1>1, PassedAreUsed, TableEnds
<1>4. 4 * (count + 1) <= 3 * CapacityOf(copy) /\ CapacityOf(copy) # 0
  BY <1>1, <1>2, <1>3, Capacities
<1> QED BY <1>1, <1>2, <1>4, Capacities
-----------------------------------------------------------------------------
(* The invariant holds at first and in every step.                         *)

(* A new table, which has no slots.                                        *)
LEMMA InitIInv == Init => IInv
<1> SUFFICES ASSUME Init PROVE IInv
  OBVIOUS
<1>1. HashesOK /\ entries = Array(0) /\ copy = Array(0) /\ next = 0 /\ count = 0
        /\ doing = "nothing" /\ pending = Empty /\ answer = Absent
  BY DEF Init, HashesOK
<1>2. /\ IsArray(Array(0)) /\ CapacityOf(Array(0)) = 0
      /\ Placed(Array(0)) /\ Cardinality(Used(Array(0))) = 0
  BY <1>1, NewArray, FS_EmptySet
<1>3. MaxCapacity \in Nat
  BY TableAssumption
<1> QED BY <1>1, <1>2, <1>3, Entries
        DEF IInv, ArraysOK, CountOK, GrowthOK, CopyOK, capacity

(* A step that leaves the table alone.                                     *)
LEMMA ReadStep ==
  ASSUME IInv, UNCHANGED <<hash, entries, count, growth>>,
         answer' \in Val \cup BOOLEAN \cup {Absent}
  PROVE  IInv'
<1>1. /\ UNCHANGED <<hash, entries, count, doing, pending, copy, next>>
      /\ Placed(entries)' <=> Placed(entries)
      /\ Placed(copy)' <=> Placed(copy)
  BY PlacedIs DEF growth
<1> QED BY <1>1 DEF IInv, ArraysOK, CountOK, GrowthOK, CopyOK, HashesOK, IsArray,
                    CapacityOf, capacity, Used, Passed, GrownCapacity

(* The end of tableSet, on the table or on the array that replaces it.     *)
LEMMA StoreStep ==
  ASSUME IInv, NEW array, IsArray(array), EndsIn(array), Placed(array),
         CapacityOf(array) # 0, CapacityOf(array) >= MinCapacity,
         CapacityOf(array) <= MaxCapacity,
         NEW used, used = Cardinality(Used(array)),
         4 * (used + 1) <= 3 * CapacityOf(array),
         NEW k \in Key, NEW v \in Val, Store(array, used, k, v),
         hash' = hash, doing' = "nothing", pending' \in Entry,
         copy' = Array(0), next' \in 0..MaxCapacity
  PROVE  IInv'
<1>1. /\ entries' = With(array, k, v)
      /\ count' = used + (IF array[FindEntry(array, k)] = Empty THEN 1 ELSE 0)
      /\ answer' = (array[FindEntry(array, k)].key = NoKey)
  BY DEF Store, With
<1>2. HashesOK
  BY DEF IInv, ArraysOK
<1>3. /\ IsArray(entries') /\ CapacityOf(entries') = CapacityOf(array)
      /\ Placed(entries') /\ count' = Cardinality(Used(entries'))
  <2>1. /\ IsArray(entries') /\ CapacityOf(entries') = CapacityOf(array)
        /\ Placed(entries')
        /\ Cardinality(Used(entries')) = Cardinality(Used(array))
             + (IF array[FindEntry(array, k)] = Empty THEN 1 ELSE 0)
    <3> DEFINE stored == With(array, k, v)
    <3>1. entries' = stored
      BY <1>1
    <3>2. IsArray(stored)
      BY <1>2, StoredEntry
    <3>3. CapacityOf(stored) = CapacityOf(array)
      <4>1. DOMAIN stored = DOMAIN array
        BY DEF With
      <4> QED BY <4>1 DEF CapacityOf
    <3>4. Placed(stored)
      BY <1>2, StoredEntry
    <3>5. Cardinality(Used(stored)) = Cardinality(Used(array))
               + (IF array[FindEntry(array, k)] = Empty THEN 1 ELSE 0)
      BY <1>2, StoredEntry
    <3> HIDE DEF stored
    <3> QED BY <3>1, <3>2, <3>3, <3>4, <3>5
  <2> QED BY <1>1, <2>1
<1>4. Placed(entries)'
  BY <1>3, PlacedIs
<1>5. /\ IsArray(copy') /\ CapacityOf(copy') = 0
  BY <1>2, NewArray
<1>6. used \in Nat /\ count' <= used + 1 /\ count' \in Nat
  BY <1>1, HasRoom
<1>7. HashesOK'
  BY <1>2 DEF HashesOK
<1>8. CapacityOf(array) \in Nat
  BY DEF IsArray
<1>9. ArraysOK'
  <2>1. IsArray(entries)' /\ IsArray(copy)' /\ capacity' = CapacityOf(array)
          /\ CapacityOf(copy)' = 0
    BY <1>3, <1>5 DEF IsArray, CapacityOf, capacity
  <2> QED BY <1>4, <1>7, <2>1, TableAssumption DEF ArraysOK
<1>10. CountOK'
  BY <1>3, <1>6, <1>8 DEF CountOK, Used, capacity, CapacityOf
<1>11. GrowthOK'
  BY <1>1 DEF GrowthOK, Array
<1> QED BY <1>9, <1>10, <1>11 DEF IInv, CopyOK

(* tableSet in a table that is not full, and so has an array.              *)
LEMMA TableSetStep ==
  ASSUME IInv, NEW k \in Key, NEW v \in Val, TableSet(k, v)
  PROVE  IInv'
<1>1. /\ doing = "nothing" /\ ~IsFull /\ Store(entries, count, k, v)
      /\ hash' = hash /\ UNCHANGED growth
  BY DEF TableSet, Idle
<1>2. /\ count = Cardinality(Used(entries)) /\ copy = Array(0)
      /\ IsArray(entries) /\ Placed(entries) /\ capacity <= MaxCapacity
      /\ capacity = 0 \/ capacity >= MinCapacity
      /\ pending \in Entry /\ next \in 0..MaxCapacity
  BY <1>1 DEF IInv, CountOK, GrowthOK, ArraysOK
<1>3. EndsIn(entries) /\ count \in Nat /\ capacity \in Nat
  BY <1>2, TableEnds, Capacities
<1>4. 4 * (count + 1) <= 3 * capacity
  BY <1>1, <1>3 DEF IsFull
<1>5. capacity # 0 /\ capacity >= MinCapacity
  BY <1>2, <1>3, <1>4
<1>6. doing' = "nothing" /\ pending' \in Entry /\ copy' = Array(0)
        /\ next' \in 0..MaxCapacity
  BY <1>1, <1>2 DEF growth
<1> QED BY <1>1, <1>2, <1>3, <1>4, <1>5, <1>6, StoreStep DEF capacity

(* tableSet in a full table: nothing is touched before there is memory.    *)
LEMMA TableSetFullStep ==
  ASSUME IInv, NEW k \in Key, NEW v \in Val, TableSetFull(k, v)
  PROVE  IInv'
<1>1. /\ doing = "nothing" /\ GrownCapacity <= MaxCapacity /\ doing' = "allocate"
      /\ pending' = [key |-> k, value |-> v]
      /\ UNCHANGED <<hash, entries, count, copy, next, answer>>
  BY DEF TableSetFull, Idle
<1>2. Placed(entries)' <=> Placed(entries)
  BY <1>1, PlacedIs
<1>3. pending' \in Entry /\ pending'.key \in Key
  BY <1>1 DEF Entry
<1> QED BY <1>1, <1>2, <1>3
        DEF IInv, ArraysOK, CountOK, GrowthOK, CopyOK, HashesOK, IsArray,
            CapacityOf, capacity, Used, GrownCapacity

(* adjustCapacity has its array, and counts from zero.                     *)
LEMMA AllocatedStep == ASSUME IInv, Allocated PROVE IInv'
<1>1. /\ doing = "allocate" /\ doing' = "copy"
      /\ copy' = Array(GrownCapacity) /\ next' = 0 /\ count' = 0
      /\ UNCHANGED <<hash, entries, pending, answer>>
  BY DEF Allocated
<1>2. /\ IsArray(copy') /\ CapacityOf(copy') = GrownCapacity
      /\ Placed(copy') /\ Used(copy') = {}
  <2>1. HashesOK /\ GrownCapacity \in Nat
    BY Capacities DEF IInv, ArraysOK
  <2> QED BY <1>1, <2>1, NewArray
<1>3. Placed(entries)' <=> Placed(entries)
  BY <1>1, PlacedIs
<1>4. Placed(copy)'
  BY <1>1, <1>2, PlacedIs
<1>5. GrownCapacity <= MaxCapacity /\ GrownCapacity' = GrownCapacity
        /\ capacity \in Nat /\ MaxCapacity \in Nat
  BY <1>1, Capacities DEF IInv, GrowthOK, GrownCapacity, capacity, CapacityOf
<1>6. ArraysOK'
  BY <1>1, <1>2, <1>3, <1>5
     DEF IInv, ArraysOK, HashesOK, IsArray, CapacityOf, capacity
<1>7. CountOK' /\ GrowthOK'
  BY <1>1, <1>5 DEF IInv, CountOK, GrowthOK, Used, capacity, CapacityOf
<1>8. CopyOK'
  <2>1. Passed(0)' = {} /\ Passed(next)' = Passed(0)' /\ Used(copy)' = {}
    BY <1>1, <1>2 DEF Passed, Used
  <2>2. Cardinality(Passed(next)') = 0 /\ Cardinality(Used(copy)') = 0
    BY <2>1, FS_EmptySet
  <2>3. CapacityOf(copy)' = GrownCapacity' /\ next' \in 0..capacity'
    BY <1>1, <1>2, <1>5 DEF CapacityOf, capacity
  <2> QED BY <1>1, <1>4, <2>1, <2>2, <2>3 DEF CopyOK
<1> QED BY <1>6, <1>7, <1>8 DEF IInv

(* All keys are copied, and there is room for the new one.                 *)
LEMMA FinishTableSetStep == ASSUME IInv, FinishTableSet PROVE IInv'
<1>1. /\ doing = "copy" /\ Store(copy, count, pending.key, pending.value)
      /\ doing' = "nothing" /\ pending' = Empty /\ copy' = Array(0) /\ next' = 0
      /\ hash' = hash
  BY DEF FinishTableSet
<1>2. /\ IsArray(copy) /\ Placed(copy) /\ CapacityOf(copy) = GrownCapacity
      /\ count = Cardinality(Used(copy)) /\ CapacityOf(copy) <= MaxCapacity
      /\ pending.key \in Key /\ pending.value \in Val
  BY <1>1 DEF IInv, ArraysOK, CopyOK, GrowthOK, Entry
<1>3. /\ EndsIn(copy) /\ CapacityOf(copy) # 0
      /\ 4 * (count + 1) <= 3 * CapacityOf(copy)
  BY <1>1, CopyEnds
<1>4. CapacityOf(copy) >= MinCapacity /\ MaxCapacity \in Nat
  BY <1>2, Capacities
<1>5. pending' \in Entry /\ next' \in 0..MaxCapacity
  BY <1>1, <1>4, Entries
<1> QED BY <1>1, <1>2, <1>3, <1>4, <1>5, StoreStep

(* What a deletion leaves: tombstones exactly where the dead keys were.    *)
LEMMA DeletedIs ==
  ASSUME IInv, doing # "copy", NEW dead \in SUBSET Key
  PROVE  Deleted(dead) = Without(entries, dead)
<1>1. /\ HashesOK /\ IsArray(entries) /\ Placed(entries)
      /\ count = Cardinality(Used(entries)) /\ EndsIn(entries)
      /\ IsFiniteSet(Used(entries))
  BY TableEnds DEF IInv, ArraysOK, CountOK
<1>2. ASSUME NEW i \in DOMAIN entries
      PROVE  count # 0 /\ (\E k \in dead : Holds(entries, k) /\ FindEntry(entries, k) = i)
               <=> entries[i].key \in dead
  <2>1. capacity # 0
    BY Capacities
  <2>2. ASSUME NEW k \in dead, Holds(entries, k), FindEntry(entries, k) = i
        PROVE  entries[i].key \in dead
    BY <2>2 DEF Holds
  <2>3. ASSUME entries[i].key \in dead
        PROVE  count # 0 /\ \E k \in dead : Holds(entries, k) /\ FindEntry(entries, k) = i
    <3> DEFINE k == entries[i].key
    <3>1. i = FindEntry(entries, k)
      BY <1>1, <2>1, <2>3, Found DEF capacity
    <3>2. i \in Used(entries)
      BY <2>3, Entries DEF Used
    <3>3. count # 0
      BY <1>1, <3>2, FS_EmptySet
    <3> QED BY <2>3, <3>1, <3>3 DEF Holds
  <2> QED BY <2>2, <2>3
<1> QED BY <1>2, Zenon DEF Deleted, Without

(* tableDelete and tableRemoveWhite, also while memory is waited for.      *)
LEMMA DeletedStep ==
  ASSUME IInv, doing # "copy", NEW dead \in SUBSET Key, entries' = Deleted(dead),
         UNCHANGED <<hash, count, growth>>,
         answer' \in Val \cup BOOLEAN \cup {Absent}
  PROVE  IInv'
<1>1. /\ entries' = Without(entries, dead)
      /\ UNCHANGED <<hash, count, doing, pending, copy, next>>
  BY DeletedIs DEF growth
<1>2. /\ IsArray(entries') /\ CapacityOf(entries') = CapacityOf(entries)
      /\ Placed(entries') /\ Used(entries') = Used(entries)
  BY <1>1, WithoutKeys DEF IInv, ArraysOK
<1>3. Placed(entries)'
  BY <1>1, <1>2, PlacedIs
<1>4. capacity' = capacity /\ Used(entries)' = Used(entries)
        /\ GrownCapacity' = GrownCapacity
  BY <1>2 DEF capacity, CapacityOf, Used, GrownCapacity
<1>5. ArraysOK'
  BY <1>1, <1>2, <1>3, <1>4 DEF IInv, ArraysOK, HashesOK, IsArray, CapacityOf
<1> QED BY <1>1, <1>4, <1>5 DEF IInv, CountOK, GrowthOK, CopyOK, Array

(* A table without an array is as good as a new one.                       *)
LEMMA FreeTableStep == ASSUME IInv, FreeTable PROVE IInv'
<1>1. /\ doing = "nothing" /\ entries' = Array(0) /\ count' = 0
      /\ UNCHANGED <<hash, doing, pending, copy, next, answer>>
  BY DEF FreeTable, Idle, growth
<1>2. /\ IsArray(entries') /\ CapacityOf(entries') = 0 /\ Placed(entries')
      /\ Cardinality(Used(entries')) = 0
  BY <1>1, NewArray, FS_EmptySet DEF IInv, ArraysOK
<1>3. Placed(entries)'
  BY <1>1, <1>2, PlacedIs
<1>4. capacity' = 0 /\ Used(entries)' = Used(entries') /\ MaxCapacity \in Nat
  BY <1>2, TableAssumption DEF capacity, CapacityOf, Used
<1>5. ArraysOK'
  BY <1>1, <1>2, <1>3, <1>4 DEF IInv, ArraysOK, HashesOK, IsArray, CapacityOf
<1> QED BY <1>1, <1>2, <1>4, <1>5 DEF IInv, CountOK, GrowthOK, CopyOK, Array

(* Copying one more entry.  Its key is new to the array, in which it takes *)
(* an empty slot.                                                          *)
LEMMA CopyEntryStep == ASSUME IInv, CopyEntry PROVE IInv'
<1> DEFINE entry == entries[next]
           slot == FindEntry(copy, entry.key)
<1>1. /\ doing = "copy" /\ next < capacity /\ next' = next + 1
      /\ IF entry.key = NoKey THEN UNCHANGED <<copy, count>>
         ELSE /\ copy' = [copy EXCEPT ![slot] = entry]
              /\ count' = count + 1
      /\ UNCHANGED <<hash, entries, doing, pending, answer>>
  BY DEF CopyEntry
<1>2. /\ HashesOK /\ IsArray(entries) /\ Placed(entries)
      /\ IsArray(copy) /\ Placed(copy) /\ CapacityOf(copy) = GrownCapacity
      /\ next \in 0..capacity /\ count = Cardinality(Used(copy))
      /\ count <= Cardinality(Passed(next))
      /\ \A j \in Used(copy) : \E i \in Passed(next) : entries[i] = copy[j]
      /\ \A i \in Passed(next) : \E j \in Used(copy) : entries[i] = copy[j]
  BY <1>1 DEF IInv, ArraysOK, CopyOK
<1>3. /\ EndsIn(copy) /\ CapacityOf(copy) # 0 /\ count \in Nat
      /\ capacity \in Nat /\ capacity <= MaxCapacity /\ MaxCapacity \in Nat
      /\ DOMAIN entries = 0..(capacity - 1)
  BY <1>1, CopyEnds, Capacities DEF IInv, ArraysOK
<1>4. next \in DOMAIN entries /\ next + 1 \in 0..capacity /\ entry \in Entry
  BY <1>1, <1>2, <1>3 DEF IsArray, capacity
<1>5. /\ GrownCapacity' = GrownCapacity /\ capacity' = capacity
      /\ Used(entries)' = Used(entries)
      /\ Passed(next)' = Passed(next + 1)
      /\ Placed(entries)' <=> Placed(entries)
      /\ IsArray(entries)' <=> IsArray(entries)
  BY <1>1, PlacedIs DEF GrownCapacity, capacity, CapacityOf, Used, Passed, IsArray
<1>6. CountOK' /\ GrowthOK'
  BY <1>1, <1>3, <1>4, <1>5 DEF IInv, CountOK, GrowthOK
<1>7. CASE entry.key = NoKey
  <2>1. Passed(next + 1) = Passed(next)
    BY <1>2, <1>3, <1>7 DEF Passed
  <2>2. copy' = copy /\ count' = count
    BY <1>1, <1>7
  <2>3. ArraysOK'
    BY <1>1, <1>5, <2>2 DEF IInv, ArraysOK, HashesOK, IsArray, CapacityOf
  <2>4. CopyOK'
    <3>1. Placed(copy)' /\ Used(copy)' = Used(copy) /\ CapacityOf(copy)' = CapacityOf(copy)
      BY <1>1, <1>2, <2>2, PlacedIs DEF Used, CapacityOf, Placed
    <3> QED BY <1>1, <1>2, <1>4, <1>5, <2>1, <2>2, <3>1 DEF CopyOK
  <2> QED BY <1>6, <2>3, <2>4 DEF IInv
<1>8. CASE entry.key # NoKey
  <2>1. entry.key \in Key /\ entry.value \in Val
          /\ entry = [key |-> entry.key, value |-> entry.value]
    BY <1>4, <1>8 DEF Entry
  <2>2. copy' = With(copy, entry.key, entry.value) /\ count' = count + 1
    BY <1>1, <1>8, <2>1 DEF With
  <2>3. \A j \in DOMAIN copy : copy[j].key # entry.key
    <3> SUFFICES ASSUME NEW j \in DOMAIN copy, copy[j].key = entry.key
                 PROVE  FALSE
      OBVIOUS
    <3>1. j \in Used(copy)
      BY <1>8, Entries DEF Used
    <3>2. PICK i \in Passed(next) : entries[i] = copy[j]
      BY <1>2, <3>1
    <3>3. i \in DOMAIN entries /\ i # next
      BY <1>2, <1>3, <3>2 DEF Passed
    <3> QED BY <1>2, <1>4, <1>8, <3>2, <3>3 DEF Placed
  <2>4. slot \in DOMAIN copy /\ copy[slot] = Empty
    <3>1. slot \in DOMAIN copy /\ copy[slot] \in {Empty, Tombstone}
      BY <1>2, <1>3, <2>1, <2>3, Found
    <3>2. ASSUME copy[slot] = Tombstone PROVE FALSE
      <4>1. slot \in Used(copy)
        BY <3>1, <3>2, Entries DEF Used
      <4> QED BY <1>2, <3>2, <4>1, Entries DEF Passed
    <3> QED BY <3>1, <3>2
  <2>5. /\ DOMAIN copy' = DOMAIN copy /\ copy'[slot] = entry
        /\ \A j \in DOMAIN copy : j # slot => copy'[j] = copy[j]
    BY <1>1, <1>8, <2>4
  <2>6. IsArray(copy') /\ Placed(copy')
    BY <1>2, <1>3, <2>1, <2>2, StoredEntry
  <2>7. Cardinality(Used(copy')) = Cardinality(Used(copy)) + 1
    <3>1. Cardinality(Used(With(copy, entry.key, entry.value))) =
            Cardinality(Used(copy)) + (IF copy[slot] = Empty THEN 1 ELSE 0)
      BY <1>2, <1>3, <2>1, StoredEntry
    <3> QED BY <2>2, <2>4, <3>1
  <2>8. Used(copy') = Used(copy) \cup {slot}
    BY <1>8, <2>4, <2>5, Entries DEF Used
  <2>9. /\ Passed(next + 1) = Passed(next) \cup {next} /\ next \notin Passed(next)
        /\ Cardinality(Passed(next + 1)) = Cardinality(Passed(next)) + 1
    <3>1. Passed(next + 1) = Passed(next) \cup {next} /\ next \notin Passed(next)
      BY <1>2, <1>3, <1>8 DEF Passed
    <3>2. IsFiniteSet(Passed(next))
      BY <1>2, PassedAreUsed
    <3> QED BY <3>1, <3>2, FS_AddElement
  <2>10. ArraysOK'
    <3>1. IsArray(copy)' /\ CapacityOf(copy)' = CapacityOf(copy)
      BY <2>5, <2>6 DEF IsArray, CapacityOf
    <3> QED BY <1>1, <1>5, <3>1 DEF IInv, ArraysOK, HashesOK
  <2>11. CopyOK'
    <3>1. Placed(copy)' /\ CapacityOf(copy)' = GrownCapacity'
      BY <1>1, <1>2, <1>5, <2>5, <2>6, PlacedIs DEF CapacityOf
    <3>2. count' = Cardinality(Used(copy)') /\ count' <= Cardinality(Passed(next)')
      <4>1. Used(copy)' = Used(copy')
        BY DEF Used
      <4>2. Cardinality(Passed(next)) \in Nat
        BY <1>2, PassedAreUsed
      <4> QED BY <1>2, <1>3, <1>5, <2>2, <2>7, <2>9, <4>1, <4>2
    <3>3. \A j \in Used(copy)' : \E i \in Passed(next)' : entries'[i] = copy'[j]
      BY <1>1, <1>2, <1>5, <2>4, <2>5, <2>8, <2>9 DEF Used
    <3>4. \A i \in Passed(next)' : \E j \in Used(copy)' : entries'[i] = copy'[j]
      <4> SUFFICES ASSUME NEW i \in Passed(next)'
                   PROVE  \E j \in Used(copy') : entries[i] = copy'[j]
        BY <1>1 DEF Used
      <4>1. CASE i = next
        BY <2>5, <2>8, <4>1
      <4>2. CASE i # next
        <5>1. PICK j \in Used(copy) : entries[i] = copy[j]
          BY <1>2, <1>5, <2>9, <4>2
        <5>2. j # slot /\ j \in DOMAIN copy
          BY <2>4, <5>1 DEF Used
        <5> QED BY <2>5, <2>8, <5>1, <5>2
      <4> QED BY <4>1, <4>2
    <3>5. next' \in 0..capacity'
      BY <1>1, <1>4, <1>5
    <3> QED BY <3>1, <3>2, <3>3, <3>4, <3>5 DEF CopyOK
  <2> QED BY <1>6, <2>10, <2>11 DEF IInv
<1> QED BY <1>7, <1>8

(* tableGet, which gives a value of the table or none.                     *)
LEMMA TableGetStep ==
  ASSUME IInv, NEW k \in Key, TableGet(k)
  PROVE  IInv' /\ answer' = IF count # 0 /\ Holds(entries, k)
                            THEN entries[FindEntry(entries, k)].value ELSE Absent
<1>1. /\ UNCHANGED <<hash, entries, count, growth>>
      /\ answer' = IF count # 0 /\ Holds(entries, k)
                   THEN entries[FindEntry(entries, k)].value ELSE Absent
  BY DEF TableGet
<1>2. answer' \in Val \cup BOOLEAN \cup {Absent}
  <2>1. CASE count # 0 /\ Holds(entries, k)
    <3>1. /\ IsArray(entries) /\ HashesOK /\ Placed(entries) /\ EndsIn(entries)
          /\ doing # "copy" => count = Cardinality(Used(entries))
          /\ doing = "nothing"
      BY TableEnds DEF IInv, ArraysOK, CountOK, TableGet, Idle
    <3>2. capacity # 0
      <4>1. capacity = 0 => Used(entries) = {}
        BY Capacities DEF Used
      <4> QED BY <2>1, <3>1, <4>1, FS_EmptySet
    <3>3. FindEntry(entries, k) \in DOMAIN entries
      BY <3>1, <3>2, Found DEF capacity
    <3>4. entries[FindEntry(entries, k)] \in Entry
      BY <3>1, <3>3 DEF IsArray
    <3> QED BY <1>1, <2>1, <3>4 DEF Entry
  <2>2. CASE ~(count # 0 /\ Holds(entries, k))
    BY <1>1, <2>2
  <2> QED BY <2>1, <2>2
<1> QED BY <1>1, <1>2, ReadStep

(* tableFindString changes nothing.                                        *)
LEMMA TableFindStringStep ==
  ASSUME IInv, NEW k \in Key, TableFindString(k)
  PROVE  IInv'
<1>1. UNCHANGED <<hash, entries, count, growth>> /\ answer' \in BOOLEAN
  BY DEF TableFindString
<1> QED BY <1>1, ReadStep

(* tableDelete of one key.                                                 *)
LEMMA TableDeleteStep ==
  ASSUME IInv, NEW k \in Key, TableDelete(k)
  PROVE  IInv'
<1>1. /\ doing # "copy" /\ entries' = Deleted({k}) /\ {k} \in SUBSET Key
      /\ UNCHANGED <<hash, count, growth>> /\ answer' \in BOOLEAN
  BY DEF TableDelete, Idle
<1> QED BY <1>1, DeletedStep

(* A collection deletes any keys at once.                                  *)
LEMMA TableRemoveWhiteStep ==
  ASSUME IInv, NEW dead \in SUBSET Key, TableRemoveWhite(dead)
  PROVE  IInv'
<1>1. /\ doing # "copy" /\ entries' = Deleted(dead)
      /\ UNCHANGED <<hash, count, growth, answer>>
      /\ answer \in Val \cup BOOLEAN \cup {Absent}
  BY DEF TableRemoveWhite, IInv, GrowthOK
<1> QED BY <1>1, DeletedStep

(* Nothing happens.                                                        *)
LEMMA StutterStep == ASSUME IInv, UNCHANGED vars PROVE IInv'
<1>1. /\ UNCHANGED <<hash, entries, count, growth>> /\ answer' = answer
      /\ answer \in Val \cup BOOLEAN \cup {Absent}
  BY DEF vars, IInv, GrowthOK
<1> QED BY <1>1, ReadStep

(* Every step keeps the invariant.                                         *)
LEMMA NextStep == ASSUME IInv, [Next]_vars PROVE IInv'
<1>1. CASE \E k \in Key : TableGet(k) \/ TableFindString(k) \/ TableDelete(k)
  BY <1>1, TableGetStep, TableFindStringStep, TableDeleteStep
<1>2. CASE \E k \in Key : \E v \in Val : TableSet(k, v) \/ TableSetFull(k, v)
  BY <1>2, TableSetStep, TableSetFullStep
<1>3. CASE Grow
  BY <1>3, AllocatedStep, CopyEntryStep, FinishTableSetStep DEF Grow
<1>4. CASE \E dead \in SUBSET Key \ {{}} : TableRemoveWhite(dead)
  BY <1>4, TableRemoveWhiteStep
<1>5. CASE FreeTable
  BY <1>5, FreeTableStep
<1>6. CASE UNCHANGED vars
  BY <1>6, StutterStep
<1> QED BY <1>1, <1>2, <1>3, <1>4, <1>5, <1>6 DEF Next

(* The arrays and the count fit together, and keys can be found, also in   *)
(* the middle of adjustCapacity and after collections that come then.      *)
THEOREM Invariant == Spec => []IInv
<1> QED BY InitIInv, NextStep, PTL DEF Spec
-----------------------------------------------------------------------------
(* What follows from the invariant.                                        *)

(* The load, also in the middle of a growth.                               *)
LEMMA IInvTypes == IInv => TypeOK
<1> SUFFICES ASSUME IInv PROVE TypeOK
  OBVIOUS
<1>1. /\ capacity \in 0..MaxCapacity /\ entries \in [0..(capacity - 1) -> Entry]
      /\ CapacityOf(copy) \in 0..MaxCapacity
      /\ copy \in [0..(CapacityOf(copy) - 1) -> Entry]
  <2>1. IsArray(entries) /\ IsArray(copy) /\ capacity <= MaxCapacity
          /\ CapacityOf(copy) <= MaxCapacity
    BY DEF IInv, ArraysOK
  <2>2. entries \in [0..(capacity - 1) -> Entry]
    BY <2>1 DEF IsArray, capacity
  <2>3. copy \in [0..(CapacityOf(copy) - 1) -> Entry]
    BY <2>1 DEF IsArray
  <2> QED BY <2>1, <2>2, <2>3, Capacities
<1>2. count \in Nat /\ 4 * count <= 3 * capacity
  <2>1. CASE doing = "copy"
    <3>1. /\ next \in 0..capacity /\ count <= Cardinality(Passed(next))
          /\ 4 * Cardinality(Used(entries)) <= 3 * capacity
      BY <2>1 DEF IInv, CopyOK, CountOK
    <3>2. count \in Nat
      BY <2>1, CopyEnds
    <3> QED BY <3>1, <3>2, PassedAreUsed, TableEnds, Capacities
  <2>2. CASE doing # "copy"
    BY <2>2, TableEnds DEF IInv, CountOK
  <2> QED BY <2>1, <2>2
<1> QED BY <1>1, <1>2 DEF IInv, ArraysOK, GrowthOK, HashesOK, TypeOK

(* The array that is there only while the table grows.                     *)
LEMMA CopyIsSearchable ==
  ASSUME IInv
  PROVE  EndsIn(copy) /\ IsArray(copy) /\ (DOMAIN copy # {} => Placed(copy))
<1>1. IsArray(copy)
  BY DEF IInv, ArraysOK
<1>2. CASE doing = "copy"
  BY <1>1, <1>2, CopyEnds DEF IInv, CopyOK
<1>3. CASE doing # "copy"
  <2>1. copy = Array(0)
    BY <1>3 DEF IInv, GrowthOK
  <2>2. DOMAIN copy = {}
    BY <2>1 DEF Array
  <2> QED BY <1>1, <2>2 DEF EndsIn
<1> QED BY <1>2, <1>3

(* In an array where keys are placed, findEntry gets to each of them.      *)
LEMMA PlacedAreFound ==
  ASSUME HashesOK, NEW array, IsArray(array), EndsIn(array),
         DOMAIN array # {} => Placed(array)
  PROVE  FoundIn(array)
<1> SUFFICES ASSUME NEW i \in DOMAIN array, array[i].key # NoKey
             PROVE  FindEntry(array, array[i].key) = i
  BY DEF FoundIn
<1>1. array[i].key \in Key /\ CapacityOf(array) # 0
  BY DEF IsArray, Entry
<1> QED BY <1>1, Found

(* So it is in the table and in the array that is being filled.            *)
LEMMA IInvFound == IInv => KeysAreFound
<1> SUFFICES ASSUME IInv PROVE KeysAreFound
  OBVIOUS
<1>1. HashesOK /\ IsArray(entries) /\ Placed(entries) /\ EndsIn(entries)
  BY TableEnds DEF IInv, ArraysOK
<1> QED BY <1>1, CopyIsSearchable, PlacedAreFound DEF KeysAreFound

(* A deletion finds the key wherever it is.                                *)
LEMMA IInvDead == IInv => DeadKeysLeave
<1> SUFFICES ASSUME IInv, doing \in {"nothing", "allocate"}, NEW k \in Key,
                    NEW i \in DOMAIN entries
             PROVE  Deleted({k})[i].key # k
  BY DEF DeadKeysLeave
<1>1. Deleted({k}) = Without(entries, {k})
  BY DeletedIs
<1>2. Without(entries, {k})[i] = IF entries[i].key = k THEN Tombstone ELSE entries[i]
  BY DEF Without
<1> QED BY <1>1, <1>2, Entries

(* The count is about the new array while there is one.                    *)
LEMMA IInvCount == IInv => CountIsUsed
<1> SUFFICES ASSUME IInv PROVE CountIsUsed
  OBVIOUS
<1>1. count = Cardinality(Used(Counted))
  BY DEF IInv, CountOK, CopyOK, Counted
<1> QED BY <1>1 DEF CountIsUsed, Used

(* The table is used to three quarters at most.                            *)
THEOREM TypesHold == Spec => []TypeOK
  BY Invariant, IInvTypes, PTL

(* The count is that of the slots in use.                                  *)
THEOREM CountHolds == Spec => []CountIsUsed
  BY Invariant, IInvCount, PTL

(* Every key of the table is found, in the slot it is in.                  *)
THEOREM EveryKeyIsFound == Spec => []KeysAreFound
  BY Invariant, IInvFound, PTL

(* The loops of findEntry and tableFindString end.                         *)
THEOREM EveryProbeEnds == Spec => []ProbesEnd
<1>1. IInv => ProbesEnd
  BY TableEnds, CopyIsSearchable DEF ProbesEnd
<1> QED BY <1>1, Invariant, PTL

(* A collection that frees a key gets it out of the table.                 *)
THEOREM NoDeadKeyStays == Spec => []DeadKeysLeave
  BY Invariant, IInvDead, PTL
-----------------------------------------------------------------------------
(* The table is a map.                                                     *)

ContentsOf(array) ==
  [k \in Key |->
     LET slots == {i \in DOMAIN array : array[i].key = k}
     IN  IF slots = {} THEN Absent ELSE array[Min(slots)].value]

(* The value of a key is in its only slot.                                 *)
LEMMA ContentsAre ==
  ASSUME NEW array, IsArray(array), Placed(array), NEW k \in Key
  PROVE  /\ \A i \in DOMAIN array :
              array[i].key = k => ContentsOf(array)[k] = array[i].value
         /\ (\A i \in DOMAIN array : array[i].key # k)
              => ContentsOf(array)[k] = Absent
         /\ ContentsOf(array)[k] = Absent
              <=> \A i \in DOMAIN array : array[i].key # k
<1> DEFINE slots == {i \in DOMAIN array : array[i].key = k}
<1>1. ContentsOf(array)[k] = IF slots = {} THEN Absent ELSE array[Min(slots)].value
  BY DEF ContentsOf
<1>2. slots \subseteq Nat /\ \A i \in slots : i \in DOMAIN array /\ array[i].key = k
  BY DEF IsArray
<1>3. \A i \in DOMAIN array : array[i].key = k => i \in slots
  OBVIOUS
<1> HIDE DEF slots
<1>4. ASSUME slots # {}
      PROVE  /\ Min(slots) \in slots
             /\ \A i \in slots : i = Min(slots)
  <2>1. Min(slots) \in slots
    BY <1>2, <1>4, MinIsLeast
  <2> QED BY <1>2, <2>1, Entries DEF Placed
<1>5. \A i \in DOMAIN array : array[i].value # Absent
  BY TableAssumption DEF IsArray, Entry
<1> QED BY <1>1, <1>2, <1>3, <1>4, <1>5

(* The contents of the table are those of its array.                       *)
LEMMA ContentsIs ==
  /\ contents = ContentsOf(entries) /\ contents' = ContentsOf(entries')
  /\ DOMAIN contents = Key /\ DOMAIN contents' = Key
  BY DEF contents, ContentsOf

(* Storing in an array that holds the same keys as the table.              *)
LEMMA StoreSets ==
  ASSUME HashesOK, IsArray(entries), Placed(entries),
         NEW array, IsArray(array), EndsIn(array), CapacityOf(array) # 0,
         Placed(array), NEW used, NEW k \in Key, NEW v \in Val,
         Store(array, used, k, v), ContentsOf(array) = contents
  PROVE  Map!Set(k, v)
<1> DEFINE f == FindEntry(array, k)
<1>1. entries' = With(array, k, v) /\ answer' = (array[f].key = NoKey)
  BY DEF Store, With
<1>2. /\ IsArray(entries') /\ Placed(entries') /\ DOMAIN entries' = DOMAIN array
  BY <1>1, StoredEntry DEF With
<1>3. /\ f \in DOMAIN array /\ entries'[f].key = k /\ entries'[f].value = v
      /\ \A i \in DOMAIN array : i # f => entries'[i] = array[i] /\ array[i].key # k
      /\ array[f].key = k \/ array[f].key = NoKey
      /\ array[f].key = NoKey => \A i \in DOMAIN array : array[i].key # k
  <2>1. /\ f \in DOMAIN array
        /\ \/ array[f].key = k
           \/ /\ array[f] \in {Empty, Tombstone}
              /\ \A i \in DOMAIN array : array[i].key # k
        /\ \A i \in DOMAIN array : array[i].key = k => i = f
    BY Found
  <2>2. entries' = [array EXCEPT ![f] = [key |-> k, value |-> v]]
    BY <1>1 DEF With
  <2> HIDE DEF f
  <2> QED BY <2>1, <2>2, Entries
<1> HIDE DEF f
<1>4. answer' = (contents[k] = Absent)
  <2>1. contents[k] = Absent <=> array[f].key = NoKey
    BY <1>3, ContentsAre, Entries
  <2> QED BY <1>1, <2>1
<1>5. contents'[k] = v
  BY <1>2, <1>3, ContentsAre, ContentsIs
<1>6. ASSUME NEW kk \in Key, kk # k PROVE contents'[kk] = contents[kk]
  <2>1. CASE \E i \in DOMAIN array : array[i].key = kk
    <3>1. PICK i \in DOMAIN array : array[i].key = kk
      BY <2>1
    <3>2. entries'[i] = array[i]
      BY <1>3, <1>6, <3>1, Entries
    <3>3. contents'[kk] = entries'[i].value
      BY <1>2, <3>1, <3>2, ContentsAre, ContentsIs
    <3>4. contents[kk] = array[i].value
      BY <3>1, ContentsAre
    <3> QED BY <3>2, <3>3, <3>4
  <2>2. CASE \A i \in DOMAIN array : array[i].key # kk
    <3>1. \A i \in DOMAIN entries' : entries'[i].key # kk
      BY <1>2, <1>3, <1>6, <2>2
    <3>2. contents'[kk] = Absent
      BY <1>2, <3>1, ContentsAre, ContentsIs
    <3>3. contents[kk] = Absent
      BY <2>2, ContentsAre
    <3> QED BY <3>2, <3>3
  <2> QED BY <2>1, <2>2
<1>7. contents' = [contents EXCEPT ![k] = v]
  <2>1. /\ contents = [kk \in Key |-> contents[kk]]
        /\ contents' = [kk \in Key |-> contents'[kk]]
    BY DEF contents
  <2> QED BY <1>5, <1>6, <2>1
<1> QED BY <1>4, <1>7 DEF Map!Set

(* While the table grows, the new array comes to hold what the old one     *)
(* does.                                                                   *)
LEMMA CopyHasAll ==
  ASSUME IInv, doing = "copy", next = capacity
  PROVE  ContentsOf(copy) = contents
<1>1. /\ IsArray(copy) /\ Placed(copy) /\ IsArray(entries) /\ Placed(entries)
      /\ \A j \in Used(copy) : \E i \in Passed(next) : entries[i] = copy[j]
      /\ \A i \in Passed(next) : \E j \in Used(copy) : entries[i] = copy[j]
  BY DEF IInv, ArraysOK, CopyOK
<1>2. DOMAIN entries = 0..(capacity - 1)
  BY Capacities
<1>3. ASSUME NEW k \in Key PROVE ContentsOf(copy)[k] = contents[k]
  <2>1. CASE \E i \in DOMAIN entries : entries[i].key = k
    <3>1. PICK i \in DOMAIN entries : entries[i].key = k
      BY <2>1
    <3>2. i \in Passed(next)
      BY <1>2, <3>1, Entries DEF Passed
    <3>3. PICK j \in DOMAIN copy : entries[i] = copy[j]
      BY <1>1, <3>2 DEF Used
    <3>4. ContentsOf(copy)[k] = copy[j].value
      BY <1>1, <3>1, <3>3, ContentsAre
    <3>5. contents[k] = entries[i].value
      BY <1>1, <3>1, ContentsAre, ContentsIs
    <3> QED BY <3>3, <3>4, <3>5
  <2>2. CASE \A i \in DOMAIN entries : entries[i].key # k
    <3>1. \A j \in DOMAIN copy : copy[j].key # k
      <4> SUFFICES ASSUME NEW j \in DOMAIN copy, copy[j].key = k PROVE FALSE
        OBVIOUS
      <4>1. j \in Used(copy)
        BY Entries DEF Used
      <4>2. PICK i \in Passed(next) : entries[i] = copy[j]
        BY <1>1, <4>1
      <4> QED BY <1>2, <2>2, <4>2 DEF Passed
    <3>2. ContentsOf(copy)[k] = Absent
      BY <1>1, <3>1, ContentsAre
    <3>3. contents[k] = Absent
      BY <1>1, <2>2, ContentsAre, ContentsIs
    <3> QED BY <3>2, <3>3
  <2> QED BY <2>1, <2>2
<1> QED BY <1>3 DEF ContentsOf, contents

(* Deleting takes exactly the dead keys out of the map.                    *)
LEMMA DeletedForgets ==
  ASSUME IInv, doing # "copy", NEW dead \in SUBSET Key, entries' = Deleted(dead)
  PROVE  contents' = [k \in Key |-> IF k \in dead THEN Absent ELSE contents[k]]
<1>1. entries' = Without(entries, dead)
  BY DeletedIs
<1>2. HashesOK /\ IsArray(entries) /\ Placed(entries)
  BY DEF IInv, ArraysOK
<1>3. IsArray(entries') /\ Placed(entries')
  BY <1>1, <1>2, WithoutKeys
<1>4. /\ DOMAIN entries' = DOMAIN entries
      /\ \A i \in DOMAIN entries : entries'[i] = IF entries[i].key \in dead
                                                 THEN Tombstone ELSE entries[i]
  BY <1>1 DEF Without
<1>5. ASSUME NEW k \in Key
      PROVE  contents'[k] = IF k \in dead THEN Absent ELSE contents[k]
  <2>1. CASE k \notin dead /\ \E i \in DOMAIN entries : entries[i].key = k
    <3>1. PICK i \in DOMAIN entries : entries[i].key = k
      BY <2>1
    <3>2. entries'[i] = entries[i]
      BY <1>4, <2>1, <3>1
    <3>3. contents'[k] = entries'[i].value
      BY <1>3, <1>4, <3>1, <3>2, ContentsAre, ContentsIs
    <3>4. contents[k] = entries[i].value
      BY <1>2, <3>1, ContentsAre, ContentsIs
    <3> QED BY <2>1, <3>2, <3>3, <3>4
  <2>2. CASE ~(k \notin dead /\ \E i \in DOMAIN entries : entries[i].key = k)
    <3>1. \A i \in DOMAIN entries' : entries'[i].key # k
      BY <1>4, <2>2, Entries
    <3>2. contents'[k] = Absent
      BY <1>3, <3>1, ContentsAre, ContentsIs
    <3>3. k \notin dead => contents[k] = Absent
      BY <1>2, <2>2, ContentsAre, ContentsIs
    <3> QED BY <3>2, <3>3
  <2> QED BY <2>1, <2>2
<1> QED BY <1>5 DEF contents

(* Whether a key is there is what the searches find out.                   *)
LEMMA Searches ==
  ASSUME IInv, doing = "nothing", NEW k \in Key
  PROVE  /\ count # 0 /\ Holds(entries, k) <=> contents[k] # Absent
         /\ count # 0 /\ entries[Probe(entries, k, Min(Stops(entries, k)))].key = k
              <=> contents[k] # Absent
         /\ contents[k] # Absent =>
              contents[k] = entries[FindEntry(entries, k)].value
<1>1. /\ HashesOK /\ IsArray(entries) /\ Placed(entries) /\ EndsIn(entries)
      /\ count = Cardinality(Used(entries)) /\ IsFiniteSet(Used(entries))
  BY TableEnds DEF IInv, ArraysOK, CountOK
<1>2. CASE count = 0
  <2>1. \A i \in DOMAIN entries : entries[i] = Empty
    BY <1>1, <1>2, FS_EmptySet DEF Used
  <2>2. \A i \in DOMAIN entries : entries[i].key # k
    BY <2>1, Entries
  <2>3. contents[k] = Absent
    BY <1>1, <2>2, ContentsAre, ContentsIs
  <2> QED BY <1>2, <2>3
<1>3. CASE count # 0
  <2>1. capacity # 0
    <3>1. capacity = 0 => Used(entries) = {}
      BY Capacities DEF Used
    <3> QED BY <1>1, <1>3, <3>1, FS_EmptySet
  <2>2. /\ FindEntry(entries, k) \in DOMAIN entries
        /\ \A i \in DOMAIN entries : entries[i].key = k =>
             i = FindEntry(entries, k) /\ i = Probe(entries, k, Min(Stops(entries, k)))
        /\ entries[Probe(entries, k, Min(Stops(entries, k)))].key = k
             => \E i \in DOMAIN entries : entries[i].key = k
    BY <1>1, <2>1, Found DEF capacity
  <2>3. contents[k] # Absent <=> \E i \in DOMAIN entries : entries[i].key = k
    BY <1>1, ContentsAre, ContentsIs
  <2>4. Holds(entries, k) <=> \E i \in DOMAIN entries : entries[i].key = k
    BY <2>2 DEF Holds
  <2>5. \A i \in DOMAIN entries : entries[i].key = k => contents[k] = entries[i].value
    BY <1>1, ContentsAre, ContentsIs
  <2> QED BY <1>3, <2>2, <2>3, <2>4, <2>5
<1> QED BY <1>2, <1>3

(* The same array has the same contents.                                   *)
LEMMA SameEntries ==
  ASSUME entries' = entries
  PROVE  contents' = contents
  BY DEF contents

(* Every step of the table is one of the map, or none.                     *)
LEMMA MapStep ==
  ASSUME IInv, [Next]_vars
  PROVE  [Map!Next]_<<contents, answer>>
<1>1. CASE \E k \in Key : TableGet(k)
  <2>1. PICK k \in Key : TableGet(k)
    BY <1>1
  <2>2. /\ doing = "nothing" /\ contents' = contents
        /\ answer' = IF count = 0 \/ ~Holds(entries, k) THEN Absent
                     ELSE entries[FindEntry(entries, k)].value
    BY <2>1, SameEntries DEF TableGet, Idle
  <2>3. answer' = contents[k]
    BY <2>2, Searches
  <2>4. Map!Get(k)
    BY <2>2, <2>3 DEF Map!Get
  <2> QED BY <2>4 DEF Map!Next
<1>2. CASE \E k \in Key : TableFindString(k)
  <2>1. PICK k \in Key : TableFindString(k)
    BY <1>2
  <2>2. /\ doing = "nothing" /\ contents' = contents
        /\ answer' = (count # 0
             /\ entries[Probe(entries, k, Min(Stops(entries, k)))].key = k)
    BY <2>1, SameEntries DEF TableFindString, Idle
  <2>3. answer' = (contents[k] # Absent)
    BY <2>2, Searches
  <2>4. Map!Find(k)
    BY <2>2, <2>3 DEF Map!Find
  <2> QED BY <2>4 DEF Map!Next
<1>3. CASE \E k \in Key : TableDelete(k)
  <2>1. PICK k \in Key : TableDelete(k)
    BY <1>3
  <2>2. /\ doing = "nothing" /\ entries' = Deleted({k})
        /\ answer' = (count # 0 /\ Holds(entries, k))
    BY <2>1 DEF TableDelete, Idle
  <2>3. answer' = (contents[k] # Absent)
    BY <2>2, Searches
  <2>4. contents' = [kk \in Key |-> IF kk \in {k} THEN Absent ELSE contents[kk]]
    <3>1. {k} \in SUBSET Key /\ doing # "copy"
      BY <2>2
    <3> QED BY <2>2, <3>1, DeletedForgets
  <2>5. contents' = [contents EXCEPT ![k] = Absent]
    <3>1. contents = [kk \in Key |-> contents[kk]]
      BY DEF contents
    <3> QED BY <2>4, <3>1
  <2>6. Map!Delete(k)
    BY <2>3, <2>5 DEF Map!Delete
  <2> QED BY <2>6 DEF Map!Next
<1>4. CASE \E k \in Key : \E v \in Val : TableSet(k, v)
  <2>1. PICK k \in Key, v \in Val : TableSet(k, v)
    BY <1>4
  <2>2. /\ Store(entries, count, k, v) /\ ~IsFull
        /\ count = Cardinality(Used(entries))
    BY <2>1 DEF TableSet, Idle, IInv, CountOK
  <2>3. /\ HashesOK /\ IsArray(entries) /\ Placed(entries) /\ EndsIn(entries)
        /\ ContentsOf(entries) = contents
    BY TableEnds, ContentsIs DEF IInv, ArraysOK
  <2>4. CapacityOf(entries) # 0
    BY <2>2, TableEnds, Capacities DEF IsFull, capacity
  <2>5. Map!Set(k, v)
    BY <2>2, <2>3, <2>4, StoreSets
  <2> QED BY <2>5 DEF Map!Next
<1>5. CASE \E k \in Key : \E v \in Val : TableSetFull(k, v)
  <2>1. entries' = entries /\ answer' = answer
    BY <1>5 DEF TableSetFull
  <2> QED BY <2>1, SameEntries
<1>6. CASE Allocated \/ CopyEntry \/ UNCHANGED vars
  <2>1. entries' = entries /\ answer' = answer
    BY <1>6 DEF Allocated, CopyEntry, vars
  <2> QED BY <2>1, SameEntries
<1>7. CASE FinishTableSet
  <2>1. /\ doing = "copy" /\ next = capacity
        /\ Store(copy, count, pending.key, pending.value)
    BY <1>7 DEF FinishTableSet
  <2>2. /\ HashesOK /\ IsArray(entries) /\ Placed(entries)
        /\ IsArray(copy) /\ Placed(copy)
        /\ pending.key \in Key /\ pending.value \in Val
    BY <2>1 DEF IInv, ArraysOK, CopyOK, GrowthOK, Entry
  <2>3. EndsIn(copy) /\ CapacityOf(copy) # 0 /\ ContentsOf(copy) = contents
    BY <2>1, CopyEnds, CopyHasAll
  <2>4. Map!Set(pending.key, pending.value)
    BY <2>1, <2>2, <2>3, StoreSets
  <2> QED BY <2>2, <2>4 DEF Map!Next
<1>8. CASE \E dead \in SUBSET Key \ {{}} : TableRemoveWhite(dead)
  <2>1. PICK dead \in SUBSET Key : TableRemoveWhite(dead)
    BY <1>8
  <2>2. doing # "copy" /\ entries' = Deleted(dead) /\ answer' = answer
    BY <2>1 DEF TableRemoveWhite
  <2>3. Map!Forget(dead)
    BY <2>2, DeletedForgets DEF Map!Forget
  <2> QED BY <2>3 DEF Map!Next
<1>9. CASE FreeTable
  <2>1. entries' = Array(0) /\ answer' = answer
    BY <1>9 DEF FreeTable
  <2>2. contents' = [k \in Key |-> Absent]
    BY <2>1 DEF contents, Array
  <2>3. Map!Forget(Key)
    BY <2>1, <2>2 DEF Map!Forget
  <2> QED BY <2>3 DEF Map!Next
<1> QED BY <1>1, <1>2, <1>3, <1>4, <1>5, <1>6, <1>7, <1>8, <1>9 DEF Next, Grow

(* A new table is an empty map.                                            *)
LEMMA MapInit == Init => Map!Init
<1> SUFFICES ASSUME Init PROVE Map!Init
  OBVIOUS
<1>1. entries = Array(0) /\ answer = Absent
  BY DEF Init
<1>2. contents = [k \in Key |-> Absent]
  BY <1>1 DEF contents, Array
<1> QED BY <1>1, <1>2 DEF Map!Init

(* table.c is a map: every operation answers as a map does, whatever       *)
(* collisions, deletions, growth and collections there were before.        *)
THEOREM TableIsAMap == Spec => ImplementsSymbolMap
<1>1. Init => Map!Init
  BY MapInit
<1>2. IInv /\ [Next]_vars => [Map!Next]_<<contents, answer>>
  BY MapStep
<1> QED BY <1>1, <1>2, Invariant, PTL DEF Spec, ImplementsSymbolMap, Map!Spec
=============================================================================
