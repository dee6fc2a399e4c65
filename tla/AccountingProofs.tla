-------------------------- MODULE AccountingProofs --------------------------
(***************************************************************************)
(* Proofs about Accounting: an interpreter that collects when its counter  *)
(* says so takes no step that Collector does not take, and the counter is  *)
(* right, for every set of addresses, every size of the structs and either *)
(* build.                                                                  *)
(***************************************************************************)
EXTENDS Accounting, CollectorProofs, NumberProofs

(* An instance has the objects of its types and the operations on them.    *)
OnlyTypes ==
  /\ \A o \in Heap : type[o] \in Types
  /\ op.name \in {"none", "append", "write"} \cup DOMAIN Constructs
  /\ op.name \in {"append"} \cup DOMAIN Constructs => Made(op.name) \in Types

(***************************************************************************)
(* Only an object has an array, and the vector that waits for memory has   *)
(* room for the value already: the capacity is stored before the element.  *)
(* A new vector is empty.                                                  *)
(***************************************************************************)
RoomOK ==
  /\ capacity \in [Obj -> Nat] /\ lost \in Nat
  /\ \A o \in Obj \ Heap : capacity[o] = 0
  /\ op.name = "write" => Len(slots[op.args[1]]) < capacity[op.args[1]]
  /\ op.name = "vector" => op.args = <<>>

AInv == IInv /\ OnlyTypes /\ RoomOK /\ BytesAreCounted

(* What the objects take in all. *)
Held == SumFunctionOnSet(BytesOf, Heap)
-----------------------------------------------------------------------------
(* The steps are those of Collector.                                       *)

LEMMA StepsOfCollector == AccountingNext => Next
<1>1. AllocateObject => Requests
  BY DEF AllocateObject, Requests
<1>2. SmartArrayAppend => Requests
  BY DEF SmartArrayAppend, Requests
<1>3. GoOn => Finishes
  BY DEF GoOn, Counts, Finishes
<1>4. CollectWhenDue => Collect
  BY DEF CollectWhenDue
<1>5. Counts(Push \/ Pop \/ StartParse \/ ParseError \/ FreeAST)
        => Moves \/ FreeAST
  BY DEF Counts, Moves
<1>6. AccountingCollectorStep => CollectorStep
  BY DEF AccountingCollectorStep, Counts, FreeObject, CollectGarbageEnd,
         CollectorStep
<1> QED BY <1>1, <1>2, <1>3, <1>4, <1>5, <1>6 DEF AccountingNext, Next

(***************************************************************************)
(* Whatever the counter decides, it decides among what Collector leaves    *)
(* open: everything proved of Collector's steps holds here too.            *)
(***************************************************************************)
THEOREM CounterOnlyChooses == AccountingSpec => Init /\ [][Next]_vars
<1>1. AccountingInit => Init
  BY DEF AccountingInit
<1>2. [AccountingNext]_allVars => [Next]_vars
  BY StepsOfCollector DEF allVars
<1> QED BY <1>1, <1>2, PTL DEF AccountingSpec

LEMMA InvariantKept == ASSUME IInv, [AccountingNext]_allVars PROVE IInv'
<1>1. [Next]_vars
  BY StepsOfCollector DEF allVars
<1> QED BY <1>1, CoreStep, FramesStep DEF Core, IInv, TypeOK
-----------------------------------------------------------------------------
(* What the objects take in all, and how a step changes it.                *)

(* What one object takes is a number.                                      *)
LEMMA ObjectBytes ==
  ASSUME NEW t \in Types, NEW c \in Nat
  PROVE  Size[t] \in Nat /\ c * ValueSize \in Nat /\ Size[t] + c * ValueSize \in Nat
<1>1. Size[t] \in Nat /\ ValueSize \in Nat
  BY AccountingAssumption
<1> QED BY <1>1

LEMMA BytesWeigh ==
  ASSUME AInv
  PROVE  /\ Weighs(BytesOf, Heap) /\ Held \in Nat
         /\ \A o \in Heap : BytesOf[o] = Size[type[o]] + capacity[o] * ValueSize
<1>1. IsFiniteSet(Heap) /\ Heap \subseteq Obj
  BY HeapIsFinite DEF AInv, IInv, TypeOK
<1>2. \A o \in Heap : type[o] \in Types /\ capacity[o] \in Nat
  BY <1>1 DEF AInv, OnlyTypes, RoomOK
<1>3. \A o \in Heap : BytesOf[o] = Size[type[o]] + capacity[o] * ValueSize
  BY DEF BytesOf
<1>4. \A o \in Heap : BytesOf[o] \in Nat
  BY <1>2, <1>3, ObjectBytes
<1>5. Weighs(BytesOf, Heap)
  BY <1>1, <1>4 DEF Weighs
<1> QED BY <1>3, <1>5, SumIsNumber DEF Held

(* The objects stay as they are.                                           *)
LEMMA HeldStays ==
  ASSUME AInv, Heap' = Heap, \A o \in Heap : type'[o] = type[o],
         \A o \in Heap : capacity'[o] = capacity[o]
  PROVE  Held' = Held
<1>1. \A o \in Heap : BytesOf'[o] = BytesOf[o]
  BY DEF BytesOf
<1>2. SumFunctionOnSet(BytesOf', Heap) = SumFunctionOnSet(BytesOf, Heap)
  BY <1>1, BytesWeigh, SumOfSame
<1> QED BY <1>2 DEF Held

(* There is a new object, without an array.                                *)
LEMMA HeldWithNew ==
  ASSUME AInv, NEW o \in Obj \ Heap, NEW t \in Types,
         Heap' = Heap \cup {o}, type'[o] = t,
         \A x \in Heap : type'[x] = type[x], capacity' = capacity
  PROVE  Held' = Held + Size[t]
<1>1. capacity[o] = 0 /\ capacity' = capacity
  BY DEF AInv, RoomOK
<1>2. Size[t] \in Nat /\ ValueSize \in Nat
  BY AccountingAssumption
<1>3. BytesOf'[o] = Size[t]
  <2>1. BytesOf'[o] = Size[t] + 0 * ValueSize
    BY <1>1 DEF BytesOf
  <2> QED BY <1>2, <2>1
<1>4. \A x \in Heap : BytesOf'[x] = BytesOf[x]
  BY <1>1 DEF BytesOf
<1>5. BytesOf'[o] \in Nat
  BY <1>2, <1>3
<1>6. SumFunctionOnSet(BytesOf', Heap \cup {o})
        = BytesOf'[o] + SumFunctionOnSet(BytesOf, Heap)
  <2> DEFINE v == BytesOf'
  <2>1. v[o] \in Nat /\ \A x \in Heap : v[x] = BytesOf[x]
    BY <1>4, <1>5
  <2> HIDE DEF v
  <2>2. SumFunctionOnSet(v, Heap \cup {o})
          = v[o] + SumFunctionOnSet(BytesOf, Heap)
    BY <2>1, BytesWeigh, SumWithNew
  <2> QED BY <2>2 DEF v
<1>7. Held' = BytesOf'[o] + Held
  BY <1>6 DEF Held
<1> QED BY <1>2, <1>3, <1>7, BytesWeigh

(* An object is gone.                                                      *)
LEMMA HeldWithout ==
  ASSUME AInv, NEW o \in Heap, Heap' = Heap \ {o},
         \A x \in Heap \ {o} : type'[x] = type[x] /\ capacity'[x] = capacity[x]
  PROVE  /\ Held' \in Nat
         /\ Held = Size[type[o]] + capacity[o] * ValueSize + Held'
<1>1. \A x \in Heap \ {o} : BytesOf'[x] = BytesOf[x]
  BY DEF BytesOf
<1>2. /\ SumFunctionOnSet(BytesOf', Heap \ {o}) \in Nat
      /\ SumFunctionOnSet(BytesOf, Heap)
           = BytesOf[o] + SumFunctionOnSet(BytesOf', Heap \ {o})
  <2> DEFINE v == BytesOf'
  <2>1. \A x \in Heap \ {o} : v[x] = BytesOf[x]
    BY <1>1
  <2> HIDE DEF v
  <2>2. /\ SumFunctionOnSet(v, Heap \ {o}) \in Nat
        /\ SumFunctionOnSet(BytesOf, Heap)
             = BytesOf[o] + SumFunctionOnSet(v, Heap \ {o})
    BY <2>1, BytesWeigh, SumWithout
  <2> QED BY <2>2 DEF v
<1>3. Held' \in Nat /\ Held = BytesOf[o] + Held'
  BY <1>2 DEF Held
<1> QED BY <1>3, BytesWeigh

(* The array of one object becomes larger, or stays as large as it is.     *)
LEMMA HeldWithLarger ==
  ASSUME AInv, NEW o \in Heap, NEW n \in Nat, Heap' = Heap, type' = type,
         capacity[o] <= n, capacity' = [capacity EXCEPT ![o] = n]
  PROVE  Held' = Held + (n - capacity[o]) * ValueSize
<1>1. o \in Obj /\ capacity \in [Obj -> Nat] /\ type[o] \in Types
  BY HeapIsFinite DEF AInv, IInv, TypeOK, OnlyTypes, RoomOK
<1>2. capacity'[o] = n /\ \A x \in Obj \ {o} : capacity'[x] = capacity[x]
  BY <1>1
<1>3. \A x \in Heap \ {o} : BytesOf'[x] = BytesOf[x]
  <2>1. Heap \subseteq Obj
    BY HeapIsFinite DEF AInv, IInv, TypeOK
  <2> QED BY <1>2, <2>1 DEF BytesOf
<1>4. BytesOf'[o] = Size[type[o]] + n * ValueSize
  BY <1>2 DEF BytesOf
<1>5. /\ Size[type[o]] \in Nat /\ capacity[o] \in Nat /\ ValueSize \in Nat
      /\ n * ValueSize \in Nat /\ capacity[o] * ValueSize \in Nat
  BY <1>1, AccountingAssumption, ObjectBytes
<1> DEFINE v == BytesOf'
           rest == SumFunctionOnSet(v, Heap \ {o})
<1>6. \A x \in Heap \ {o} : v[x] = BytesOf[x]
  BY <1>3
<1>7. v[o] \in Nat
  BY <1>4, <1>5
<1> HIDE DEF v
<1>8. rest \in Nat /\ Held = BytesOf[o] + rest
  BY <1>6, BytesWeigh, SumWithout DEF Held
<1>9. SumFunctionOnSet(v, Heap) = v[o] + rest
  <2>1. \A x \in Heap : v[x] \in Nat
    BY <1>6, <1>7, BytesWeigh DEF Weighs
  <2>2. Weighs(v, Heap)
    BY <2>1, BytesWeigh DEF Weighs
  <2> QED BY <2>2, SumOfOneMore
<1> HIDE DEF rest
<1>10. Held' = Size[type[o]] + n * ValueSize + rest
  <2>1. Held' = SumFunctionOnSet(v, Heap)
    BY DEF Held, v
  <2> QED BY <1>4, <1>9, <2>1 DEF v
<1>11. Held = Size[type[o]] + capacity[o] * ValueSize + rest
  BY <1>8, BytesWeigh
<1>12. n * ValueSize = capacity[o] * ValueSize + (n - capacity[o]) * ValueSize
  BY <1>5
<1>13. (n - capacity[o]) * ValueSize \in Int
  BY <1>5
<1> QED BY <1>5, <1>8, <1>10, <1>11, <1>12, <1>13
-----------------------------------------------------------------------------
(* One lemma per kind of step.                                             *)

LEMMA Names ==
  /\ DOMAIN Constructs = {"syntax", "cons", "pair", "vector"}
  /\ Made("append") = "PAIR" /\ Made("syntax") = "SYNTAX"
  /\ Made("cons") = "PAIR" /\ Made("pair") = "PAIR"
  /\ Made("vector") = "VECTOR"
  /\ \A n \in DOMAIN Constructs : Made(n) = Constructs[n]
BY DEF Constructs, Made

(* Nothing is pending unless an object is being made.                      *)
LEMMA PendingBytes ==
  ASSUME AInv
  PROVE  /\ Pending \in Nat
         /\ op.name \in {"none", "write"} => Pending = 0
         /\ op.name \notin {"none", "write"} =>
              Made(op.name) \in Types /\ Pending = Size[Made(op.name)]
<1>1. CASE op.name \in {"none", "write"}
  BY <1>1, Names DEF Pending
<1>2. CASE op.name \notin {"none", "write"}
  <2>1. op.name \in {"append"} \cup DOMAIN Constructs
    BY <1>2 DEF AInv, OnlyTypes
  <2>2. Made(op.name) \in Types /\ Pending = Size[Made(op.name)]
    BY <2>1 DEF AInv, OnlyTypes, Pending
  <2>3. Size[Made(op.name)] \in Nat
    BY <2>2, AccountingAssumption
  <2> QED BY <1>2, <2>2, <2>3
<1> QED BY <1>1, <1>2

LEMMA HeapAfter ==
  ASSUME UNCHANGED heapVars
  PROVE  Heap' = Heap /\ objects' = objects /\ type' = type /\ slots' = slots
BY DEF heapVars, Heap

(* A step that neither allocates nor frees.                                *)
LEMMA UntouchedStep ==
  ASSUME AInv, IInv', UNCHANGED heapVars, op' = op,
         UNCHANGED <<capacity, lost, bytesAllocated>>
  PROVE  AInv'
<1>1. Heap' = Heap /\ type' = type /\ slots' = slots
  BY HeapAfter
<1>2. Held' = Held
  BY <1>1, HeldStays
<1>3. Pending' = Pending
  BY DEF Pending
<1>4. BytesAreCounted'
  <2>1. bytesAllocated' = Held' + Pending' + lost'
    BY <1>2, <1>3 DEF AInv, BytesAreCounted, Held
  <2>2. \A o \in Heap' : Len(slots'[o]) <= capacity'[o] \/ type'[o] # "VECTOR"
    BY <1>1 DEF AInv, BytesAreCounted
  <2> QED BY <2>1, <2>2 DEF BytesAreCounted, Held
<1>5. OnlyTypes'
  BY <1>1 DEF AInv, OnlyTypes
<1>6. RoomOK'
  BY <1>1 DEF AInv, RoomOK
<1> QED BY <1>4, <1>5, <1>6 DEF AInv

(* What the requests for an object have in common.                         *)
LEMMA ObjectRequests ==
  ASSUME NewSyntax \/ GuardedCons \/ NewPair \/ AppendElement \/ NewVector
  PROVE  /\ UNCHANGED heapVars /\ op = NoOp
         /\ op'.name \in {"append"} \cup DOMAIN Constructs
         /\ Made(op'.name) \in Types
         /\ op'.name = "vector" => op'.args = <<>>
<1>1. CASE NewSyntax
  BY <1>1, Names DEF NewSyntax, Request, Idle
<1>2. CASE GuardedCons
  BY <1>2, Names DEF GuardedCons, Request, Idle, Running
<1>3. CASE NewPair
  BY <1>3, Names DEF NewPair, Request, Idle
<1>4. CASE AppendElement
  BY <1>4, Names DEF AppendElement, Request, Idle
<1>5. CASE NewVector
  BY <1>5, Names DEF NewVector, Request, Idle
<1> QED BY <1>1, <1>2, <1>3, <1>4, <1>5

LEMMA AllocateObjectStep ==
  ASSUME AInv, IInv', AllocateObject PROVE AInv'
<1>1. /\ UNCHANGED heapVars /\ op = NoOp
      /\ op'.name \in {"append"} \cup DOMAIN Constructs
      /\ Made(op'.name) \in Types
      /\ op'.name = "vector" => op'.args = <<>>
  BY ObjectRequests DEF AllocateObject
<1> DEFINE t == Made(op'.name)
<1>2. bytesAllocated' = bytesAllocated + Size[t] /\ lost' = lost
        /\ capacity' = capacity
  BY DEF AllocateObject, Grows
<1>3. Heap' = Heap /\ type' = type /\ slots' = slots
  BY <1>1, HeapAfter
<1>4. Held' = Held
  BY <1>2, <1>3, HeldStays
<1>5. Pending = 0
  BY <1>1, PendingBytes DEF NoOp
<1>6. Pending' = Size[t]
  BY <1>1 DEF Pending
<1>7. bytesAllocated = Held + lost
  <2>1. bytesAllocated = Held + Pending + lost
    BY DEF AInv, BytesAreCounted, Held
  <2> QED BY <1>5, <2>1, BytesWeigh
<1>8. bytesAllocated' = Held' + Pending' + lost'
  <2>1. Size[t] \in Nat /\ Held \in Nat /\ lost \in Nat
    BY <1>1, AccountingAssumption, BytesWeigh DEF AInv, RoomOK
  <2> HIDE DEF t
  <2> QED BY <1>2, <1>4, <1>6, <1>7, <2>1
<1>9. \A o \in Heap' : Len(slots'[o]) <= capacity'[o] \/ type'[o] # "VECTOR"
  BY <1>2, <1>3 DEF AInv, BytesAreCounted
<1>10. BytesAreCounted'
  BY <1>8, <1>9 DEF BytesAreCounted, Held
<1>11. OnlyTypes'
  BY <1>1, <1>3 DEF AInv, OnlyTypes
<1>12. RoomOK'
  <2>1. op'.name # "write"
    BY <1>1, Names
  <2> QED BY <1>1, <1>2, <1>3, <2>1 DEF AInv, RoomOK
<1> QED BY <1>10, <1>11, <1>12 DEF AInv

(* The array of a vector is full, or it is not: there is room afterwards.  *)
LEMMA RoomIsMade ==
  ASSUME NEW old \in Nat, NEW length \in Nat, length <= old
  PROVE  LET new == IF old <= length THEN GROW_CAPACITY(old) ELSE old
         IN  new \in Nat /\ old <= new /\ length < new
<1>1. MinCapacity \in Nat /\ MinCapacity # 0
  BY AccountingAssumption
<1>2. GROW_CAPACITY(old) \in Nat /\ old < GROW_CAPACITY(old)
  <2>1. CASE old < MinCapacity
    BY <1>1, <2>1 DEF GROW_CAPACITY
  <2>2. CASE ~(old < MinCapacity)
    <3>1. GROW_CAPACITY(old) = 2 * old /\ 0 < old
      BY <1>1, <2>2 DEF GROW_CAPACITY
    <3> QED BY <3>1
  <2> QED BY <2>1, <2>2
<1> QED BY <1>2

LEMMA SmartArrayAppendStep ==
  ASSUME AInv, IInv', SmartArrayAppend PROVE AInv'
<1>1. PICK vector \in IF isOn THEN Pointees(stack) ELSE held,
           value \in AtHand \cup {Nil} :
        /\ type[vector] = "VECTOR"
        /\ Request("write", <<vector, value>>, "none", <<value>>)
  BY DEF SmartArrayAppend, VectorAppend
<1>2. /\ UNCHANGED heapVars /\ op = NoOp
      /\ op'.name = "write" /\ op'.args[1] = vector
  <2>1. op = NoOp
    BY DEF SmartArrayAppend, VectorAppend, Idle
  <2> QED BY <1>1, <2>1 DEF Request
<1>3. vector \in Heap /\ vector \in Obj
  <2>1. Pointees(stack) \cup held \subseteq Obj
    BY DEF AInv, IInv, TypeOK, RootsOK, Pointees
  <2>2. vector \in Obj
    BY <1>1, <2>1
  <2>3. \A o \in Obj : type[o] # "FREE" => o \in Heap
    BY DEF AInv, IInv, TypeOK, HeapOK
  <2> QED BY <1>1, <2>2, <2>3
<1> DEFINE length == Len(slots[vector])
           old == capacity[vector]
           new == IF old <= length THEN GROW_CAPACITY(old) ELSE old
           more == (new - old) * ValueSize
<1>4. /\ capacity' = [capacity EXCEPT ![vector] = new] /\ lost' = lost
      /\ bytesAllocated' = IF new = old THEN bytesAllocated
                           ELSE bytesAllocated + more
  BY <1>2 DEF SmartArrayAppend, Grows
<1>5. old \in Nat /\ length \in Nat /\ length <= old
  <2>1. slots[vector] \in Seq(Value)
    BY <1>3 DEF AInv, IInv, TypeOK, HeapOK
  <2> QED BY <1>1, <1>3, <2>1 DEF AInv, RoomOK, BytesAreCounted
<1>6. new \in Nat /\ old <= new /\ length < new
  BY <1>5, RoomIsMade
<1>7. Heap' = Heap /\ type' = type /\ slots' = slots
  BY <1>2, HeapAfter
<1>8. Held' = Held + more
  <2> HIDE DEF new
  <2> QED BY <1>3, <1>4, <1>6, <1>7, HeldWithLarger
<1>9. more \in Int /\ (new = old => more = 0)
  <2>1. ValueSize \in Nat
    BY AccountingAssumption
  <2> HIDE DEF new, old
  <2> QED BY <1>5, <1>6, <2>1
<1>10. bytesAllocated' = bytesAllocated + more
  <2>1. bytesAllocated \in Int
    BY BytesWeigh, PendingBytes DEF AInv, BytesAreCounted, RoomOK, Held
  <2> HIDE DEF new, old, more
  <2> QED BY <1>4, <1>9, <2>1
<1>11. bytesAllocated' = Held' + Pending' + lost'
  <2>1. Pending = 0 /\ Pending' = 0
    BY <1>2, Names, PendingBytes DEF NoOp, Pending
  <2>2. bytesAllocated = Held + 0 + lost
    BY <2>1 DEF AInv, BytesAreCounted, Held
  <2>3. Held \in Nat /\ lost \in Nat
    BY BytesWeigh DEF AInv, RoomOK
  <2> HIDE DEF more
  <2> QED BY <1>4, <1>8, <1>9, <1>10, <2>1, <2>2, <2>3
<1>12. capacity'[vector] = new
         /\ \A o \in Obj \ {vector} : capacity'[o] = capacity[o]
  BY <1>3, <1>4 DEF AInv, RoomOK
<1> HIDE DEF new, old
<1>13. BytesAreCounted'
  <2>1. ASSUME NEW o \in Heap', type'[o] = "VECTOR"
        PROVE  Len(slots'[o]) <= capacity'[o]
    <3>1. CASE o = vector
      BY <1>5, <1>6, <1>7, <1>12, <3>1
    <3>2. CASE o # vector
      <4>1. o \in Obj
        BY <1>7, HeapIsFinite DEF AInv, IInv, TypeOK
      <4> QED BY <1>7, <1>12, <2>1, <3>2, <4>1 DEF AInv, BytesAreCounted
    <3> QED BY <3>1, <3>2
  <2> QED BY <1>11, <2>1 DEF BytesAreCounted, Held
<1>14. OnlyTypes'
  BY <1>2, <1>7, Names DEF AInv, OnlyTypes
<1>15. RoomOK'
  <2>1. capacity' \in [Obj -> Nat]
    BY <1>4, <1>6 DEF AInv, RoomOK
  <2>2. \A o \in Obj \ Heap' : capacity'[o] = 0
    BY <1>3, <1>7, <1>12 DEF AInv, RoomOK
  <2>3. Len(slots'[op'.args[1]]) < capacity'[op'.args[1]]
    BY <1>2, <1>6, <1>7, <1>12
  <2>4. op'.name # "vector"
    BY <1>2
  <2> QED BY <1>4, <2>1, <2>2, <2>3, <2>4 DEF AInv, RoomOK
<1> QED BY <1>13, <1>14, <1>15 DEF AInv

(* What was asked for is there: an object without an array.                *)
LEMMA ObjectMade ==
  ASSUME AInv, IInv', NEW o \in Obj \ Heap, NEW t \in Types,
         objects' = <<o>> \o objects, type' = [type EXCEPT ![o] = t],
         op.name \notin {"none", "write"}, t = Made(op.name), op' = NoOp,
         \A x \in Heap : type[x] = "VECTOR" => slots'[x] = slots[x],
         t = "VECTOR" => slots'[o] = <<>>,
         UNCHANGED counters
  PROVE  AInv'
<1>1. UNCHANGED <<bytesAllocated, capacity, lost>>
  BY DEF counters
<1>2. /\ objects \in Seq(Obj) /\ type \in [Obj -> ObjType \cup {"FREE"}]
      /\ Heap \subseteq Obj
  BY HeapIsFinite DEF AInv, IInv, TypeOK, HeapOK
<1>3. Heap' = Heap \cup {o}
  <2>1. ToSet(<<o>> \o objects) = {o} \cup ToSet(objects)
    BY <1>2, ToSetCons
  <2> QED BY <2>1 DEF Heap
<1>4. type'[o] = t /\ \A x \in Heap : type'[x] = type[x]
  BY <1>2
<1>5. Held' = Held + Size[t]
  BY <1>1, <1>3, <1>4, HeldWithNew
<1>6. Pending = Size[t] /\ Pending' = 0
  BY PendingBytes, Names DEF NoOp, Pending
<1>7. bytesAllocated' = Held' + Pending' + lost'
  <2>1. bytesAllocated = Held + Size[t] + lost
    BY <1>6 DEF AInv, BytesAreCounted, Held
  <2>2. Held \in Nat /\ Size[t] \in Nat /\ lost \in Nat
    BY BytesWeigh, AccountingAssumption DEF AInv, RoomOK
  <2> QED BY <1>1, <1>5, <1>6, <2>1, <2>2
<1>8. ASSUME NEW x \in Heap', type'[x] = "VECTOR"
      PROVE  Len(slots'[x]) <= capacity'[x]
  <2>1. CASE x = o
    <3>1. slots'[x] = <<>> /\ capacity'[x] = 0
      BY <1>1, <1>4, <1>8, <2>1 DEF AInv, RoomOK
    <3> QED BY <3>1
  <2>2. CASE x # o
    <3>1. x \in Heap /\ type[x] = "VECTOR" /\ slots'[x] = slots[x]
      BY <1>3, <1>4, <1>8, <2>2
    <3> QED BY <1>1, <3>1 DEF AInv, BytesAreCounted
  <2> QED BY <2>1, <2>2
<1>9. BytesAreCounted'
  BY <1>7, <1>8 DEF BytesAreCounted, Held
<1>10. OnlyTypes'
  BY <1>3, <1>4, Names DEF AInv, OnlyTypes, NoOp
<1>11. RoomOK'
  BY <1>1, <1>3 DEF AInv, RoomOK, NoOp
<1> QED BY <1>9, <1>10, <1>11 DEF AInv

LEMMA ConstructorStep ==
  ASSUME AInv, IInv', FinishConstructor, UNCHANGED counters PROVE AInv'
<1>1. op.name \in DOMAIN Constructs /\ op' = NoOp
  BY DEF FinishConstructor
<1>2. PICK o \in Obj : Create(o, Constructs[op.name], op.args)
  BY DEF FinishConstructor
<1>3. op.name \notin {"none", "write"} /\ Constructs[op.name] = Made(op.name)
  BY <1>1, Names
<1> DEFINE t == Made(op.name)
<1>4. /\ o \in Obj \ Heap /\ objects' = <<o>> \o objects
      /\ type' = [type EXCEPT ![o] = t]
      /\ slots' = [slots EXCEPT ![o] = op.args]
  BY <1>2, <1>3 DEF Create
<1>5. t \in Types
  BY <1>3, PendingBytes
<1>6. slots \in [Obj -> Seq(Value)]
  BY DEF AInv, IInv, TypeOK, HeapOK
<1>7. slots'[o] = op.args /\ \A x \in Heap : slots'[x] = slots[x]
  BY <1>4, <1>6
<1>8. t = "VECTOR" => op.args = <<>>
  BY <1>1, Names DEF AInv, RoomOK
<1> HIDE DEF t
<1>9. t = "VECTOR" => slots'[o] = <<>>
  BY <1>7, <1>8
<1> QED BY <1>1, <1>3, <1>4, <1>5, <1>7, <1>9, ObjectMade DEF t

LEMMA AppendElementEnds ==
  ASSUME AInv, IInv', FinishAppendElement, UNCHANGED counters PROVE AInv'
<1> DEFINE final == op.args[3]
<1>1. op.name = "append" /\ op' = NoOp
  BY DEF FinishAppendElement, Finishing
<1>2. PICK o \in Obj \ Heap :
        /\ objects' = <<o>> \o objects
        /\ type' = [type EXCEPT ![o] = "PAIR"]
        /\ slots' = [slots EXCEPT ![o] = <<op.args[2], Nil>>,
                                  ![final] = <<slots[final][1], o>>]
  BY DEF FinishAppendElement
<1>3. final \in Obj /\ type[final] = "PAIR"
  BY <1>1 DEF AInv, IInv, ArgsOK, Is
<1>4. slots \in [Obj -> Seq(Value)]
  BY DEF AInv, IInv, TypeOK, HeapOK
<1> HIDE DEF final
<1>5. ASSUME NEW x \in Heap, type[x] = "VECTOR" PROVE slots'[x] = slots[x]
  <2>1. x \in Obj /\ x # o /\ x # final
    BY <1>3, <1>5, HeapIsFinite DEF AInv, IInv, TypeOK
  <2> QED BY <1>2, <1>4, <2>1
<1>6. "PAIR" \in Types /\ "PAIR" = Made(op.name) /\ "PAIR" # "VECTOR"
  BY <1>1, PendingBytes, Names
<1> QED BY <1>1, <1>2, <1>5, <1>6, ObjectMade

LEMMA WriteEnds ==
  ASSUME AInv, IInv', FinishWriteValueArray, UNCHANGED counters PROVE AInv'
<1> DEFINE owner == op.args[1]
<1>1. /\ op.name = "write" /\ op' = NoOp /\ objects' = objects /\ type' = type
      /\ slots' = [slots EXCEPT ![owner] = Append(@, op.args[2])]
  BY DEF FinishWriteValueArray, Finishing
<1>2. UNCHANGED <<bytesAllocated, capacity, lost>>
  BY DEF counters
<1>3. owner \in Obj
  BY <1>1 DEF AInv, IInv, ArgsOK, Is
<1>4. slots \in [Obj -> Seq(Value)]
  BY DEF AInv, IInv, TypeOK, HeapOK
<1>5. Heap' = Heap
  BY <1>1 DEF Heap
<1>6. Held' = Held
  BY <1>1, <1>2, <1>5, HeldStays
<1>7. Pending = 0 /\ Pending' = 0
  BY <1>1, Names, PendingBytes DEF NoOp, Pending
<1>8. bytesAllocated' = Held' + Pending' + lost'
  BY <1>2, <1>6, <1>7 DEF AInv, BytesAreCounted, Held
<1>9. Len(slots[owner]) < capacity[owner]
  BY <1>1 DEF AInv, RoomOK
<1>10. Len(slots'[owner]) = Len(slots[owner]) + 1 /\ Len(slots[owner]) \in Nat
  <2> HIDE DEF owner
  <2>1. slots'[owner] = Append(slots[owner], op.args[2])
    BY <1>1, <1>3, <1>4
  <2>2. slots[owner] \in Seq(Value)
    BY <1>3, <1>4
  <2> DEFINE s == slots[owner]
             v == op.args[2]
  <2>3. s \in Seq(Value \cup {v})
    BY <2>2
  <2> HIDE DEF s, v
  <2>4. Len(Append(s, v)) = Len(s) + 1 /\ Len(s) \in Nat
    BY <2>3
  <2> QED BY <2>1, <2>4 DEF s, v
<1> HIDE DEF owner
<1>11. ASSUME NEW o \in Heap', type'[o] = "VECTOR"
       PROVE  Len(slots'[o]) <= capacity'[o]
  <2>1. o \in Heap /\ o \in Obj
    BY <1>5, HeapIsFinite DEF AInv, IInv, TypeOK
  <2>2. CASE o = owner
    <3>1. capacity[owner] \in Nat
      BY <1>3 DEF AInv, RoomOK
    <3> QED BY <1>2, <1>9, <1>10, <2>2, <3>1
  <2>3. CASE o # owner
    <3>1. slots'[o] = slots[o] /\ type[o] = "VECTOR"
      BY <1>1, <1>4, <1>11, <2>1, <2>3
    <3> QED BY <1>2, <2>1, <3>1 DEF AInv, BytesAreCounted
  <2> QED BY <2>2, <2>3
<1>12. BytesAreCounted'
  BY <1>8, <1>11 DEF BytesAreCounted, Held
<1>13. OnlyTypes'
  BY <1>1, <1>5, Names DEF AInv, OnlyTypes, NoOp
<1>14. RoomOK'
  BY <1>1, <1>2, <1>5 DEF AInv, RoomOK, NoOp
<1> QED BY <1>12, <1>13, <1>14 DEF AInv

(* An object is freed, and its array is lost.                              *)
LEMMA FreeObjectStep ==
  ASSUME AInv, IInv', FreeObject PROVE AInv'
<1> DEFINE o == objects[cursor]
<1>1. /\ phase = "sweep" /\ cursor <= Len(objects)
      /\ objects' = RemoveAt(objects, cursor)
      /\ type' = [type EXCEPT ![o] = "FREE"]
      /\ slots' = [slots EXCEPT ![o] = <<>>]
      /\ op' = op
  BY DEF FreeObject, SweepFree
<1>2. /\ bytesAllocated' = bytesAllocated - Size[type[o]]
      /\ lost' = lost + capacity[o] * ValueSize
      /\ capacity' = [capacity EXCEPT ![o] = 0]
  BY DEF FreeObject
<1>3. /\ objects \in Seq(Obj) /\ IsInjective(objects)
      /\ cursor \in 1..Len(objects)
      /\ type \in [Obj -> ObjType \cup {"FREE"}]
      /\ slots \in [Obj -> Seq(Value)]
      /\ capacity \in [Obj -> Nat]
  BY <1>1 DEF AInv, IInv, TypeOK, HeapOK, GcOK, RoomOK
<1>4. o \in Obj /\ o \in Heap
  BY <1>3 DEF Heap, ToSet
<1>5. Heap' = Heap \ {o}
  <2>1. ToSet(RemoveAt(objects, cursor)) = ToSet(objects) \ {o}
    BY <1>3, ToSetRemoveAt
  <2> QED BY <1>1, <2>1 DEF Heap
<1>6. Heap \subseteq Obj
  BY HeapIsFinite DEF AInv, IInv, TypeOK
<1> HIDE DEF o
<1>7. /\ capacity'[o] = 0 /\ capacity[o] \in Nat /\ capacity' \in [Obj -> Nat]
      /\ \A x \in Obj \ {o} : /\ type'[x] = type[x]
                              /\ capacity'[x] = capacity[x]
                              /\ slots'[x] = slots[x]
  BY <1>1, <1>2, <1>3, <1>4
<1>8. /\ Held' \in Nat
      /\ Held = Size[type[o]] + capacity[o] * ValueSize + Held'
  BY <1>4, <1>5, <1>6, <1>7, HeldWithout
<1>9. Pending' = Pending
  BY <1>1 DEF Pending
<1>10. /\ Size[type[o]] \in Nat /\ capacity[o] * ValueSize \in Nat
       /\ lost \in Nat /\ Pending \in Nat
  <2>1. type[o] \in Types
    BY <1>4 DEF AInv, OnlyTypes
  <2> QED BY <1>7, <2>1, ObjectBytes, PendingBytes DEF AInv, RoomOK
<1>11. bytesAllocated' = Held' + Pending' + lost'
  <2>1. bytesAllocated = Held + Pending + lost
    BY DEF AInv, BytesAreCounted, Held
  <2> DEFINE a == Size[type[o]]
             b == capacity[o] * ValueSize
  <2>2. /\ Held = a + b + Held' /\ lost' = lost + b
        /\ bytesAllocated' = bytesAllocated - a
    BY <1>2, <1>8
  <2>3. a \in Nat /\ b \in Nat
    BY <1>10
  <2> HIDE DEF a, b
  <2>4. Held' \in Nat /\ lost \in Nat /\ Pending \in Nat
    BY <1>8, <1>10
  <2> QED BY <1>9, <2>1, <2>2, <2>3, <2>4
<1>12. ASSUME NEW x \in Heap', type'[x] = "VECTOR"
       PROVE  Len(slots'[x]) <= capacity'[x]
  <2>1. x \in Heap /\ x \in Obj \ {o}
    BY <1>5, <1>6
  <2>2. /\ type[x] = "VECTOR" /\ slots'[x] = slots[x]
        /\ capacity'[x] = capacity[x]
    BY <1>7, <1>12, <2>1
  <2> QED BY <2>1, <2>2 DEF AInv, BytesAreCounted
<1>13. BytesAreCounted'
  BY <1>11, <1>12 DEF BytesAreCounted, Held
<1>14. OnlyTypes'
  <2>1. \A x \in Heap' : type'[x] \in Types
    BY <1>5, <1>6, <1>7 DEF AInv, OnlyTypes
  <2> QED BY <1>1, <2>1 DEF AInv, OnlyTypes
<1>15. RoomOK'
  <2>1. lost' \in Nat
    BY <1>2, <1>10
  <2>2. \A x \in Obj \ Heap' : capacity'[x] = 0
    BY <1>5, <1>7 DEF AInv, RoomOK
  <2>3. ASSUME op'.name = "write"
        PROVE  Len(slots'[op'.args[1]]) < capacity'[op'.args[1]]
    <3> DEFINE owner == op.args[1]
    <3>1. op'.args[1] = owner /\ owner \in Obj /\ type'[owner] # "FREE"
      BY <1>1, <2>3 DEF IInv, ArgsOK, Is
    <3> HIDE DEF owner
    <3>2. owner # o
      BY <1>1, <1>3, <1>4, <3>1
    <3>3. slots'[owner] = slots[owner] /\ capacity'[owner] = capacity[owner]
      BY <1>7, <3>1, <3>2
    <3>4. Len(slots[owner]) < capacity[owner]
      BY <1>1, <2>3 DEF AInv, RoomOK, owner
    <3> QED BY <3>1, <3>3, <3>4
  <2> QED BY <1>1, <1>7, <2>1, <2>2, <2>3 DEF AInv, RoomOK
<1> QED BY <1>13, <1>14, <1>15 DEF AInv
-----------------------------------------------------------------------------
LEMMA InitAInv == AccountingInit => AInv
<1> SUFFICES ASSUME AccountingInit PROVE AInv
  OBVIOUS
<1>1. Init /\ bytesAllocated = 0 /\ lost = 0 /\ capacity = [o \in Obj |-> 0]
  BY DEF AccountingInit
<1>2. IInv
  BY <1>1, InitIInv
<1>3. Heap = {}
  BY <1>1 DEF Init, Heap, ToSet
<1>4. op = NoOp
  BY <1>1, AccountingAssumption DEF Init
<1>5. OnlyTypes
  BY <1>3, <1>4, Names DEF OnlyTypes, NoOp
<1>6. RoomOK
  BY <1>1, <1>4 DEF RoomOK, NoOp
<1>7. BytesAreCounted
  <2>1. Pending = 0
    BY <1>4, Names DEF Pending, NoOp
  <2>2. SumFunctionOnSet(BytesOf, Heap) = 0
    BY <1>3, SumOfNone
  <2> QED BY <1>1, <1>3, <2>1, <2>2 DEF BytesAreCounted
<1> QED BY <1>2, <1>5, <1>6, <1>7 DEF AInv

LEMMA AInvKept == ASSUME AInv, [AccountingNext]_allVars PROVE AInv'
<1>1. IInv'
  BY InvariantKept DEF AInv
<1>2. CASE AllocateObject
  BY <1>1, <1>2, AllocateObjectStep
<1>3. CASE SmartArrayAppend
  BY <1>1, <1>3, SmartArrayAppendStep
<1>4. CASE GoOn
  <2>1. UNCHANGED counters
    BY <1>4 DEF GoOn, Counts
  <2> QED BY <1>1, <1>4, <2>1, ConstructorStep, AppendElementEnds, WriteEnds
          DEF GoOn, Counts
<1>5. CASE \/ CollectWhenDue
           \/ Counts(Push \/ Pop \/ StartParse \/ ParseError \/ FreeAST)
           \/ Counts(Blacken \/ RemoveWhite \/ SweepKeep) \/ CollectGarbageEnd
           \/ UNCHANGED allVars
  <2>1. UNCHANGED <<capacity, lost, bytesAllocated>>
    BY <1>5 DEF CollectWhenDue, Counts, counters, CollectGarbageEnd, allVars
  <2>2. UNCHANGED heapVars /\ op' = op
    <3>1. CASE CollectWhenDue
      BY <3>1 DEF CollectWhenDue, Collect, MarkRoots
    <3>2. CASE Counts(Push \/ Pop \/ StartParse \/ ParseError \/ FreeAST)
      BY <3>2 DEF Counts, Push, Pop, StartParse, ParseError, FreeAST, MarkRoots
    <3>3. CASE Counts(Blacken \/ RemoveWhite \/ SweepKeep)
      BY <3>3 DEF Counts, Blacken, RemoveWhite, SweepKeep
    <3>4. CASE CollectGarbageEnd
      BY <3>4 DEF CollectGarbageEnd, SweepEnd
    <3>5. CASE UNCHANGED allVars
      BY <3>5 DEF allVars, vars
    <3> QED BY <1>5, <3>1, <3>2, <3>3, <3>4, <3>5
  <2> QED BY <1>1, <2>1, <2>2, UntouchedStep
<1>6. CASE FreeObject
  BY <1>1, <1>6, FreeObjectStep
<1> QED BY <1>2, <1>3, <1>4, <1>5, <1>6
        DEF AccountingNext, AccountingCollectorStep

THEOREM CounterInvariant == AccountingSpec => []AInv
BY InitAInv, AInvKept, PTL DEF AccountingSpec

(***************************************************************************)
(* The counter is right at every step of every collection, whichever       *)
(* growth starts it, and no array holds more than it has room for: for any *)
(* number of objects of any sizes, any growth of the arrays and either     *)
(* build.                                                                  *)
(***************************************************************************)
THEOREM BytesAreAlwaysCounted == AccountingSpec => []BytesAreCounted
<1>1. AInv => BytesAreCounted
  BY DEF AInv
<1> QED BY <1>1, CounterInvariant, PTL

(***************************************************************************)
(* freeObject subtracts no more than was counted: the unsigned counter     *)
(* does not wrap, and it is not below what the objects take.               *)
(***************************************************************************)
THEOREM CounterDoesNotWrap == AccountingSpec => [](bytesAllocated \in Nat)
<1>1. ASSUME AInv PROVE bytesAllocated \in Nat
  <2>1. bytesAllocated = Held + Pending + lost
    BY <1>1 DEF AInv, BytesAreCounted, Held
  <2>2. Held \in Nat /\ Pending \in Nat /\ lost \in Nat
    BY <1>1, BytesWeigh, PendingBytes DEF AInv, RoomOK
  <2> QED BY <2>1, <2>2
<1>2. AInv => bytesAllocated \in Nat
  BY <1>1
<1> QED BY <1>2, CounterInvariant, PTL

(***************************************************************************)
(* A collection that the counter starts frees nothing that is still in     *)
(* use, and leaves no mark.                                                *)
(***************************************************************************)
THEOREM DueCollectionsAreSafe == AccountingSpec => [](NoDangling /\ MarksAreClear)
<1>1. AInv => NoDangling /\ MarksAreClear
  BY DEF AInv, IInv
<1> QED BY <1>1, CounterInvariant, PTL

(***************************************************************************)
(* Nothing is freed while the collector is off, and a collection that has  *)
(* started goes on to its end.                                             *)
(***************************************************************************)
THEOREM DueCollectionsAdvance ==
  AccountingSpec => NothingFreedWhileOff /\ CollectionAdvances
<1>1. AInv => IInv
  BY DEF AInv
<1>2. IInv /\ [Next]_vars => [~isOn => Heap \subseteq Heap']_vars
  BY HeapGrowsWhileOff
<1>3. IInv /\ [Next]_vars => [Collecting => StepsLeft' < StepsLeft]_vars
  BY FewerStepsLeft
<1> QED BY <1>1, <1>2, <1>3, CounterOnlyChooses, CounterInvariant, PTL
        DEF NothingFreedWhileOff, CollectionAdvances

(***************************************************************************)
(* With a counter that decides when to collect, the collector is the       *)
(* abstract heap all the same: what is freed is exactly what cannot be     *)
(* reached, and nothing else frees anything.                               *)
(***************************************************************************)
THEOREM CounterIsAManagedHeap == AccountingSpec => ImplementsManagedHeap
<1>1. AInv => IInv
  BY DEF AInv
<1>2. Init => OnlyLiveIsMarked /\ Abstract!Init /\ NoneOpen
  <2>1. Init => OnlyLiveIsMarked
    BY DEF Init, OnlyLiveIsMarked
  <2> QED BY <2>1, NoneOpenInit, MapInit
<1>3. IInv /\ IInv' /\ OnlyLiveIsMarked /\ [Next]_vars => OnlyLiveIsMarked'
  BY OnlyLiveStep
<1>4. IInv /\ NoneOpen /\ [Next]_vars => NoneOpen'
  BY NoneOpenStep, AccountingAssumption
<1>5. AccountingSpec => [](OnlyLiveIsMarked /\ NoneOpen)
  BY <1>1, <1>2, <1>3, <1>4, CounterOnlyChooses, CounterInvariant, PTL
<1>6. IInv /\ OnlyLiveIsMarked => RInv
  BY DEF RInv
<1>7. RInv /\ RInv' /\ NoneOpen /\ [Next]_vars => [Abstract!Next]_(Abstract!vars)
  BY MapStep, NothingLeft DEF Abstract!vars, RInv
<1>8. AccountingSpec => [](RInv /\ NoneOpen)
  BY <1>1, <1>5, <1>6, CounterInvariant, PTL
<1> QED BY <1>2, <1>7, <1>8, CounterOnlyChooses, PTL
        DEF ImplementsManagedHeap, Abstract!Spec
=============================================================================
