----------------------------- MODULE Accounting -----------------------------
(***************************************************************************)
(* The bytes that reallocate counts (src/src/memory.c) and what it does    *)
(* with them: when it collects.  Where Collector leaves to chance whether  *)
(* a growth collects, here the build and the counter decide.               *)
(*                                                                         *)
(* For instances with the objects that the parser makes of data: pairs,    *)
(* vectors and syntax objects, whose memory is that of the objects and the *)
(* arrays of the vectors.  The arrays of the AST and of the gray stack are *)
(* allocated with checkedRealloc, which counts nothing.                    *)
(***************************************************************************)
EXTENDS Collector

CONSTANTS
  DEBUG_STRESS_GC,  \* whether the macro is defined
  Size,             \* the size of the struct of each type of object
  ValueSize,        \* the size of a Value
  FirstLimit,       \* the first nextGC: 1024 * 1024 in initVM
  MinCapacity,      \* the first capacity of an array: 8 in GROW_CAPACITY
  MaxBytes          \* bound: arrays do not grow beyond this many bytes in all

ASSUME AccountingAssumption ==
  /\ Types \subseteq {"SYNTAX", "PAIR", "VECTOR"}
  /\ DEBUG_STRESS_GC \in BOOLEAN
  /\ Size \in [Types -> Nat \ {0}] /\ ValueSize \in Nat \ {0}
  /\ MinCapacity \in Nat \ {0} /\ {FirstLimit, MaxBytes} \subseteq Nat

VARIABLES
  bytesAllocated, nextGC,  \* of vm.gcState
  capacity,                \* the capacity of each vector's array
  isDue,                   \* reallocate is about to collect
  lost                     \* history: the bytes of arrays that nothing points to

counters == <<bytesAllocated, nextGC, capacity, isDue, lost>>
allVars == <<vars, counters>>

AccountingInit ==
  /\ Init
  /\ bytesAllocated = 0 /\ nextGC = FirstLimit
  /\ capacity = [o \in Obj |-> 0]
  /\ isDue = FALSE /\ lost = 0

(* reallocate to a larger size: what is new is counted before it collects. *)
Grows(bytes) ==
  /\ bytesAllocated' = bytesAllocated + bytes
  /\ isDue' = (isOn /\ (DEBUG_STRESS_GC \/ bytesAllocated' > nextGC))
  /\ UNCHANGED <<nextGC, lost>>

Counts(action) == action /\ UNCHANGED counters
-----------------------------------------------------------------------------
(* ALLOCATE_OBJ of the type that the operation makes.                      *)
Made(name) == IF name = "append" THEN "PAIR" ELSE Constructs[name]

AllocateObject ==
  /\ NewSyntax \/ GuardedCons \/ NewPair \/ AppendElement \/ NewVector
  /\ Grows(Size[Made(op'.name)])
  /\ UNCHANGED capacity

GROW_CAPACITY(n) == IF n < MinCapacity THEN MinCapacity ELSE 2 * n

(* smartArrayAppend, which grows the array only when it is full.           *)
SmartArrayAppend ==
  /\ VectorAppend
  /\ LET vector == op'.args[1]
         old == capacity[vector]
         new == IF old <= Len(slots[vector]) THEN GROW_CAPACITY(old) ELSE old
     IN  /\ bytesAllocated + (new - old) * ValueSize <= MaxBytes
         /\ capacity' = [capacity EXCEPT ![vector] = new]
         /\ IF new = old
            THEN UNCHANGED <<bytesAllocated, nextGC, isDue, lost>>
            ELSE Grows((new - old) * ValueSize)

(* What was waiting for memory goes on once the collection has been.       *)
GoOn ==
  /\ ~isDue
  /\ Counts(FinishConstructor \/ FinishAppendElement \/ FinishWriteValueArray)

CollectWhenDue ==
  /\ isDue /\ Collect
  /\ isDue' = FALSE
  /\ UNCHANGED <<bytesAllocated, nextGC, capacity, lost>>

(* Fault: the object itself is not counted.                                *)
FreeObjectUncounted ==
  /\ SweepFree
  /\ lost' = lost + capacity[objects[cursor]] * ValueSize
  /\ capacity' = [capacity EXCEPT ![objects[cursor]] = 0]
  /\ UNCHANGED <<bytesAllocated, nextGC, isDue>>

(* freeObject: of a vector the struct is freed, and the array is not.      *)
FreeObject ==
  /\ SweepFree
  /\ bytesAllocated' = bytesAllocated - Size[type[objects[cursor]]]
  /\ lost' = lost + capacity[objects[cursor]] * ValueSize
  /\ capacity' = [capacity EXCEPT ![objects[cursor]] = 0]
  /\ UNCHANGED <<nextGC, isDue>>

(* collectGarbage, after sweep, with GC_HEAP_GROW_FACTOR.                  *)
CollectGarbageEnd ==
  /\ SweepEnd
  /\ nextGC' = 2 * bytesAllocated
  /\ UNCHANGED <<bytesAllocated, capacity, isDue, lost>>

AccountingCollectorStep ==
  Counts(Blacken \/ RemoveWhite \/ SweepKeep) \/ FreeObject \/ CollectGarbageEnd

AccountingNext ==
  \/ AllocateObject \/ SmartArrayAppend \/ GoOn \/ CollectWhenDue
  \/ Counts(Push \/ Pop \/ StartParse \/ ParseError \/ FreeAST)
  \/ AccountingCollectorStep

(* As in Collector: collectGarbage runs to its end.                        *)
AccountingSpec ==
  /\ AccountingInit /\ [][AccountingNext]_allVars
  /\ WF_allVars(AccountingCollectorStep)
-----------------------------------------------------------------------------
(* What the waiting operation has asked for. *)
Pending ==
  IF op.name \in DOMAIN Constructs \cup {"append"} THEN Size[Made(op.name)]
  ELSE 0

(* What an object takes. *)
BytesOf == [o \in Heap |-> Size[type[o]] + capacity[o] * ValueSize]

(***************************************************************************)
(* bytesAllocated is what the objects and their arrays take, with what the *)
(* waiting operation has asked for, and what was lost with the arrays of   *)
(* freed vectors: nothing is counted twice, or freed with another size     *)
(* than it was allocated with, wherever a collection comes in between.     *)
(* The counter is unsigned: below zero it would be larger than any nextGC. *)
(***************************************************************************)
BytesAreCounted ==
  /\ bytesAllocated = SumFunctionOnSet(BytesOf, Heap) + Pending + lost
  /\ \A o \in Heap : Len(slots[o]) <= capacity[o] \/ type[o] # "VECTOR"
=============================================================================
