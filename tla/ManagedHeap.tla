---------------------------- MODULE ManagedHeap ----------------------------
(***************************************************************************)
(* What Ecsi's memory management promises to the rest of the interpreter:  *)
(* an object is freed only by a collection, only when the collector is on, *)
(* and only when nothing can reach it; a collection frees all such objects *)
(* in one step and takes the dead symbols out of the table of interned     *)
(* strings.                                                                *)
(*                                                                         *)
(* Collector implements this specification by marking, tracing and         *)
(* sweeping in many steps.                                                 *)
(***************************************************************************)
EXTENDS ObjectGraph

VARIABLES
  heap,     \* the objects that are allocated
  slots,    \* what each object's fields hold
  roots,    \* the objects the interpreter holds directly
  strings,  \* the interned symbols; the table does not keep them alive
  isOn      \* whether a collection may run

vars == <<heap, slots, roots, strings, isOn>>

Live == Reachable(roots, slots)

Init ==
  /\ heap = {}
  /\ slots = [o \in Obj |-> <<>>]
  /\ roots = {}
  /\ strings = {}
  /\ isOn = TRUE

(***************************************************************************)
(* Field writes: only objects that can be reached change, and they come to *)
(* hold only objects that can be reached, or the one just created.  The    *)
(* one just created can also hold a symbol that a lookup has found.        *)
(***************************************************************************)
WritesFields(fresh) ==
  /\ slots' \in [Obj -> Seq(Value)]
  /\ \A o \in Obj \ fresh :
        slots'[o] # slots[o] =>
          o \in Live /\ Pointees(slots'[o]) \subseteq Live \cup fresh
  /\ \A o \in fresh : Pointees(slots'[o]) \subseteq Live \cup strings

(***************************************************************************)
(* The interpreter moves references around.  Looking a symbol up in the    *)
(* table of interned strings can bring back one that nothing else reaches. *)
(***************************************************************************)
Mutate ==
  /\ WritesFields({})
  /\ roots' \subseteq Live \cup strings
  /\ strings' \in {strings \cup {o} : o \in Live} \cup {strings}
  /\ UNCHANGED heap

Allocate ==
  \E o \in Obj \ heap :
    /\ heap' = heap \cup {o}
    /\ WritesFields({o})
    /\ roots' \subseteq Live \cup {o}
    /\ UNCHANGED <<strings, isOn>>

Collect ==
  /\ isOn
  /\ heap' = Live
  /\ slots' = [o \in Obj |-> IF o \in Live THEN slots[o] ELSE <<>>]
  /\ strings' = strings \cap Live
  /\ UNCHANGED <<roots, isOn>>

Next == Mutate \/ Allocate \/ Collect

Spec == Init /\ [][Next]_vars
-----------------------------------------------------------------------------
(***************************************************************************)
(* Whatever the interpreter can reach is allocated, and so is whatever a   *)
(* lookup in the table of interned strings can return.                     *)
(***************************************************************************)
NoDangling == Live \cup strings \subseteq heap
=============================================================================
