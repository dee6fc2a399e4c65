---------------------------- MODULE ObjectGraph ----------------------------
(***************************************************************************)
(* The reference graph of the Ecsi heap (src/src/object.h): objects, the   *)
(* values their fields hold, and what is reachable from a set of objects.  *)
(*                                                                         *)
(* A Value is an object or Nil.  Nil stands for everything markValue and   *)
(* markObject skip: the empty list, booleans, numbers, characters and a    *)
(* NULL object pointer.                                                    *)
(***************************************************************************)
EXTENDS Sequences, Naturals

CONSTANTS
  Obj,   \* the addresses an object can have
  Nil    \* any value that is not a pointer to an object

ASSUME NilIsNoObject == Nil \notin Obj

Value == Obj \cup {Nil}

(* The objects that the fields s of an object point to. *)
Pointees(s) == {s[i] : i \in DOMAIN s} \cap Obj

(* S contains whatever its members point to. *)
IsClosed(S, slots) == \A o \in S : Pointees(slots[o]) \subseteq S

(***************************************************************************)
(* The objects reachable from from: those that every closed set around     *)
(* from contains.                                                          *)
(***************************************************************************)
Reachable(from, slots) ==
  {o \in Obj : \A S \in SUBSET Obj :
                 from \subseteq S /\ IsClosed(S, slots) => o \in S}
=============================================================================
