-------------------------------- MODULE MCVM --------------------------------
(* An instance of VM for TLC.                                              *)
EXTENDS VM

(* The last closure that is made can be called with an argument.           *)
OneWithAParameter ==
  [i \in 1..MaxClosures |-> IF i = MaxClosures THEN 1 ELSE 0]

(***************************************************************************)
(* What memory holds above the top of the stack matters to no action and   *)
(* no invariant, except for a slot that an upvalue still points at.  Nor   *)
(* does what was assigned to a variable none of whose upvalues is intact,  *)
(* since an upvalue never becomes intact again.                            *)
(***************************************************************************)
IsVisible(i) ==
  i <= top \/ \E u \in DOMAIN upvalues : upvalues[u].location.at = i

IsChecked(cell) ==
  \E c \in DOMAIN closures : \E i \in DOMAIN closures[c].cells :
    closures[c].cells[i] = cell /\ IsIntact(closures[c].upvalues[i])

View ==
  <<[i \in DOMAIN memory |-> IF IsVisible(i) THEN memory[i] ELSE Junk],
    [c \in DOMAIN contents |-> IF IsChecked(c) THEN contents[c] ELSE Junk],
    top, block, isFreed, state, frames, openUpvalues, heap, globals, cellAt,
    leaked>>
=============================================================================
