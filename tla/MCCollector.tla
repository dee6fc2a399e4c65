---------------------------- MODULE MCCollector ----------------------------
(* Instances of Collector for TLC.                                         *)
EXTENDS Collector, TLC

(* Addresses are interchangeable.                                          *)
Symmetry == Permutations(Obj)

(***************************************************************************)
(* compile has returned a script, which interpret is going to call: its    *)
(* constant is a function without constants.                               *)
(***************************************************************************)
script == CHOOSE o \in Obj : TRUE
function == CHOOSE o \in Obj \ {script} : TRUE

Compiled ==
  /\ objects = <<script, function>>
  /\ type = [o \in Obj |->
              IF o \in {script, function} THEN "FUNCTION" ELSE "FREE"]
  /\ slots = [o \in Obj |-> CASE o = script -> <<Nil, function>>
                             [] o = function -> <<Nil>>
                             [] OTHER -> <<>>]
  /\ held = {script}
  /\ stack = <<>> /\ frames = <<>> /\ bases = <<>> /\ compilers = <<>>
  /\ openUpvalues = [i \in 1..MaxStack |-> Nil]
  /\ above = [i \in 1..MaxStack |-> Nil] /\ loose = {}
  /\ globals = [o \in Obj |-> Absent] /\ initString = Nil /\ strings = {}
  /\ isOn = TRUE /\ parsing = FALSE
  /\ op = NoOp
  /\ phase = "mutator" /\ marked = {} /\ gray = {} /\ cursor = 1

SpecOfRunning == Compiled /\ [][Next]_vars

(* The other addresses are interchangeable still.                          *)
SymmetryOfRunning == Permutations(Obj \ {script, function})
=============================================================================
