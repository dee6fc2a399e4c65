----------------------------- MODULE Collector -----------------------------
(***************************************************************************)
(* Ecsi's mark-and-sweep collector (src/src/memory.c) together with the    *)
(* discipline that the code which allocates objects follows so that a      *)
(* collection never frees what it still needs (src/src/object.c, value.c   *)
(* and the parts of vm.c and compiler.c that allocate).                    *)
(*                                                                         *)
(* Every growth of the heap goes through reallocate, which may collect     *)
(* before it returns.  An operation that allocates is therefore split at   *)
(* each growth: a request pushes what the operation wants protected, a     *)
(* collection may run, and a second step creates the object, pops, and     *)
(* stores the result.  Between the two the operation's C locals live in    *)
(* op.args: the collector does not look there, and the operation uses them *)
(* when it goes on.                                                        *)
(*                                                                         *)
(* Whether a growth collects depends on DEBUG_STRESS_GC and on the bytes   *)
(* allocated; here it is a free choice whenever the collector is on.       *)
(***************************************************************************)
EXTENDS ObjectGraph, SequencesExt

CONSTANTS
  Types,         \* the types of object this instance creates
  Absent,        \* "this key has no entry in the table of globals"
  MaxStack,      \* bound: pushes made by instructions stop at this height
  MaxElements,   \* bound: how many values a vector or constant array gets
  MaxFrames,     \* bound: call depth
  MaxCompilers,  \* bound: nesting of functions being compiled
  UpvalueCount   \* how many variables a function captures at most

LeafTypes == {"SYMBOL", "NATIVE"}
ObjType == LeafTypes \cup
           {"SYNTAX", "PAIR", "VECTOR", "FUNCTION", "CLOSURE", "UPVALUE"}

ASSUME CollectorAssumption ==
  /\ Types \subseteq ObjType
  /\ Absent \notin Value
  /\ {MaxStack, MaxElements, MaxFrames, MaxCompilers, UpvalueCount}
       \subseteq Nat

VARIABLES
  objects,       \* vm.objects: every allocated object, newest first
  type,          \* the type of each object, "FREE" of an unused address
  slots,         \* the values and object pointers an object holds, in order
  stack,         \* the values of vm.stack below vm.stackTop
  frames,        \* the closures of vm.frames
  bases,         \* the stack slots that their frame->slots point at
  openUpvalues,  \* vm.openUpvalues, by the stack slot an upvalue points at
  above,         \* what those above vm.stackTop point at
  loose,         \* history: the upvalues whose function has left them open
  globals,       \* vm.globals
  compilers,     \* the functions of current and its enclosing compilers
  initString,    \* vm.initString
  strings,       \* vm.strings: the interned symbols
  isOn,          \* vm.gcState.isOn
  parsing,       \* compile is between initParser and the end of the parse
  held,          \* objects that only C variables hold between operations
  op,            \* the operation that is waiting for memory
  phase,         \* what runs: "mutator", or collectGarbage's "trace", "sweep"
  marked,        \* the objects whose isMarked is set
  gray,          \* the marked objects that are on the gray stack
  cursor         \* the position of sweep's object in objects

roots == <<stack, frames, bases, openUpvalues, above, loose, globals,
           compilers, initString>>
heapVars == <<objects, type, slots>>
gcVars == <<phase, marked, gray, cursor>>
session == <<isOn, parsing>>
vars == <<heapVars, roots, strings, session, held, op, gcVars>>

Heap == ToSet(objects)

(* An operation that waits for memory: its C locals, what its caller does  *)
(* with the result, and how many values it has pushed to protect them.     *)
NoOp == [name |-> "none", args |-> <<>>, then |-> "none", pushed |-> 0]

Idle == phase = "mutator" /\ op = NoOp
Running == Idle /\ isOn
Collecting == phase \in {"trace", "sweep"}
Finishing(name) == phase = "mutator" /\ op.name = name

TopFrame == frames[Len(frames)]
Constants(function) == Pointees(Tail(slots[function]))

(* The upvalues of the running closure. *)
Captured == Pointees(Tail(slots[TopFrame]))

(* The locals and temporaries of the running function: the values above    *)
(* that of the function itself.                                            *)
Locals ==
  IF frames = <<>> THEN 1..Len(stack) ELSE (Last(bases) + 1)..Len(stack)

(***************************************************************************)
(* The values from slot i on are temporaries of the running function: no   *)
(* closure has captured them.  An upvalue that a function has left open    *)
(* may point at such a slot all the same.                                  *)
(***************************************************************************)
AreTemporaries(i) ==
  i \in Locals /\ \A j \in i..Len(stack) : openUpvalues[j] \in {Nil} \cup loose

HasTemporary == AreTemporaries(Len(stack))

(* What an instruction of the running function can push: a local, a global,*)
(* a constant, or a variable it captured; GetLeftVariable has those whose  *)
(* function has left them above the top of the stack.                      *)
Operands ==
  Pointees(stack) \cup Pointees(globals) \cup
  (IF frames = <<>> THEN {}
   ELSE Constants(slots[TopFrame][1]) \cup
        UNION {Pointees(slots[u]) : u \in Captured})

(***************************************************************************)
(* The slots above the top of the stack that an upvalue points at, and the *)
(* addresses of objects that were freed: the value in such a slot can be   *)
(* one, since the collector does not look there.                           *)
(***************************************************************************)
Strays == {i \in 1..MaxStack : i > Len(stack) /\ openUpvalues[i] # Nil}
Freed == Obj \ Heap

(* The slot that an open upvalue points at, and what is there.             *)
SlotOf(u) == CHOOSE i \in 1..MaxStack : openUpvalues[i] = u
InSlot(i) == IF i <= Len(stack) THEN stack[i] ELSE above[i]

(* What is popped stays in memory, above the new top, until it is pushed   *)
(* over; only what an upvalue points at matters there.                     *)
MemoryStays ==
  above' = [i \in 1..MaxStack |->
              IF i <= Len(stack') \/ openUpvalues'[i] = Nil THEN Nil
              ELSE InSlot(i)]
-----------------------------------------------------------------------------
(* initVM: nothing is allocated, and newSymbol("init") asks for memory.    *)
Init ==
  /\ objects = <<>>
  /\ type = [o \in Obj |-> "FREE"]
  /\ slots = [o \in Obj |-> <<>>]
  /\ stack = <<>> /\ frames = <<>> /\ bases = <<>> /\ compilers = <<>>
  /\ openUpvalues = [i \in 1..MaxStack |-> Nil]
  /\ above = [i \in 1..MaxStack |-> Nil]
  /\ loose = {}
  /\ globals = [o \in Obj |-> Absent]
  /\ initString = Nil
  /\ strings = {}
  /\ isOn = TRUE /\ parsing = FALSE
  /\ held = {}
  /\ op = IF "SYMBOL" \notin Types THEN NoOp
          ELSE [NoOp EXCEPT !.name = "symbol", !.then = "initString"]
  /\ phase = "mutator" /\ marked = {} /\ gray = {} /\ cursor = 1
-----------------------------------------------------------------------------
(* Requests.                                                               *)

(* With the collector on, a caller may not rely on anything it has not     *)
(* made reachable before it asks for memory.                               *)
Request(name, args, then, protect) ==
  /\ Heap # Obj \/ name \in {"write", "define"}
  /\ op' = [name |-> name, args |-> args, then |-> then,
            pushed |-> Len(protect)]
  /\ stack' = stack \o protect
  /\ held' = IF isOn THEN {} ELSE held
  /\ UNCHANGED <<heapVars, frames, bases, openUpvalues, loose, globals,
                 compilers, initString, strings, session, gcVars>>
  /\ MemoryStays

(* What the caller of a constructor can have at hand.                      *)
AtHand == held \cup Operands

(* Fault: the value is not pushed while its syntax object is allocated.    *)
NewSyntaxUnprotected ==
  /\ Idle /\ "SYNTAX" \in Types
  /\ \E value \in AtHand \cup {Nil} :
       Request("syntax", <<value>>, "hold", <<>>)

NewSyntax ==
  /\ Idle /\ "SYNTAX" \in Types
  /\ \E value \in AtHand \cup {Nil} :
       Request("syntax", <<value>>, "hold", <<value>>)

Guarded(value) == IF value \in Obj THEN <<value>> ELSE <<>>

GuardedCons ==
  /\ Running /\ "PAIR" \in Types
  /\ \E car, cdr \in AtHand \cup {Nil} :
       Request("cons", <<car, cdr>>, "hold", Guarded(car) \o Guarded(cdr))

(* newPair protects nothing; the parser calls it, with the collector off,  *)
(* and with a NULL object where parseExpression found no datum.            *)
NewPair ==
  /\ Idle /\ parsing /\ "PAIR" \in Types
  /\ \E car \in held \cup {Nil} : Request("pair", <<car, Nil>>, "hold", <<>>)

(***************************************************************************)
(* finalPair: the pair at the end of pair's chain of cdrs, that is, the    *)
(* one pair that every set closed under cdr contains and whose own cdr is  *)
(* no pair.                                                                *)
(***************************************************************************)
IsPair(v) == v \in Obj /\ type[v] = "PAIR"

FollowsCdr(S) == \A p \in S : IsPair(p) /\ IsPair(slots[p][2])
                                => slots[p][2] \in S

IsFinalPair(final, pair) ==
  /\ IsPair(final) /\ ~IsPair(slots[final][2])
  /\ \A S \in SUBSET Obj : pair \in S /\ FollowsCdr(S) => final \in S

(* appendElement; of the empty list it does nothing.                       *)
AppendElement ==
  /\ Idle /\ "PAIR" \in Types
  /\ \E pair \in AtHand, value \in AtHand \cup {Nil} :
       /\ IsPair(pair)
       /\ \E final \in Heap :
            /\ IsFinalPair(final, pair)
            /\ slots[final][2] = Nil
            /\ Request("append", <<pair, value, final>>, "none",
                       <<value, pair>>)

NewVector ==
  /\ Idle /\ "VECTOR" \in Types
  /\ Request("vector", <<>>, "hold", <<>>)

(***************************************************************************)
(* vectorAppend.  writeValueArray protects the value and not the vector:   *)
(* with the collector on, the vector is one on the stack.                  *)
(***************************************************************************)
VectorAppend ==
  /\ Idle
  /\ \E vector \in IF isOn THEN Pointees(stack) ELSE held,
        value \in AtHand \cup {Nil} :
       /\ type[vector] = "VECTOR" /\ Len(slots[vector]) < MaxElements
       /\ Request("write", <<vector, value>>, "none", <<value>>)

(* makeConstant, for the function of the innermost compiler.               *)
MakeConstant ==
  /\ Running /\ compilers # <<>>
  /\ Len(slots[compilers[1]]) <= MaxElements
  /\ \E value \in held \cup {Nil} :
       Request("write", <<compilers[1], value>>, "none", <<value>>)

(* newSymbol of a name that is not interned, and of one that is.           *)
NewSymbol ==
  /\ Idle /\ "SYMBOL" \in Types
  /\ Request("symbol", <<>>, "hold", <<>>)

FindSymbol ==
  /\ Idle
  /\ \E s \in strings : held' = held \cup {s}
  /\ UNCHANGED <<heapVars, roots, strings, session, op, gcVars>>

InitCompiler ==
  /\ Running /\ "FUNCTION" \in Types /\ frames = <<>>
  /\ Len(compilers) < MaxCompilers
  /\ Request("function", <<>>, "none", <<>>)

(* Fault: the function is not pushed while its closure is allocated.       *)
InterpretUnprotected ==
  /\ Running /\ "CLOSURE" \in Types /\ Len(stack) < MaxStack
  /\ frames = <<>> /\ compilers = <<>>
  /\ \E f \in held :
       type[f] = "FUNCTION" /\ Request("closure", <<f>>, "call", <<>>)

(* interpret: push(function); newClosure(function); pop()                  *)
Interpret ==
  /\ Running /\ "CLOSURE" \in Types /\ Len(stack) < MaxStack
  /\ frames = <<>> /\ compilers = <<>>
  /\ \E f \in held :
       type[f] = "FUNCTION" /\ Request("closure", <<f>>, "call", <<f>>)

(* OP_CLOSURE: the function is a constant of the running one.              *)
OpClosure ==
  /\ Running /\ frames # <<>> /\ Len(stack) < MaxStack
  /\ \E f \in Constants(slots[TopFrame][1]) :
       type[f] = "FUNCTION" /\ Request("closure", <<f>>, "capture", <<>>)

(* OP_DEFINE_GLOBAL and OP_SET_GLOBAL: the value stays on the stack while  *)
(* the table grows.                                                        *)
SetsGlobal(then) ==
  /\ Running /\ frames # <<>> /\ HasTemporary
  /\ \E name \in Constants(slots[TopFrame][1]) :
       /\ type[name] = "SYMBOL"
       /\ Request("define", <<name, Last(stack)>>, then, <<>>)

DefineGlobal == SetsGlobal("pop")
SetGlobal == SetsGlobal("set")
-----------------------------------------------------------------------------
(* The steps that go on once there is memory.                              *)

Create(o, t, fields) ==
  /\ o \notin Heap
  /\ objects' = <<o>> \o objects
  /\ type' = [type EXCEPT ![o] = t]
  /\ slots' = [slots EXCEPT ![o] = fields]

Pops(n) == SubSeq(stack, 1, Len(stack) - n)

Constructs == [syntax |-> "SYNTAX", cons |-> "PAIR", pair |-> "PAIR",
               vector |-> "VECTOR"]

FinishConstructor ==
  /\ phase = "mutator" /\ op.name \in DOMAIN Constructs
  /\ \E o \in Obj : /\ Create(o, Constructs[op.name], op.args)
                    /\ held' = held \cup {o}
  /\ stack' = Pops(op.pushed)
  /\ op' = NoOp
  /\ UNCHANGED <<frames, bases, openUpvalues, loose, globals,
                 compilers, initString, strings, session, gcVars>>
  /\ MemoryStays

(* final->cdr = CONS(value, NIL_VAL)                                       *)
FinishAppendElement ==
  /\ Finishing("append")
  /\ \E o \in Obj \ Heap :
       LET final == op.args[3] IN
       /\ objects' = <<o>> \o objects
       /\ type' = [type EXCEPT ![o] = "PAIR"]
       /\ slots' = [slots EXCEPT ![o] = <<op.args[2], Nil>>,
                                 ![final] = <<slots[final][1], o>>]
  /\ stack' = Pops(op.pushed)
  /\ op' = NoOp
  /\ UNCHANGED <<frames, bases, openUpvalues, loose, globals,
                 compilers, initString, strings, session, held, gcVars>>
  /\ MemoryStays

FinishWriteValueArray ==
  /\ Finishing("write")
  /\ slots' = [slots EXCEPT ![op.args[1]] = Append(@, op.args[2])]
  /\ stack' = Pops(op.pushed)
  /\ op' = NoOp
  /\ UNCHANGED <<objects, type, frames, bases, openUpvalues, loose, globals,
                 compilers, initString, strings, session, held, gcVars>>
  /\ MemoryStays

(***************************************************************************)
(* allocateString: the new symbol is pushed while the table of interned    *)
(* strings makes room for it.                                              *)
(***************************************************************************)
AllocateString ==
  /\ Finishing("symbol")
  /\ \E o \in Obj : /\ Create(o, "SYMBOL", <<>>)
                    /\ stack' = Append(stack, o)
                    /\ op' = [op EXCEPT !.name = "intern",
                                        !.args = <<o>> \o op.args,
                                        !.pushed = 1]
  /\ UNCHANGED <<frames, bases, openUpvalues, loose, globals,
                 compilers, initString, strings, session, held, gcVars>>
  /\ MemoryStays

(***************************************************************************)
(* tableSet(&vm.strings, ...); pop(), and what the caller of newSymbol or  *)
(* copyString does next: keep the symbol, make it vm.initString and go on  *)
(* to defineNative("clock"), push it for defineNative, or name the         *)
(* function that is being compiled with it.                                *)
(***************************************************************************)
Intern ==
  /\ Finishing("intern")
  /\ strings' = strings \cup {op.args[1]}
  /\ LET symbol == op.args[1] IN
     \/ /\ op.then = "hold"
        /\ held' = held \cup {symbol}
        /\ stack' = Pops(1) /\ op' = NoOp
        /\ UNCHANGED <<slots, initString>>
     \/ /\ op.then = "initString"
        /\ initString' = symbol
        /\ stack' = Pops(1)
        /\ op' = IF "NATIVE" \notin Types THEN NoOp
                 ELSE [NoOp EXCEPT !.name = "symbol", !.then = "native"]
        /\ UNCHANGED <<slots, held>>
     \/ /\ op.then = "native"
        /\ op' = [NoOp EXCEPT !.name = "native", !.args = <<symbol>>]
        /\ UNCHANGED <<slots, stack, initString, held>>
     \/ /\ op.then = "name"
        /\ slots' = [slots EXCEPT ![op.args[2]] =
                                    <<symbol>> \o Tail(@)]
        /\ stack' = Pops(1) /\ op' = NoOp
        /\ UNCHANGED <<initString, held>>
  /\ UNCHANGED <<objects, type, frames, bases, openUpvalues, loose, globals,
                 compilers, session, gcVars>>
  /\ MemoryStays

(* defineNative: push(newNative(function)); tableSet(&vm.globals, ...)     *)
FinishNative ==
  /\ Finishing("native")
  /\ \E o \in Obj : /\ Create(o, "NATIVE", <<>>)
                    /\ stack' = Append(stack, o)
                    /\ op' = [name |-> "define", then |-> "pop",
                              args |-> op.args \o <<o>>, pushed |-> 1]
  /\ UNCHANGED <<frames, bases, openUpvalues, loose, globals,
                 compilers, initString, strings, session, held, gcVars>>
  /\ MemoryStays

(* tableSet on vm.globals; the value is popped, and so is defineNative's   *)
(* name.                                                                   *)
FinishDefine ==
  /\ Finishing("define") /\ op.then = "pop"
  /\ globals' = [globals EXCEPT ![op.args[1]] = op.args[2]]
  /\ stack' = Pops(1 + op.pushed)
  /\ op' = NoOp
  /\ UNCHANGED <<heapVars, frames, bases, openUpvalues, loose, compilers,
                 initString, strings, session, held, gcVars>>
  /\ MemoryStays

(* resetStack, as if the stack that it frees were not used again: VM has   *)
(* what happens if it is.                                                  *)
ResetStack ==
  /\ stack' = <<>> /\ frames' = <<>> /\ bases' = <<>>
  /\ openUpvalues' = [i \in 1..MaxStack |-> Nil]
  /\ loose' = loose \cup Pointees(openUpvalues)

(* OP_SET_GLOBAL: the value stays; a variable that tableSet has created is *)
(* deleted again, and that is an error.                                    *)
FinishSetGlobal ==
  /\ Finishing("define") /\ op.then = "set"
  /\ op' = NoOp
  /\ \/ /\ globals[op.args[1]] # Absent
        /\ globals' = [globals EXCEPT ![op.args[1]] = op.args[2]]
        /\ UNCHANGED <<stack, frames, bases, openUpvalues, loose>>
     \/ /\ globals[op.args[1]] = Absent
        /\ ResetStack
        /\ UNCHANGED globals
  /\ UNCHANGED <<heapVars, compilers, initString, strings, session, held,
                 gcVars>>
  /\ MemoryStays

(***************************************************************************)
(* initCompiler: the new function belongs to the innermost compiler before *)
(* copyString makes its name.  A script has no name.                       *)
(***************************************************************************)
FinishInitCompiler ==
  /\ Finishing("function")
  /\ \E o \in Obj, name \in strings \cup {Nil} :
       /\ Create(o, "FUNCTION", <<name>>)
       /\ compilers' = <<o>> \o compilers
       /\ op' \in {NoOp} \cup
                  (IF name # Nil \/ "SYMBOL" \notin Types THEN {}
                   ELSE {[NoOp EXCEPT !.name = "symbol", !.args = <<o>>,
                                      !.then = "name"]})
  /\ UNCHANGED <<stack, frames, bases, openUpvalues, above, loose, globals,
                 initString, strings, session, held, gcVars>>

(* newClosure.  interpret pops the function, pushes the closure and calls  *)
(* it; OP_CLOSURE pushes the closure and captures its upvalues.            *)
FinishClosure ==
  /\ Finishing("closure")
  /\ \E o \in Obj :
       /\ stack' = Append(Pops(op.pushed), o)
       /\ \/ /\ op.then = "call"
             /\ Create(o, "CLOSURE", op.args)
             /\ frames' = <<o>> /\ bases' = <<Len(stack')>>
             /\ op' = NoOp
          \/ /\ op.then = "capture"
             /\ \E n \in 0..UpvalueCount :
                  Create(o, "CLOSURE", op.args \o [i \in 1..n |-> Nil])
             /\ op' = [NoOp EXCEPT !.name = "capture", !.args = <<o>>]
             /\ UNCHANGED <<frames, bases>>
  /\ UNCHANGED <<openUpvalues, loose, globals, compilers, initString, strings,
                 session, held, gcVars>>
  /\ MemoryStays
-----------------------------------------------------------------------------
(* Capturing variables, one upvalue of the new closure after the other.    *)

Uncaptured(closure) == {i \in 2..Len(slots[closure]) : slots[closure][i] = Nil}
IsNext(i, closure) == i \in Uncaptured(closure)
                        /\ \A j \in Uncaptured(closure) : i <= j

(* captureUpvalue finds no open upvalue for the local: newUpvalue.  It is  *)
(* split into the request, while op stays as it is, and this step.         *)
CaptureNew ==
  /\ Finishing("capture") /\ "UPVALUE" \in Types
  /\ \E i \in 2..(1 + UpvalueCount), local \in Locals, o \in Obj \ Heap :
       /\ IsNext(i, op.args[1])
       /\ local <= MaxStack /\ openUpvalues[local] = Nil
       /\ objects' = <<o>> \o objects
       /\ type' = [type EXCEPT ![o] = "UPVALUE"]
       /\ slots' = [slots EXCEPT ![o] = <<Nil>>, ![op.args[1]][i] = o]
       /\ openUpvalues' = [openUpvalues EXCEPT ![local] = o]
  /\ UNCHANGED <<stack, frames, bases, above, loose, globals, compilers,
                 initString, strings, session, held, op, gcVars>>

(* captureUpvalue finds an open upvalue that points at the local, be it    *)
(* one that another function has left open there; or OP_CLOSURE takes over *)
(* an upvalue of the running closure.                                      *)
CaptureExisting ==
  /\ Finishing("capture")
  /\ LET shared == {openUpvalues[i] : i \in Locals \cap 1..MaxStack} \ {Nil} IN
     \E i \in 2..(1 + UpvalueCount), u \in shared \cup Captured :
       /\ IsNext(i, op.args[1])
       /\ slots' = [slots EXCEPT ![op.args[1]][i] = u]
       /\ loose' = loose \ (shared \cap {u})
  /\ UNCHANGED <<objects, type, stack, frames, bases, openUpvalues, above,
                 globals, compilers, initString, strings, session, held, op,
                 gcVars>>

CaptureEnd ==
  /\ Finishing("capture") /\ Uncaptured(op.args[1]) = {}
  /\ op' = NoOp
  /\ UNCHANGED <<heapVars, roots, strings, session, held, gcVars>>
-----------------------------------------------------------------------------
(* Operations that need no memory.                                         *)

Push ==
  /\ Running /\ Len(stack) < MaxStack
  /\ \E value \in AtHand \cup {Nil} : stack' = Append(stack, value)
  /\ UNCHANGED <<heapVars, frames, bases, openUpvalues, loose, globals,
                 compilers, initString, strings, session, held, op, gcVars>>
  /\ MemoryStays

(* Fault: endScope emits OP_POP also for a local that a closure captured.  *)
PopCaptured ==
  /\ Running /\ Len(stack) \in Locals
  /\ stack' = Front(stack)
  /\ UNCHANGED <<heapVars, frames, bases, openUpvalues, loose, globals,
                 compilers, initString, strings, session, held, op, gcVars>>
  /\ MemoryStays

(* endScope emits OP_POP only for a local that no closure captured.        *)
Pop ==
  /\ Running /\ HasTemporary
  /\ stack' = Front(stack)
  /\ UNCHANGED <<heapVars, frames, bases, openUpvalues, loose, globals,
                 compilers, initString, strings, session, held, op, gcVars>>
  /\ MemoryStays

(***************************************************************************)
(* OP_SET_LOCAL, and OP_SET_UPVALUE of a variable that is on the stack,    *)
(* or that closeUpvalues has moved into its upvalue.                       *)
(***************************************************************************)
SetVariable ==
  /\ Running /\ frames # <<>> /\ HasTemporary
  /\ \E i \in DOMAIN stack :
       /\ i \in Locals \/ openUpvalues[i] \in Captured
       /\ stack' = [stack EXCEPT ![i] = Last(stack)]
  /\ UNCHANGED <<heapVars, frames, bases, openUpvalues, above, loose,
                 globals, compilers, initString, strings, session, held, op,
                 gcVars>>

SetClosedVariable ==
  /\ Running /\ frames # <<>> /\ HasTemporary
  /\ \E u \in Captured \ (loose \cup Pointees(openUpvalues)) :
       slots' = [slots EXCEPT ![u] = <<Last(stack)>>]
  /\ UNCHANGED <<objects, type, roots, strings, session, held, op, gcVars>>

(* closeUpvalues: the variables at this slot and above it, even above the  *)
(* top, move from the stack into their upvalues.                           *)
CloseUpvalues(last) ==
  LET closed == {openUpvalues[i] : i \in last..MaxStack} \ {Nil} IN
  /\ slots' = [u \in Obj |->
                 IF u \in closed THEN <<InSlot(SlotOf(u))>> ELSE slots[u]]
  /\ openUpvalues' = [i \in 1..MaxStack |->
                        IF i < last THEN openUpvalues[i] ELSE Nil]
  /\ loose' = loose \ closed

(* OP_CLOSE_UPVALUE, of a variable that some closure may have captured.    *)
CloseUpvalue ==
  /\ Running /\ frames # <<>> /\ Len(stack) \in Locals
  /\ \A i \in Strays : above[i] \notin Freed
  /\ CloseUpvalues(Len(stack))
  /\ stack' = Front(stack)
  /\ UNCHANGED <<objects, type, frames, bases, globals, compilers, initString,
                 strings, session, held, op, gcVars>>
  /\ MemoryStays

(* call: argCount arguments lie above the closure.                         *)
Call ==
  /\ Running /\ frames # <<>> /\ Len(frames) < MaxFrames
  /\ \E i \in Locals :
       /\ AreTemporaries(i)
       /\ stack[i] \in Obj /\ type[stack[i]] = "CLOSURE"
       /\ frames' = Append(frames, stack[i])
       /\ bases' = Append(bases, i)
  /\ UNCHANGED <<heapVars, stack, openUpvalues, above, loose, globals,
                 compilers, initString, strings, session, held, op, gcVars>>

(***************************************************************************)
(* OP_RETURN of a function: its result takes the place of its frame, and   *)
(* its upvalues stay open, pointing above the top.                         *)
(***************************************************************************)
ReturnToCaller ==
  /\ Running /\ Len(frames) > 1 /\ HasTemporary
  /\ stack' = Append(SubSeq(stack, 1, Last(bases) - 1), Last(stack))
  /\ frames' = Front(frames) /\ bases' = Front(bases)
  /\ loose' = loose \cup
                ({openUpvalues[i] : i \in Last(bases)..MaxStack} \ {Nil})
  /\ UNCHANGED <<heapVars, openUpvalues, globals, compilers, initString,
                 strings, session, held, op, gcVars>>
  /\ MemoryStays

(* OP_RETURN of a script, whose scopes have ended.                         *)
ReturnFromScript ==
  /\ Running /\ Len(frames) = 1 /\ HasTemporary
  /\ Len(stack) = Last(bases) + 1
  /\ stack' = Pops(2) /\ frames' = <<>> /\ bases' = <<>>
  /\ UNCHANGED <<heapVars, openUpvalues, loose, globals, compilers, initString,
                 strings, session, held, op, gcVars>>
  /\ MemoryStays

(* OP_GET_UPVALUE and OP_SET_UPVALUE of a variable that its function has   *)
(* left, which lies above the top of the stack.                            *)
LeftVariables == {i \in Strays : openUpvalues[i] \in Captured}

GetLeftVariable ==
  /\ Running /\ frames # <<>> /\ Len(stack) < MaxStack
  /\ \E i \in LeftVariables :
       /\ above[i] \notin Freed
       /\ stack' = Append(stack, above[i])
  /\ UNCHANGED <<heapVars, frames, bases, openUpvalues, loose, globals,
                 compilers, initString, strings, session, held, op, gcVars>>
  /\ MemoryStays

SetLeftVariable ==
  /\ Running /\ frames # <<>> /\ HasTemporary
  /\ \E i \in LeftVariables : above' = [above EXCEPT ![i] = Last(stack)]
  /\ UNCHANGED <<heapVars, stack, frames, bases, openUpvalues, loose, globals,
                 compilers, initString, strings, session, held, op, gcVars>>

(***************************************************************************)
(* What the interpreter does is not defined from here on: it has copied a  *)
(* pointer to a freed object, out of a variable that its function has left *)
(* (OP_GET_UPVALUE, or OP_CLOSE_UPVALUE, which closes the upvalues above   *)
(* the top as well), or has followed an upvalue into the stack that        *)
(* resetStack freed.                                                       *)
(***************************************************************************)
UseFreed ==
  /\ Running /\ frames # <<>>
  /\ \/ \E i \in LeftVariables : above[i] \in Freed
     \/ Len(stack) \in Locals /\ \E i \in Strays : above[i] \in Freed
     \/ \E u \in Captured \cap loose : u \notin Pointees(openUpvalues)
  /\ phase' = "undefined"
  /\ UNCHANGED <<heapVars, roots, strings, session, held, op, marked, gray,
                 cursor>>

(* runtimeError. *)
RuntimeError ==
  /\ Running /\ frames # <<>>
  /\ ResetStack
  /\ UNCHANGED <<heapVars, globals, compilers, initString, strings, session,
                 held, op, gcVars>>
  /\ MemoryStays

(* endCompiler hands the finished function to the enclosing compiler.      *)
EndCompiler ==
  /\ Running /\ compilers # <<>>
  /\ held' = held \cup {compilers[1]}
  /\ compilers' = Tail(compilers)
  /\ UNCHANGED <<heapVars, stack, frames, bases, openUpvalues, above, loose,
                 globals, initString, strings, session, op, gcVars>>

(* compile: initParser turns the collector off.                            *)
StartParse ==
  /\ Idle /\ ~parsing /\ stack = <<>> /\ frames = <<>> /\ compilers = <<>>
  /\ parsing' = TRUE /\ isOn' = FALSE
  /\ held' = {}
  /\ UNCHANGED <<heapVars, roots, strings, op, gcVars>>

(* A parse error: compile returns, and the collector stays off.            *)
ParseError ==
  /\ Idle /\ parsing
  /\ parsing' = FALSE
  /\ held' = {}
  /\ UNCHANGED <<heapVars, roots, strings, isOn, op, gcVars>>
-----------------------------------------------------------------------------
(* The collector.                                                          *)

(* Every object that a variable of the interpreter refers to.              *)
Roots ==
  Pointees(stack) \cup Pointees(frames) \cup Pointees(openUpvalues)
    \cup {name \in Obj : globals[name] # Absent} \cup Pointees(globals)
    \cup Pointees(compilers) \cup ({initString} \cap Obj)

(* Fault: markRoots passes over the list of open upvalues.                 *)
MarkRootsButUpvalues ==
  /\ phase = "mutator"
  /\ phase' = "trace"
  /\ marked' = marked \cup (Roots \ Pointees(openUpvalues))
  /\ gray' = gray \cup ((Roots \ Pointees(openUpvalues)) \ marked)
  /\ UNCHANGED <<heapVars, roots, strings, cursor>>

(* markRoots marks them all; markTable marks keys and values.  markObject  *)
(* passes over an object that is marked already.                           *)
MarkRoots ==
  /\ phase = "mutator"
  /\ phase' = "trace"
  /\ marked' = marked \cup Roots
  /\ gray' = gray \cup (Roots \ marked)
  /\ UNCHANGED <<heapVars, roots, strings, cursor>>

(* Fault: a growth collects even when the collector is off.                *)
CollectAlways ==
  /\ op # NoOp
  /\ MarkRoots
  /\ UNCHANGED <<session, held, op>>

(* A growth inside an operation calls collectGarbage.                      *)
Collect ==
  /\ isOn /\ op # NoOp
  /\ MarkRoots
  /\ UNCHANGED <<session, held, op>>

(* A growth of memory that holds no objects, such as a chunk's code.       *)
Grow ==
  /\ Running
  /\ MarkRoots
  /\ held' = {}
  /\ UNCHANGED <<session, op>>

(* freeAST: the tree is dropped, the collector turned on, and run.         *)
FreeAST ==
  /\ Idle /\ parsing
  /\ parsing' = FALSE /\ isOn' = TRUE
  /\ held' = {}
  /\ MarkRoots
  /\ UNCHANGED op

(* Fault: blackenObject takes a function for an object without fields.     *)
MarkedByButFunctions(o) ==
  IF type[o] \in LeafTypes \cup {"FUNCTION"} THEN {} ELSE Pointees(slots[o])

(* Fault: blackenObject forgets the upvalues of a closure.                 *)
MarkedByButUpvalues(o) ==
  IF type[o] \in LeafTypes THEN {}
  ELSE IF type[o] = "CLOSURE" THEN {slots[o][1]} ELSE Pointees(slots[o])

(* What blackenObject marks: the fields of the types that have any.        *)
MarkedBy(o) == IF type[o] \in LeafTypes THEN {} ELSE Pointees(slots[o])

(* Fault: markObject grays an object again that is marked already.         *)
BlackenAgain ==
  /\ phase = "trace"
  /\ \E o \in gray : /\ marked' = marked \cup MarkedBy(o)
                     /\ gray' = (gray \ {o}) \cup MarkedBy(o)
  /\ UNCHANGED <<heapVars, roots, strings, session, held, op, phase, cursor>>

Blacken ==
  /\ phase = "trace"
  /\ \E o \in gray :
       /\ marked' = marked \cup MarkedBy(o)
       /\ gray' = (gray \ {o}) \cup (MarkedBy(o) \ marked)
  /\ UNCHANGED <<heapVars, roots, strings, session, held, op, phase, cursor>>

(* Fault: the unmarked symbols stay in the table.                          *)
RemoveNothing ==
  /\ phase = "trace" /\ gray = {}
  /\ phase' = "sweep" /\ cursor' = 1
  /\ UNCHANGED <<heapVars, roots, strings, session, held, op, marked, gray>>

(* tableRemoveWhite(&vm.strings)                                           *)
RemoveWhite ==
  /\ phase = "trace" /\ gray = {}
  /\ strings' = strings \cap marked
  /\ phase' = "sweep" /\ cursor' = 1
  /\ UNCHANGED <<heapVars, roots, session, held, op, marked, gray>>

(* Fault: sweep leaves the mark of an object that it keeps.                *)
SweepKeepMarked ==
  /\ phase = "sweep" /\ cursor <= Len(objects) /\ objects[cursor] \in marked
  /\ cursor' = cursor + 1
  /\ UNCHANGED <<heapVars, roots, strings, session, held, op, phase, marked,
                 gray>>

SweepKeep ==
  /\ phase = "sweep" /\ cursor <= Len(objects) /\ objects[cursor] \in marked
  /\ marked' = marked \ {objects[cursor]}
  /\ cursor' = cursor + 1
  /\ UNCHANGED <<heapVars, roots, strings, session, held, op, phase, gray>>

(* Fault: sweep does not unlink the object that it frees.                  *)
SweepFreeLinked ==
  /\ phase = "sweep" /\ cursor <= Len(objects) /\ objects[cursor] \notin marked
  /\ type' = [type EXCEPT ![objects[cursor]] = "FREE"]
  /\ slots' = [slots EXCEPT ![objects[cursor]] = <<>>]
  /\ cursor' = cursor + 1
  /\ UNCHANGED <<objects, roots, strings, session, held, op, phase, marked,
                 gray>>

SweepFree ==
  /\ phase = "sweep" /\ cursor <= Len(objects) /\ objects[cursor] \notin marked
  /\ objects' = RemoveAt(objects, cursor)
  /\ type' = [type EXCEPT ![objects[cursor]] = "FREE"]
  /\ slots' = [slots EXCEPT ![objects[cursor]] = <<>>]
  /\ loose' = loose \ {objects[cursor]}
  /\ UNCHANGED <<stack, frames, bases, openUpvalues, above, globals, compilers,
                 initString, strings, session, held, op, gcVars>>

SweepEnd ==
  /\ phase = "sweep" /\ cursor > Len(objects)
  /\ phase' = "mutator" /\ cursor' = 1
  /\ UNCHANGED <<heapVars, roots, strings, session, held, op, marked, gray>>
-----------------------------------------------------------------------------
Requests ==
  \/ NewSyntax \/ GuardedCons \/ NewPair \/ AppendElement \/ NewVector
  \/ VectorAppend \/ MakeConstant \/ NewSymbol \/ InitCompiler
  \/ Interpret \/ OpClosure \/ DefineGlobal \/ SetGlobal

Finishes ==
  \/ FinishConstructor \/ FinishAppendElement \/ FinishWriteValueArray
  \/ AllocateString \/ Intern \/ FinishNative \/ FinishDefine
  \/ FinishSetGlobal \/ FinishInitCompiler \/ FinishClosure
  \/ CaptureNew \/ CaptureExisting \/ CaptureEnd

Moves ==
  \/ FindSymbol \/ Push \/ Pop \/ SetVariable \/ SetClosedVariable
  \/ CloseUpvalue \/ Call \/ ReturnToCaller \/ ReturnFromScript
  \/ GetLeftVariable \/ SetLeftVariable \/ UseFreed \/ RuntimeError
  \/ EndCompiler \/ StartParse \/ ParseError

CollectorStep == Blacken \/ RemoveWhite \/ SweepKeep \/ SweepFree \/ SweepEnd

Next ==
  \/ Requests \/ Finishes \/ Moves
  \/ Collect \/ Grow \/ FreeAST \/ CollectorStep

(* collectGarbage runs to its end: nothing else runs in the meantime.      *)
Spec == Init /\ [][Next]_vars /\ WF_vars(CollectorStep)
-----------------------------------------------------------------------------
(***************************************************************************)
(* The objects that the running collection will not free: those sweep has  *)
(* kept so far and those it will find marked.                              *)
(***************************************************************************)
Survivors ==
  IF phase = "sweep" THEN {objects[i] : i \in 1..(cursor - 1)} \cup marked
  ELSE Heap

(* The fields of the objects that survive. *)
Contents == [o \in Obj |-> IF o \in Survivors THEN slots[o] ELSE <<>>]

(* What the interpreter can still use: the roots, what C variables hold,   *)
(* and the arguments of the operation that is waiting for memory.          *)
InUse == Roots \cup held \cup Pointees(op.args)

OpNames == {"none", "append", "write", "symbol", "intern", "native",
            "define", "function", "closure", "capture"}
             \cup DOMAIN Constructs

(* How many fields an object of a type has. *)
HasShape(fields, t) ==
  /\ t \in LeafTypes \cup {"FREE"} => fields = <<>>
  /\ t \in {"SYNTAX", "UPVALUE"} => Len(fields) = 1
  /\ t = "PAIR" => Len(fields) = 2
  /\ t \in {"FUNCTION", "CLOSURE"} => fields # <<>>

HeapOK ==
  /\ objects \in Seq(Obj) /\ IsInjective(objects)
  /\ type \in [Obj -> ObjType \cup {"FREE"}]
  /\ \A o \in Obj : o \in Heap <=> type[o] # "FREE"
  /\ slots \in [Obj -> Seq(Value)]
  /\ \A o \in Obj : HasShape(slots[o], type[o])

RootsOK ==
  /\ stack \in Seq(Value) /\ compilers \in Seq(Obj)
  /\ frames \in Seq(Obj)
  /\ openUpvalues \in [1..MaxStack -> Value]
  /\ globals \in [Obj -> Value \cup {Absent}]
  /\ initString \in Value
  /\ strings \subseteq Obj /\ held \subseteq Obj

FramesOK ==
  /\ bases \in Seq(Nat \ {0}) /\ Len(bases) = Len(frames)
  /\ above \in [1..MaxStack -> Value]
  /\ loose \subseteq Obj

OpOK ==
  /\ op \in [name : OpNames, args : Seq(Value),
             then : {"none", "hold", "initString", "native", "name", "call",
                     "capture", "pop", "set"},
             pushed : 0..2]
  /\ op.pushed <= Len(stack)

GcOK ==
  /\ isOn \in BOOLEAN /\ parsing \in BOOLEAN
  /\ phase \in {"mutator", "trace", "sweep", "undefined"}
  /\ marked \subseteq Obj /\ gray \subseteq marked
  /\ cursor \in 1..(Len(objects) + 1)

TypeOK == HeapOK /\ RootsOK /\ FramesOK /\ OpOK /\ GcOK
-----------------------------------------------------------------------------
(***************************************************************************)
(* No dangling pointer: whatever the interpreter can still use, or find    *)
(* among the interned symbols, is not going to be freed by the collection  *)
(* that is running, and the same holds of what those objects point to.     *)
(* While marks are still being set this is not known yet: see TriColour.   *)
(* The variables that a function has left above the top of the stack are   *)
(* not among what it can use: their values can be freed, and               *)
(* OnlyLeftVariablesDangle says that nothing else comes of that.           *)
(***************************************************************************)
NoDangling ==
  /\ InUse \cup strings \subseteq Survivors
  /\ \A o \in Survivors : Pointees(slots[o]) \subseteq Survivors
  /\ Survivors \subseteq Heap

(* How many values the waiting operation takes off the stack in all.       *)
Dropped ==
  op.pushed + IF op.name = "native" \/ (op.name = "define" /\ op.then = "pop")
              THEN 1 ELSE 0

(***************************************************************************)
(* Only returns leave upvalues open above the top of the stack: whatever   *)
(* else shortens it closes them first, pops what no closure has captured,  *)
(* or empties the list.                                                    *)
(***************************************************************************)
StraysAreLoose ==
  \A i \in 1..MaxStack :
    i > Len(stack) - Dropped => openUpvalues[i] \in {Nil} \cup loose

(***************************************************************************)
(* The interpreter comes to a freed object or to the freed stack only      *)
(* through a variable that its function has left: one above the top of the *)
(* stack whose value a collection has freed, or one that resetStack        *)
(* dropped.  A variable that is on the stack or closed never dangles.      *)
(***************************************************************************)
OnlyLeftVariablesDangle ==
  phase = "undefined" =>
    \E u \in loose :
      \/ u \notin Pointees(openUpvalues)
      \/ \E i \in Strays : openUpvalues[i] = u /\ above[i] \in Freed

(***************************************************************************)
(* While traceReferences runs, the roots are marked and only an object     *)
(* that is still on the gray stack can point to an unmarked one.           *)
(***************************************************************************)
TriColour ==
  phase = "trace" =>
    /\ Roots \subseteq marked
    /\ \A o \in marked \ gray : Pointees(slots[o]) \subseteq marked

(***************************************************************************)
(* sweep leaves no mark behind: otherwise the next collection would not    *)
(* trace through that object, and would keep it once it is garbage.        *)
(***************************************************************************)
MarksAreClear == ~Collecting => marked = {} /\ gray = {}

(***************************************************************************)
(* An operation that is waiting for memory with the collector on can be    *)
(* interrupted by a collection; whatever its C locals point to must then   *)
(* be reachable from the roots.                                            *)
(***************************************************************************)
LocalsAreProtected ==
  isOn => Pointees(op.args) \subseteq Reachable(Roots, slots)

(* Which arguments an operation has while it waits. *)
Is(t, v) == v \in Obj /\ type[v] = t

ArgsOK ==
  /\ op.name = "none" => op.args = <<>>
  /\ op.name \in DOMAIN Constructs => HasShape(op.args, Constructs[op.name])
  /\ op.name = "append" =>
       Len(op.args) = 3 /\ Is("PAIR", op.args[3])
  /\ op.name = "write" =>
       Len(op.args) = 2
         /\ (Is("VECTOR", op.args[1]) \/ Is("FUNCTION", op.args[1]))
  /\ op.name \in {"symbol", "intern"} =>
       op.then \in {"hold", "initString", "native", "name"}
  /\ op.name = "symbol" /\ op.then = "name" =>
       Len(op.args) = 1 /\ Is("FUNCTION", op.args[1])
  /\ op.name = "intern" =>
       /\ op.args # <<>> /\ Is("SYMBOL", op.args[1]) /\ op.pushed = 1
       /\ op.then = "name" => Len(op.args) = 2 /\ Is("FUNCTION", op.args[2])
  /\ op.name = "native" =>
       Len(op.args) = 1 /\ Is("SYMBOL", op.args[1]) /\ stack # <<>>
  /\ op.name = "define" =>
       Len(op.args) = 2 /\ Is("SYMBOL", op.args[1]) /\ op.pushed < Len(stack)
  /\ op.name = "closure" =>
       /\ Len(op.args) = 1 /\ Is("FUNCTION", op.args[1])
       /\ op.then = "capture" => frames # <<>>
  /\ op.name = "capture" =>
       /\ Len(op.args) = 1 /\ Is("CLOSURE", op.args[1])
       /\ op.pushed = 0 /\ frames # <<>>

FitsClosure(fields) ==
  /\ Is("FUNCTION", fields[1])
  /\ \A u \in Pointees(Tail(fields)) : Is("UPVALUE", u)

(* What type the objects have that the interpreter takes for granted.      *)
TypesFit ==
  /\ \A c \in Pointees(frames) : Is("CLOSURE", c)
  /\ \A f \in Pointees(compilers) : Is("FUNCTION", f)
  /\ \A u \in Pointees(openUpvalues) : Is("UPVALUE", u)
  /\ \A s \in strings : Is("SYMBOL", s)
  /\ \A c \in Survivors : type[c] = "CLOSURE" => FitsClosure(slots[c])

(***************************************************************************)
(* When the collector is off and when C variables alone hold objects: only *)
(* while the parser runs, or between two operations, and never while a     *)
(* collection runs.                                                        *)
(***************************************************************************)
SessionOK ==
  /\ parsing => ~isOn
  /\ Collecting => isOn
  /\ isOn /\ op # NoOp => held = {}
  /\ Collecting => held = {}

(* The marks while a collection runs. *)
MarksOK ==
  /\ phase = "trace" => marked \subseteq Heap
  /\ phase = "sweep" => /\ gray = {}
                        /\ marked \subseteq
                             {objects[i] : i \in cursor..Len(objects)}

(***************************************************************************)
(* The inductive invariant: no single part of it is preserved without the  *)
(* others.  An object keeps its type because it is not freed, and it is    *)
(* not freed because the marks are complete when sweep begins.             *)
(***************************************************************************)
IInv ==
  /\ TypeOK /\ ArgsOK /\ TypesFit /\ SessionOK
  /\ NoDangling /\ TriColour /\ MarksAreClear /\ MarksOK /\ LocalsAreProtected

(***************************************************************************)
(* Once the parser has turned the collector off nothing is freed, although *)
(* the parser's tree hangs from no root.                                   *)
(***************************************************************************)
NothingFreedWhileOff == [][~isOn => Heap \subseteq Heap']_vars

Untraced == Heap \ (marked \ gray)

(* How many more steps a collection takes at most: one for each object to  *)
(* trace and one for each to sweep, and one to end either.                 *)
StepsLeft ==
  CASE phase = "trace" -> Cardinality(Untraced) + Len(objects) + 2
    [] phase = "sweep" -> Len(objects) + 2 - cursor
    [] OTHER -> 0

(***************************************************************************)
(* A collection does not run in circles, whatever cycles the objects form: *)
(* no object is traced twice, and no step of the sweep repeats.            *)
(***************************************************************************)
CollectionAdvances == [][Collecting => StepsLeft' < StepsLeft]_vars

(***************************************************************************)
(* The collector frees exactly the unreachable objects, as if in one step, *)
(* and everything else moves references as ManagedHeap allows.             *)
(***************************************************************************)
Abstract == INSTANCE ManagedHeap
              WITH heap <- Survivors, slots <- Contents, roots <- InUse

ImplementsManagedHeap == Abstract!Spec

(***************************************************************************)
(* A variable that was left above the top can bring back an object that    *)
(* nothing reaches, which ManagedHeap does not allow; no other step can.   *)
(***************************************************************************)
BringsBack == (GetLeftVariable \/ CloseUpvalue) /\ Strays # {}

ManagesTheRest ==
  [][UNCHANGED Abstract!vars \/ BringsBack \/ Abstract!Next]_vars

(***************************************************************************)
(* A collection ends, whatever cycles the objects form: each object is     *)
(* pushed on the gray stack once.                                          *)
(***************************************************************************)
CollectionEnds == Collecting ~> ~Collecting
=============================================================================
