--------------------------------- MODULE VM ---------------------------------
(***************************************************************************)
(* Ecsi's stack machine (src/src/vm.c): the value stack, which grows by    *)
(* realloc and is pointed into by call frames and by open upvalues; calls  *)
(* and returns; the variables that closures share; runtime errors.         *)
(*                                                                         *)
(* Any instruction may come next that the compiler can emit there.  What   *)
(* the compiler knows is how many values the running function has on the   *)
(* stack, the height of its frame, and which of them are captured: it      *)
(* addresses locals from 1 to the height, pops only temporaries, ends the  *)
(* scope of a captured local with OP_CLOSE_UPVALUE (endScope), and ends a  *)
(* function with OP_RETURN alone (emitReturn).  Jumps choose among the     *)
(* instructions and change nothing else.                                   *)
(*                                                                         *)
(* Positions on the stack count from 1.  A use of a pointer into a block   *)
(* that was freed leads to "undefined", where the model ends.  Objects are *)
(* never freed here; Collector has the collections.                        *)
(***************************************************************************)
EXTENDS Integers, Sequences, SequencesExt

CONSTANTS
  Constant,     \* values that cannot be called
  Name,         \* names of global variables, "clock" among them
  Defined,      \* bound: those that programs define
  Junk,         \* what memory holds that nobody has written
  Absent,       \* "this name has no entry in the table of globals"
  FRAMES_MAX,   \* 64 in vm.h
  MinCapacity,  \* the first capacity of an array: 8 in GROW_CAPACITY
  MaxCapacity,  \* bound: the stack does not grow beyond this
  MaxClosures,  \* bound: how many closures are made, with the script's
  Arity,        \* the arity of the function of each of them
  MaxUpvalues   \* bound: how many variables are captured

Closure(i) == <<"closure", i>>
Data(c) == <<"constant", c>>
Native == <<"native", "clock">>
Value == {Data(c) : c \in Constant} \cup {Native}
           \cup {Closure(i) : i \in 1..MaxClosures}

ASSUME VMAssumption ==
  /\ {FRAMES_MAX, MinCapacity, MaxCapacity} \subseteq Nat \ {0}
  /\ MaxClosures \in Nat \ {0} /\ MaxUpvalues \in Nat
  /\ Arity \in [1..MaxClosures -> Nat] /\ Arity[1] = 0
  /\ MinCapacity <= MaxCapacity
  /\ "clock" \in Name /\ Defined \subseteq Name
  /\ Junk \notin Value /\ Absent \notin Value

VARIABLES
  memory,        \* the block of vm.stack: as many values as its capacity
  top,           \* vm.stackTop - vm.stack
  block,         \* which block vm.stack is: realloc may return another one
  isFreed,       \* resetStack has freed vm.stack
  frames,        \* vm.frames below vm.frameCount
  openUpvalues,  \* the list vm.openUpvalues
  upvalues,      \* the ObjUpvalues, in the order they were made
  closures,      \* the ObjClosures; the first is that of every script
  globals,       \* vm.globals
  state          \* what the process is doing

(* History: what variables there are, and what the program last assigned   *)
(* to them.                                                                *)
VARIABLES
  contents,      \* the values of the captured variables
  cellAt,        \* which captured variable a stack position is, or 0
  leaked         \* the upvalues that OP_RETURN left open

machine == <<memory, top, block, isFreed, state>>
heap == <<upvalues, closures>>
history == <<contents, cellAt, leaked>>
vars == <<machine, frames, openUpvalues, heap, globals, history>>

Position == 1..MaxCapacity

(* The location of an upvalue that is closed: its own field.               *)
own == [block |-> 0, at |-> 0]
IsStale(pointer) == pointer # own /\ pointer.block # block

frame == frames[Len(frames)]
Running == state = "running"

(* The variables and temporaries of the running function, from 1; it never *)
(* names slot 0, which holds the function itself.                          *)
Locals == 1..(frame.height - 1)

(* The n values on top are temporaries of the running function.            *)
HasTemporaries(n) ==
  n < frame.height /\ \A q \in (top - n + 1)..top : cellAt[q] = 0

HeightBecomes(h) == frames' = [frames EXCEPT ![Len(frames)].height = h]

(* The behaviour of the process is not defined from here on.               *)
Undefined ==
  /\ state' = "undefined"
  /\ UNCHANGED <<memory, top, block, isFreed, frames, openUpvalues, heap,
                 globals, history>>
-----------------------------------------------------------------------------
(* initVM: defineNative has pushed two values and popped them.             *)
Init ==
  /\ memory = [i \in 1..MinCapacity |-> Junk]
  /\ top = 0 /\ block = 1 /\ isFreed = FALSE
  /\ frames = <<>> /\ openUpvalues = <<>> /\ upvalues = <<>>
  /\ closures = <<[upvalues |-> <<>>, cells |-> <<>>]>>
  /\ globals = [n \in Name |-> IF n = "clock" THEN Native ELSE Absent]
  /\ state = "idle"
  /\ contents = <<>> /\ cellAt = [q \in Position |-> 0] /\ leaked = {}

GROW_CAPACITY(capacity) ==
  IF capacity < MinCapacity THEN MinCapacity ELSE 2 * capacity

Grown(capacity) ==
  memory \o [i \in 1..(GROW_CAPACITY(capacity) - capacity) |-> Junk]

(* Fault: the stack grows one push too late.                               *)
PushLate(height, value, after) ==
  /\ top' = height + 1
  /\ IF height <= Len(memory)
     THEN /\ memory' = [i \in DOMAIN memory |->
                          IF i = height + 1 THEN value ELSE memory[i]]
          /\ state' = IF height < Len(memory) THEN after ELSE "undefined"
          /\ UNCHANGED block
     ELSE /\ GROW_CAPACITY(Len(memory)) <= MaxCapacity
          /\ memory' = [Grown(Len(memory)) EXCEPT ![height + 1] = value]
          /\ state' = after
          /\ block' \in {block, block + 1}
  /\ UNCHANGED isFreed

(***************************************************************************)
(* push, with vm.stackTop at this height, and the state of the process     *)
(* after it.  The realloc of a full stack moves it or not; frames and      *)
(* upvalues are not adjusted.                                              *)
(***************************************************************************)
Push(height, value, after) ==
  /\ top' = height + 1
  /\ IF height < Len(memory)
     THEN /\ memory' = [memory EXCEPT ![height + 1] = value]
          /\ UNCHANGED block
     ELSE /\ GROW_CAPACITY(Len(memory)) <= MaxCapacity
          /\ memory' = [Grown(Len(memory)) EXCEPT ![height + 1] = value]
          /\ block' \in {block, block + 1}
  /\ state' = after
  /\ UNCHANGED isFreed

(* pop, whose assertion says that there is something to pop.               *)
Pop(n, after) ==
  /\ top' = IF top >= n THEN top - n ELSE top
  /\ state' = IF top >= n THEN after ELSE "aborted"
  /\ UNCHANGED <<memory, block, isFreed>>

(* The locals from position p on are out of scope.                         *)
EndScope(p) == cellAt' = [q \in Position |-> IF q >= p THEN 0 ELSE cellAt[q]]

(***************************************************************************)
(* resetStack.  The capacity stays what it was, as does the pointer to the *)
(* block, and so do the locations of the upvalues.                         *)
(***************************************************************************)
ResetStack ==
  /\ isFreed' = TRUE
  /\ memory' = [i \in DOMAIN memory |-> Junk]
  /\ top' = 0 /\ frames' = <<>> /\ openUpvalues' = <<>>
  /\ EndScope(1)
  /\ UNCHANGED <<block, heap, globals, contents, leaked>>

(* runtimeError: run returns, and the REPL goes on with the next line.     *)
RuntimeError == ResetStack /\ state' = "idle"
-----------------------------------------------------------------------------
(* A line.  What compile pushes to protect it from the collector is popped *)
(* again before it returns, and fits into the first capacity.              *)

(* interpret: call finds no frame and a script has no parameters.          *)
Interpret ==
  /\ state = "idle" /\ ~isFreed
  /\ Push(top, Closure(1), "running")
  /\ frames' = <<[closure |-> 1, slots |-> [block |-> block', at |-> top + 1],
                  height |-> 1]>>
  /\ UNCHANGED <<openUpvalues, heap, globals, history>>

(* After an error the capacity says that there is room.                    *)
InterpretAfterError == state = "idle" /\ isFreed /\ Undefined

(* freeVM: resetStack frees the stack, perhaps for the second time.        *)
FreeVM ==
  /\ state = "idle"
  /\ ResetStack
  /\ state' = IF isFreed THEN "undefined" ELSE "ended"
-----------------------------------------------------------------------------
(* Values and variables.                                                   *)

(* OP_CONSTANT, OP_CONSTANT_LONG, OP_NIL, OP_TRUE, OP_FALSE                *)
OpConstant ==
  /\ Running
  /\ \E c \in Constant : Push(top, Data(c), "running")
  /\ HeightBecomes(frame.height + 1)
  /\ UNCHANGED <<openUpvalues, heap, globals, history>>

OpPop ==
  /\ Running /\ HasTemporaries(1)
  /\ Pop(1, "running")
  /\ HeightBecomes(frame.height - 1)
  /\ UNCHANGED <<openUpvalues, heap, globals, history>>

GetLocal(i) ==
  /\ Push(top, memory[frame.slots.at + i], "running")
  /\ HeightBecomes(frame.height + 1)
  /\ UNCHANGED <<openUpvalues, heap, globals, history>>

OpGetLocal ==
  /\ Running
  /\ \E i \in Locals : IF IsStale(frame.slots) THEN Undefined ELSE GetLocal(i)

(* What is assigned to the captured variable, if it is one.                *)
Assigned(cell, value) ==
  IF cell = 0 THEN contents ELSE [contents EXCEPT ![cell] = value]

SetLocal(i) ==
  LET position == frame.slots.at + i IN
  /\ memory' = [memory EXCEPT ![position] = memory[top]]
  /\ contents' = Assigned(cellAt[position], memory[top])
  /\ UNCHANGED <<top, block, isFreed, state, frames, openUpvalues, heap,
                 globals, cellAt, leaked>>

OpSetLocal ==
  /\ Running /\ HasTemporaries(1)
  /\ \E i \in Locals : IF IsStale(frame.slots) THEN Undefined ELSE SetLocal(i)

OpGetGlobal ==
  /\ Running
  /\ \E name \in Name :
       IF globals[name] = Absent THEN RuntimeError
       ELSE /\ Push(top, globals[name], "running")
            /\ HeightBecomes(frame.height + 1)
            /\ UNCHANGED <<openUpvalues, heap, globals, history>>

OpDefineGlobal ==
  /\ Running /\ HasTemporaries(1)
  /\ \E name \in Defined : globals' = [globals EXCEPT ![name] = memory[top]]
  /\ Pop(1, "running")
  /\ HeightBecomes(frame.height - 1)
  /\ UNCHANGED <<openUpvalues, heap, history>>

(* A variable that tableSet creates is deleted again.                      *)
OpSetGlobal ==
  /\ Running /\ HasTemporaries(1)
  /\ \E name \in Name :
       IF globals[name] = Absent THEN RuntimeError
       ELSE /\ globals' = [globals EXCEPT ![name] = memory[top]]
            /\ UNCHANGED <<machine, frames, openUpvalues, heap, history>>

Captured == DOMAIN closures[frame.closure].upvalues
CapturedAs(i) == closures[frame.closure].upvalues[i]
Location(i) == upvalues[CapturedAs(i)].location

(* *location of an upvalue. *)
Read(u) == IF upvalues[u].location = own THEN upvalues[u].closed
           ELSE memory[upvalues[u].location.at]

OpGetUpvalue ==
  /\ Running
  /\ \E i \in Captured :
       IF IsStale(Location(i)) THEN Undefined
       ELSE /\ Push(top, Read(CapturedAs(i)), "running")
            /\ HeightBecomes(frame.height + 1)
            /\ UNCHANGED <<openUpvalues, heap, globals, history>>

SetUpvalue(i) ==
  LET value == memory[top]
      u == CapturedAs(i) IN
  /\ IF Location(i) = own
     THEN /\ upvalues' = [upvalues EXCEPT ![u].closed = value]
          /\ UNCHANGED memory
     ELSE /\ memory' = [memory EXCEPT ![Location(i).at] = value]
          /\ UNCHANGED upvalues
  /\ contents' = Assigned(closures[frame.closure].cells[i], value)
  /\ UNCHANGED <<top, block, isFreed, state, frames, openUpvalues, closures,
                 globals, cellAt, leaked>>

OpSetUpvalue ==
  /\ Running /\ HasTemporaries(1)
  /\ \E i \in Captured :
       IF IsStale(Location(i)) THEN Undefined ELSE SetUpvalue(i)
-----------------------------------------------------------------------------
(* Calls.                                                                  *)

(* Fault: the native's arguments are dropped and the native is not.        *)
CallNativeKept(argCount) ==
  IF argCount = 0
  THEN /\ \E c \in Constant : Push(top - argCount, Data(c), "running")
       /\ HeightBecomes(frame.height - argCount)
       /\ UNCHANGED <<openUpvalues, heap, globals, history>>
  ELSE ResetStack /\ state' = "aborted"

(***************************************************************************)
(* clockNative.  After runtimeError it goes on to its assertion, which     *)
(* compares its arguments with the stack that was reset.                   *)
(***************************************************************************)
CallNative(argCount) ==
  IF argCount = 0
  THEN /\ \E c \in Constant : Push(top - (argCount + 1), Data(c), "running")
       /\ HeightBecomes(frame.height - argCount)
       /\ UNCHANGED <<openUpvalues, heap, globals, history>>
  ELSE ResetStack /\ state' = "aborted"

(* The caller expects one value in place of the callee and its arguments.  *)
NewFrame(closure, argCount) ==
  /\ frames' =
       Append([frames EXCEPT ![Len(frames)].height = @ - (argCount + 1)],
              [closure |-> closure, height |-> argCount + 1,
               slots |-> [block |-> block, at |-> top - argCount]])
  /\ UNCHANGED <<machine, openUpvalues, heap, globals, history>>

(* Fault: nothing compares the number of frames with FRAMES_MAX.           *)
CallUnlimited(closure, argCount) ==
  IF argCount # Arity[closure] THEN RuntimeError
  ELSE NewFrame(closure, argCount)

Call(closure, argCount) ==
  IF argCount # Arity[closure] \/ Len(frames) = FRAMES_MAX
  THEN RuntimeError
  ELSE NewFrame(closure, argCount)

(* callValue. *)
OpCall ==
  /\ Running
  /\ \E argCount \in 0..(top - 1) :
       /\ HasTemporaries(argCount + 1)
       /\ LET callee == memory[top - argCount] IN
          \/ callee = Native /\ CallNative(argCount)
          \/ /\ callee[1] = "closure"
             /\ Call(callee[2], argCount)
          \/ callee[1] = "constant" /\ RuntimeError

(* The open upvalues that point at position p or above it.                 *)
OpenFrom(p) ==
  {u \in ToSet(openUpvalues) : upvalues[u].location.at >= p}

(* OP_RETURN of a function: its result takes the place of its frame, and   *)
(* its upvalues stay open.                                                 *)
ReturnToCaller ==
  LET caller == frames[Len(frames) - 1] IN
  /\ Push(frame.slots.at - 1, memory[top], "running")
  /\ frames' = [Front(frames) EXCEPT ![Len(frames) - 1].height = @ + 1]
  /\ EndScope(frame.slots.at)
  /\ leaked' = leaked \cup OpenFrom(frame.slots.at)
  /\ UNCHANGED <<openUpvalues, heap, globals, contents>>

(* OP_RETURN of a script, whose scopes have ended.                         *)
ReturnFromScript ==
  /\ frame.height = 2
  /\ Pop(2, "idle")
  /\ frames' = <<>>
  /\ UNCHANGED <<openUpvalues, heap, globals, history>>

OpReturn ==
  /\ Running /\ HasTemporaries(1)
  /\ IF Len(frames) = 1 THEN ReturnFromScript
     ELSE IF IsStale(frame.slots) THEN Undefined
     ELSE ReturnToCaller
-----------------------------------------------------------------------------
(* Closures.                                                               *)

(* OP_CLOSURE: newClosure and push; capturing the variables follows.       *)
OpClosure ==
  /\ Running /\ Len(closures) < MaxClosures
  /\ closures' = Append(closures, [upvalues |-> <<>>, cells |-> <<>>])
  /\ Push(top, Closure(Len(closures) + 1), "capturing")
  /\ HeightBecomes(frame.height + 1)
  /\ UNCHANGED <<openUpvalues, upvalues, globals, history>>

Capturing == state = "capturing"

(* The new closure's next upvalue, and the variable that it stands for: a  *)
(* function has one upvalue for a variable (addUpvalue).                   *)
Captures(u, cell) ==
  /\ ~\E i \in DOMAIN closures[Len(closures)].cells :
        closures[Len(closures)].cells[i] = cell
  /\ closures' = [closures EXCEPT
                    ![Len(closures)].upvalues = Append(@, u),
                    ![Len(closures)].cells = Append(@, cell)]

(* captureUpvalue and closeUpvalues walk down the list and stop after n     *)
(* upvalues, at the first that does not lie above this position.           *)
StopsAfter(n, position) ==
  /\ \A i \in 1..n : upvalues[openUpvalues[i]].location.at > position
  /\ n < Len(openUpvalues) =>
       upvalues[openUpvalues[n + 1]].location.at <= position

IsOpenAt(n, position) ==
  /\ n <= Len(openUpvalues)
  /\ upvalues[openUpvalues[n]].location.at = position

(* Fault: a new upvalue becomes the head of the list.                      *)
NewUpvalueFirst(n, position) ==
  /\ Len(upvalues) < MaxUpvalues
  /\ upvalues' = Append(upvalues,
                        [location |-> [block |-> block, at |-> position],
                         closed |-> Junk])
  /\ openUpvalues' = InsertAt(openUpvalues, 1, Len(upvalues) + 1)

(* newUpvalue, as the n-th of the list.                                    *)
NewUpvalue(n, position) ==
  /\ Len(upvalues) < MaxUpvalues
  /\ upvalues' = Append(upvalues,
                        [location |-> [block |-> block, at |-> position],
                         closed |-> Junk])
  /\ openUpvalues' = InsertAt(openUpvalues, n, Len(upvalues) + 1)

(* The captured variable that this position is from now on.                *)
CellOf(position) ==
  IF cellAt[position] = 0 THEN Len(contents) + 1 ELSE cellAt[position]

RecordCapture(position) ==
  /\ cellAt' = [cellAt EXCEPT ![position] = CellOf(position)]
  /\ contents' = IF cellAt[position] = 0
                 THEN Append(contents, memory[position]) ELSE contents
  /\ UNCHANGED leaked

(* Fault: captureUpvalue does not look for an upvalue of the variable.     *)
CaptureLocalAnew(position) ==
  /\ \E n \in 0..Len(openUpvalues) :
       /\ StopsAfter(n, position)
       /\ NewUpvalue(n + 1, position)
       /\ Captures(Len(upvalues) + 1, CellOf(position))
  /\ RecordCapture(position)
  /\ UNCHANGED <<machine, frames, globals>>

(* captureUpvalue. *)
CaptureLocal(position) ==
  /\ \E n \in 0..Len(openUpvalues) :
       /\ StopsAfter(n, position)
       /\ IF IsOpenAt(n + 1, position)
          THEN /\ Captures(openUpvalues[n + 1], CellOf(position))
               /\ UNCHANGED <<openUpvalues, upvalues>>
          ELSE /\ NewUpvalue(n + 1, position)
               /\ Captures(Len(upvalues) + 1, CellOf(position))
  /\ RecordCapture(position)
  /\ UNCHANGED <<machine, frames, globals>>

(* A pointer to freed memory is compared with others: that of an open      *)
(* upvalue, or the frame's.                                                *)
OpenUpvalueIsStale ==
  \E u \in ToSet(openUpvalues) : IsStale(upvalues[u].location)

ComparesStale == IsStale(frame.slots) \/ OpenUpvalueIsStale

CaptureALocal ==
  /\ Capturing
  /\ \E i \in Locals : IF ComparesStale THEN Undefined
                        ELSE CaptureLocal(frame.slots.at + i)

(* The running function has captured the variable itself.                  *)
CaptureCaptured ==
  /\ Capturing
  /\ \E i \in Captured :
       Captures(CapturedAs(i), closures[frame.closure].cells[i])
  /\ UNCHANGED <<machine, frames, openUpvalues, upvalues, globals, history>>

CapturedAll ==
  /\ Capturing
  /\ state' = "running"
  /\ UNCHANGED <<memory, top, block, isFreed, frames, openUpvalues, heap,
                 globals, history>>

(* closeUpvalues of everything from this position on.                      *)
CloseUpvalues(last) ==
  \E n \in 0..Len(openUpvalues) :
    /\ StopsAfter(n, last - 1)
    /\ upvalues' = [u \in DOMAIN upvalues |->
                      IF \E i \in 1..n : openUpvalues[i] = u
                      THEN [location |-> own, closed |-> Read(u)]
                      ELSE upvalues[u]]
    /\ openUpvalues' = SubSeq(openUpvalues, n + 1, Len(openUpvalues))

(* OP_CLOSE_UPVALUE: a variable that some closure may have captured ends.  *)
OpCloseUpvalue ==
  /\ Running /\ frame.height > 1
  /\ IF OpenUpvalueIsStale THEN Undefined
     ELSE /\ CloseUpvalues(top)
          /\ Pop(1, "running")
          /\ HeightBecomes(frame.height - 1)
          /\ EndScope(top)
          /\ UNCHANGED <<closures, globals, contents, leaked>>
-----------------------------------------------------------------------------
Session == Interpret \/ InterpretAfterError \/ FreeVM

Variables ==
  \/ OpConstant \/ OpPop \/ OpGetLocal \/ OpSetLocal \/ OpGetGlobal
  \/ OpDefineGlobal \/ OpSetGlobal \/ OpGetUpvalue \/ OpSetUpvalue

Closures ==
  \/ OpClosure \/ CaptureALocal \/ CaptureCaptured \/ CapturedAll
  \/ OpCloseUpvalue

Next == Session \/ Variables \/ OpCall \/ OpReturn \/ Closures

Spec == Init /\ [][Next]_vars
-----------------------------------------------------------------------------
Pointer == [block : Nat, at : Nat]
Frame == [closure : 1..Len(closures), height : Nat \ {0}, slots : Pointer]

(* No frame lies beyond the array vm.frames, and nothing below the top of  *)
(* the stack is memory that was never written.                             *)
TypeOK ==
  /\ memory \in Seq(Value \cup {Junk}) /\ Len(memory) <= MaxCapacity
  /\ top \in 0..Len(memory) /\ \A i \in 1..top : memory[i] # Junk
  /\ block \in Nat /\ isFreed \in BOOLEAN
  /\ frames \in Seq(Frame) /\ Len(frames) <= FRAMES_MAX
  /\ upvalues \in Seq([location : Pointer, closed : Value \cup {Junk}])
  /\ openUpvalues \in Seq(DOMAIN upvalues)
  /\ contents \in Seq(Value)
  /\ closures \in Seq([upvalues : Seq(DOMAIN upvalues),
                       cells : Seq(DOMAIN contents)])
  /\ Len(closures) <= MaxClosures
  /\ globals \in [Name -> Value \cup {Absent}]
  /\ state \in {"idle", "running", "capturing", "undefined", "aborted",
                "ended"}
  /\ cellAt \in [Position -> 0..Len(contents)]
  /\ leaked \subseteq DOMAIN upvalues

(***************************************************************************)
(* The stack is what the compiler takes it to be: the frames lie on each   *)
(* other, each as high as the instructions that were compiled for it say,  *)
(* and between two lines it is empty.  A value left over by a call would   *)
(* have every local that is compiled after it read another one, and one    *)
(* too few would end in the assertion of pop.                              *)
(***************************************************************************)
FrameEnd(n) == frames[n].slots.at + frames[n].height

FramesAreStacked ==
  IF frames = <<>> THEN top = 0
  ELSE /\ frames[1].slots.at = 1
       /\ \A n \in 1..(Len(frames) - 1) : frames[n + 1].slots.at = FrameEnd(n)
       /\ top = FrameEnd(Len(frames)) - 1

(***************************************************************************)
(* A captured variable has one value, whether it is still on the stack or  *)
(* has been closed, for the function it belongs to and for all closures    *)
(* that share it: the one that was last assigned to it.  Not so for an     *)
(* upvalue that OP_RETURN left open, or one that points into a stack that  *)
(* is no longer there.                                                     *)
(***************************************************************************)
IsIntact(u) ==
  u \notin leaked /\ ~IsStale(upvalues[u].location)
    /\ ~(isFreed /\ upvalues[u].location # own)

UpvaluesHoldTheirVariables ==
  \A c \in DOMAIN closures : \A i \in DOMAIN closures[c].upvalues :
    LET u == closures[c].upvalues[i] IN
    IsIntact(u) => Read(u) = contents[closures[c].cells[i]]

(***************************************************************************)
(* closeUpvalues and captureUpvalue stop at the first upvalue that is low  *)
(* enough: the list has to be in the order of the stack, with one upvalue  *)
(* for a variable, and hold all that are open.                             *)
(***************************************************************************)
OpenUpvaluesAreInOrder ==
  /\ \A n \in 1..(Len(openUpvalues) - 1) :
       upvalues[openUpvalues[n]].location.at
         > upvalues[openUpvalues[n + 1]].location.at
  /\ ~isFreed => ToSet(openUpvalues) =
                   {u \in DOMAIN upvalues : upvalues[u].location # own}
  /\ \A u \in ToSet(openUpvalues) \ leaked :
       cellAt[upvalues[u].location.at] # 0

(***************************************************************************)
(* The process comes to grief only over a stack that was freed: by realloc *)
(* while a frame or an open upvalue pointed into it, or by resetStack.     *)
(***************************************************************************)
PointsToFreed ==
  \/ isFreed
  \/ \E n \in DOMAIN frames : IsStale(frames[n].slots)
  \/ \E u \in DOMAIN upvalues : IsStale(upvalues[u].location)

OnlyFreedStacksAreFatal == state \in {"undefined", "aborted"} => PointsToFreed
=============================================================================
