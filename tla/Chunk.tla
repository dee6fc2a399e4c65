------------------------------- MODULE Chunk -------------------------------
(***************************************************************************)
(* Ecsi's bytecode chunks (src/src/chunk.c, line_number.c): code, the       *)
(* lines it is from as run lengths, and the table of constants, with the   *)
(* two functions that write an instruction for a constant (writeConstant,  *)
(* and the compiler's emitConstant) and what the VM reads from it.         *)
(***************************************************************************)
EXTENDS Integers, Sequences, FiniteSetsExt

CONSTANTS
  Value,         \* what can be a constant
  Line,          \* numbers of source lines
  Base,          \* the number of values of a byte, 256 in the code
  MaxCode,       \* bound: bytes in a chunk
  MaxConstants   \* bound: constants in a chunk

ASSUME ChunkAssumption ==
  /\ Line \subseteq Nat
  /\ Base \in Nat /\ Base >= 2
  /\ MaxCode \in Nat /\ MaxConstants \in Nat

VARIABLES
  code, lines, constants,  \* the fields of Chunk; code is indexed from 1
  written,                 \* history: the line that each byte was written with
  instruction              \* history: the last constant's instruction

vars == <<code, lines, constants, written, instruction>>

Byte == 0..(Base - 1)
OP_CONSTANT == 0
OP_CONSTANT_LONG == 1

(* Where an instruction is, which constant it is for, and the index that   *)
(* addConstant gave to that.                                               *)
Instructions ==
  [at : Nat, constant : Value, index : Nat, by : {"writeConstant", "emitConstant"}]

Init ==
  /\ code = <<>> /\ lines = <<>> /\ constants = <<>>
  /\ written = <<>> /\ instruction = {}
-----------------------------------------------------------------------------
(* Fault: the run before is lengthened, whatever line it is.               *)
NumberWrittenAlways(line, n) ==
  IF lines # <<>> THEN [lines EXCEPT ![Len(lines)].repeats = @ + n]
  ELSE <<[lineNumber |-> line, repeats |-> n]>>

(* lines after n calls of writeNumber with this line.                      *)
NumberWritten(line, n) ==
  IF lines # <<>> /\ lines[Len(lines)].lineNumber = line
  THEN [lines EXCEPT ![Len(lines)].repeats = @ + n]
  ELSE Append(lines, [lineNumber |-> line, repeats |-> n])

(* writeChunk for each of these bytes. *)
WriteBytes(bytes, line) ==
  /\ Len(code) + Len(bytes) <= MaxCode
  /\ code' = code \o bytes
  /\ lines' = NumberWritten(line, Len(bytes))
  /\ written' = written \o [i \in 1..Len(bytes) |-> line]

WriteChunk(byte, line) ==
  /\ WriteBytes(<<byte>>, line)
  /\ UNCHANGED <<constants, instruction>>

(***************************************************************************)
(* addConstant returns the count of the array before constants in the      *)
(* chunk, which is lines: it takes one from the address of constants, not  *)
(* from its count.                                                         *)
(***************************************************************************)
AddConstant(v) ==
  /\ Len(constants) < MaxConstants
  /\ constants' = Append(constants, v)
AddedIndex == Len(lines)

(* What the nth byte of an index counts: Base ^ n.                         *)
Weight(n) == CASE n = 0 -> 1
               [] n = 1 -> Base
               [] n = 2 -> Base * Base
               [] n = 3 -> Base * Base * Base

(* Fault: the bytes above are not masked out.                              *)
NthByteUnmasked(number, n) == number \div Weight(n)

NthByte(number, n) == (number \div Weight(n)) % Base

(* An instruction for a constant, by one of the functions that write them. *)
WriteInstruction(v, line, by, bytes) ==
  /\ AddConstant(v)
  /\ WriteBytes(bytes, line)
  /\ instruction' = {[at |-> Len(code) + 1, constant |-> v,
                      index |-> AddedIndex, by |-> by]}

(* Fault: one byte is thought to be enough for an index that is one too big. *)
WriteConstantShort(v, line) ==
  WriteInstruction(v, line, "writeConstant",
    IF AddedIndex > Base
    THEN <<OP_CONSTANT_LONG, NthByte(AddedIndex, 2), NthByte(AddedIndex, 1),
           NthByte(AddedIndex, 0)>>
    ELSE <<OP_CONSTANT, AddedIndex % Base>>)

WriteConstant(v, line) ==
  WriteInstruction(v, line, "writeConstant",
    IF AddedIndex >= Base
    THEN <<OP_CONSTANT_LONG, NthByte(AddedIndex, 2), NthByte(AddedIndex, 1),
           NthByte(AddedIndex, 0)>>
    ELSE <<OP_CONSTANT, AddedIndex % Base>>)

(* Its order of the bytes is not that of writeConstant and of the VM.      *)
EmitConstant(v, line) ==
  WriteInstruction(v, line, "emitConstant",
    IF AddedIndex < Base - 1 THEN <<OP_CONSTANT, AddedIndex>>
    ELSE IF AddedIndex < Weight(3)
    THEN <<OP_CONSTANT_LONG, NthByte(AddedIndex, 1), NthByte(AddedIndex, 2),
           NthByte(AddedIndex, 3)>>
    ELSE <<OP_CONSTANT, 0>>)

FreeChunk ==
  /\ code' = <<>> /\ lines' = <<>> /\ constants' = <<>>
  /\ written' = <<>> /\ instruction' = {}

Next ==
  \/ \E line \in Line :
       \/ \E byte \in Byte : WriteChunk(byte, line)
       \/ \E v \in Value : WriteConstant(v, line) \/ EmitConstant(v, line)
  \/ FreeChunk

Spec == Init /\ [][Next]_vars
-----------------------------------------------------------------------------
(* What the VM's OP_CONSTANT and OP_CONSTANT_LONG take as the index.       *)
ReadIndex(at) ==
  IF code[at] = OP_CONSTANT THEN code[at + 1]
  ELSE (code[at + 1] * Base + code[at + 2]) * Base + code[at + 3]

(* The bytes that the first n runs are for. *)
RunsEnd(runs) ==
  LET end[n \in Nat] == IF n = 0 THEN 0 ELSE end[n - 1] + runs[n].repeats
  IN  end

(* The runs at which getLine can stop for this offset, which is from 0.    *)
RunsTo(offset) == {n \in 1..Len(lines) : RunsEnd(lines)[n] >= offset}

GetLine(offset) == IF lines = <<>> THEN -1 ELSE lines[Min(RunsTo(offset))].lineNumber
-----------------------------------------------------------------------------
TypeOK ==
  /\ code \in Seq(Byte) /\ Len(code) <= MaxCode
  /\ lines \in Seq([lineNumber : Line, repeats : 1..MaxCode])
  /\ constants \in Seq(Value) /\ Len(constants) <= MaxConstants
  /\ written \in Seq(Line) /\ instruction \in SUBSET Instructions

(***************************************************************************)
(* The run lengths are the lines that the bytes were written with, for as  *)
(* many bytes as there are, and no run could be part of the one before.    *)
(***************************************************************************)
LinesAreKept ==
  /\ Len(written) = Len(code) /\ RunsEnd(lines)[Len(lines)] = Len(code)
  /\ \A n \in 1..Len(lines) :
       \A i \in (RunsEnd(lines)[n - 1] + 1)..RunsEnd(lines)[n] :
         written[i] = lines[n].lineNumber
  /\ \A n \in 2..Len(lines) : lines[n].lineNumber # lines[n - 1].lineNumber

(***************************************************************************)
(* The VM reads from an instruction the index that addConstant gave: from  *)
(* what writeConstant wrote in one byte or in three as long as three are   *)
(* enough, and from what emitConstant wrote only below the last index of   *)
(* one byte.                                                               *)
(***************************************************************************)
IndexIsRead ==
  \A i \in instruction :
    \/ i.by = "writeConstant" /\ i.index < Weight(3)
    \/ i.index < Base - 1
    => ReadIndex(i.at) = i.index

(***************************************************************************)
(* chunk.h:94: addConstant "Adds value to chunk's constants array, and     *)
(* returns the index it was placed at."                                    *)
(***************************************************************************)
ConstantIsAtIndex ==
  \A i \in instruction :
    i.index < Len(constants) /\ constants[i.index + 1] = i.constant
=============================================================================
