# Ecsi in TLA+

Ecsi is an interpreter for a dialect of Scheme, written in C: a scanner and a
recursive-descent parser turn a line of source into a tree of heap objects, a
compiler is to turn the tree into bytecode, a stack machine runs the bytecode,
and a mark-and-sweep collector owns every object. This directory holds TLA+
modules of the parts whose correctness depends on state and order, the TLC
configurations that check them on small instances, and proofs of the main
theorems about each of the parts. Paths below are relative to the repository;
the C sources are in `src/` of the repository and, in `PROJECT.json`,
`src/src/`.

- [The system](#the-system)
- [Modules and the code](#modules-and-the-code)
- [Runs](#runs)
- [Fairness](#fairness)
- [What is proved](#what-is-proved)
- [What the code does not do as it says](#what-the-code-does-not-do-as-it-says)
- [What is not modelled](#what-is-not-modelled)
- [Plan](#plan)

## The system

Everything runs in one thread. What makes Ecsi hard is that a collection can
happen inside any allocation: a step of the collector comes between two lines
of almost every operation.

| Component | State | Operations | Talks to |
|---|---|---|---|
| Garbage collector, `memory.c` | `vm.objects`, `isMarked` of every object, gray stack, `isOn`, `bytesAllocated`, `nextGC` | `reallocate`, `collectGarbage` (`markRoots`, `traceReferences`, `tableRemoveWhite`, `sweep`), `turnOn/OffGarbageCollector`, `freeObjects` | called by every allocation; reads the roots of VM, compiler and parser; deletes from `vm.strings` |
| Objects, `object.c`, `value.c`, `syntax.c` | fields of symbols, pairs, vectors, syntax objects, functions, closures, upvalues, natives | constructors, `appendElement`, `vectorAppend`, `writeValueArray`, interning (`copyString`, `allocateString`) | push on `vm.stack` what must survive an allocation |
| Virtual machine, `vm.c` | value stack, frames, open upvalues, globals, interned strings, `initString` | instructions, calls, `captureUpvalue`/`closeUpvalues`, `runtimeError`/`resetStack`, `defineNative`, `interpret` | calls the compiler; its fields are the collector's roots |
| Compiler, `compiler.c` | the chain `current` of compilers with the function each one fills | `compile`, `initCompiler`, `endCompiler`, `makeConstant`, `emitConstant` | runs the parser; a root of the collector |
| Parser, `parser.c`, `parser_internals/` | current and previous token, `hadError`, `panicMode`, the AST, and the call stack of the recursion | `parse`, `parseExpression`, `parseList`, `parseAbbreviation`, `parseVectorUsing`, `synchronize`, `freeAST` | takes tokens from the scanner, makes objects, turns the collector off and on |
| Hash table, `table.c` | `entries`, `count`, `capacity` | get, set, delete, find a string, remove white, grow, free | is `vm.globals` and `vm.strings`; its growth is an allocation |
| Chunks and line numbers, `chunk.c`, `line_number.c` | code, run lengths of lines, constants | `writeChunk`, `addConstant`, `writeConstant`, `getLine`, `freeChunk` | filled by the compiler, read by the VM |
| Scanner, `scanner.c`, `scanner_internals/` | three pointers into the source and a line number | `scanToken`, intertoken space, comments | the parser pulls from it |
| Token conversions, `parser_internals/token_to_type.c` | none | token text to boolean, number, character | called by the parser; read the text through `textOfTokenEqualToString` of `scanner.c` and `strtod` |
| Smart arrays, `smart_array.c` | count, capacity, elements | append, free | under AST, chunks, value arrays |
| Command line, `main.c` | none | file or REPL, line after line | `interpret` |
| Disassembler, `debug.c` | none | printing | |

What has to be right, per component:

- **Collector and its clients.** No collection frees an object that something
  still uses, at whichever allocation it comes; what only C locals refer to is
  pushed first. Nothing is freed while the collector is off. Marks end with the
  collection. A dead symbol leaves the table of interned strings before it is
  freed. Marking ends on cyclic objects. All of it together: the collector
  frees exactly what cannot be reached.
- **Hash table.** It answers as a map, whatever collisions, deletions and
  growth there were, even if a collection deletes from it while it grows; the
  probing loops end, which hangs on the count being right.
- **Parser.** A line that is accepted is in the AST as it was read; a line with
  an error is reported, however the parser gets out of panic mode; errors of
  one line do not leak into the next; a parse ends.
- **Chunks.** The run lengths give back the lines that were written; an index
  written in one or three bytes is what the VM reads.
- **VM.** Calls and returns leave the stack as high as the compiler counts it;
  variables outlive their frames in upvalues and are shared by all closures
  that captured them; the list of open upvalues stays in order; no array
  overflows. Pointers into the stack should stay valid when it grows, and an
  error should leave a state from which the next line can run: they do not, and
  what has to be right is that nothing else brings the process down.
- **Accounting.** `bytesAllocated` is what is allocated, at every moment at
  which it decides whether to collect.
- **Scanner.** It passes over intertoken space exactly, gets past every input
  and counts lines.
- **Token conversions.** The texts they know are those the scanner lets
  through, and they end where the token ends.

At this commit the pieces are not all joined: `compile` returns NULL after
parsing (`compiler.c:548-579`), so `interpret` reports a compile error for
every line, and the bytecode loop `run` and the emitters of the compiler are
reachable only from tests or from the code that is to come. `allocateString`
(`object.c:304`) is in the middle of a change of how strings are stored. The
models of these parts follow the functions as they are written, with the
caller that the functions are written for: `Collector` and `VM` model
`interpret` after `compile` has produced a function, and a symbol is one
object.

## Modules and the code

| Module | Models | EXTENDS / refines |
|---|---|---|
| `ObjectGraph` | values, the references an object holds, reachability | |
| `ManagedHeap` | abstract: what memory management promises | `ObjectGraph` |
| `Collector` | `memory.c`, and the allocating operations of `object.c`, `value.c`, `vm.c`, `compiler.c`, `parser.c` | `ObjectGraph`; implements `ManagedHeap` |
| `MCCollector` | symmetry of addresses for TLC | `Collector` |
| `CollectorProofs` | lemmas on graphs, theorems, the refinement | `Collector` |
| `SymbolMap` | abstract: what a table promises | |
| `Table` | `table.c` | implements `SymbolMap` |
| `MCTable` | symmetry of keys for TLC | `Table` |
| `TableProofs` | lemmas and theorems | `Table` |
| `Parser` | `parser.c`, `parser_internals/`, `compile` | |
| `ParserProofs` | lemmas and theorems | `Parser` |
| `Scanner` | `scanner.c`, `scanner_internals/` | |
| `MCScanner` | source strings for TLC | `TokenConversions` |
| `TokenConversions` | `token_to_type.c`, `textOfTokenEqualToString` | `Scanner` |
| `ScannerProofs` | lemmas and theorems | `TokenConversions`, `NumberProofs` |
| `Chunk` | `chunk.c`, `line_number.c`, `emitConstant`, decoding of constants in `run` | |
| `ChunkProofs` | lemmas and theorems | `Chunk` |
| `NumberProofs` | lemmas on natural numbers, recursion over positions and sums, for the other proofs | |
| `VM` | `vm.c`: stack, frames, instructions, calls, upvalues, errors | |
| `MCVM` | an instance and a view for TLC | `VM` |
| `VMProofs` | lemmas and theorems | `VM` |
| `Accounting` | `bytesAllocated` and `nextGC`, with the collection they call for | `Collector` |
| `MCAccounting` | sizes for TLC | `Accounting` |
| `AccountingProofs` | lemmas and theorems | `Accounting`, `CollectorProofs`, `NumberProofs` |

Definitions whose comment starts with *Fault:* are not part of any
specification. Each is one definition with a plausible mistake in it;
`PROJECT.json` pairs each with the property that notices it.

### Collector

The heap is `objects` (the linked list `vm.objects`), `type` and `slots` (the
fields of an object, in order, as values; `Nil` is any value that is not a
pointer). The roots are the VM's: `stack`, `frames`, `openUpvalues`,
`globals`, `compilers`, `initString`. `bases` has the stack slot that each
`frame->slots` points at. `strings` is the weak table of interned
symbols. `held` is what only C variables refer to between two operations: the
parser's AST and arrays under construction, or the result just returned to a
caller.

Every operation that allocates is split at each allocation. A *request*
(`NewSyntax`, `AppendElement`, `Interpret`, ...) pushes what the C function
pushes, and sets `op`, which holds the function's locals (`op.args`), what is
done with the result (`op.then`) and how much was pushed. Then `Collect` may
start a collection, or not: `DEBUG_STRESS_GC` and `bytesAllocated > nextGC`
both lie within this choice. Then a *finish* action creates the object with
the locals as they are, pops, and stores the result. A chain of allocations is
a chain of such pairs: `initVM` makes `"init"` and then the native `clock`;
`allocateString` needs memory for the symbol and again for the table.

With the collector on, a request empties `held`: a caller may rely on nothing
that it has not made reachable. With the collector off, which is the parser's
case, `held` accumulates. This is the contract that the code follows, and
`LocalsAreProtected` is what each operation owes in return.

A collection is `MarkRoots`, `Blacken` for one gray object at a time in any
order, `RemoveWhite`, and `SweepKeep`/`SweepFree` along the list. It starts
in three ways: `Collect` inside an operation, `Grow` for memory without objects
(code, line numbers), and `FreeAST`, which turns the collector on and collects
at once. `ParseError` is the return of `compile` on an error, which leaves the
collector off until a later line parses.

`openUpvalues` maps a stack slot to the open upvalue that points at it, as
`location` does; the value of an open upvalue is what is in the slot, and its
own field (`closed`) is `Nil`, which is what `blackenObject` marks. `CloseUpvalue`
moves the values at a slot and above it into the upvalues, as `closeUpvalues`
does. `SetVariable` is `OP_SET_LOCAL` and `OP_SET_UPVALUE` of a variable on the
stack, `SetClosedVariable` `OP_SET_UPVALUE` of a closed one, `SetGlobal`
`OP_SET_GLOBAL`, whose `tableSet` may collect and which ends in an error if the
variable is new. What the compiler emits is as in `VM`: `OP_POP` pops what no
closure of the running function has captured (`HasTemporary`).

**Variables that their function has left.** `OP_RETURN` (`ReturnToCaller`) sets
`stackTop` to the frame's first slot and does not close upvalues. An upvalue
that the function left open points at a slot above `stackTop` from then on, or,
once the caller has pushed that far, at one of the caller's values. `markRoots`
stops at `stackTop`, and `blackenObject` marks `closed` alone, so that the value
in a slot above the top can be freed although a closure can still read it.
`above` is what is in these slots: it stays in memory until something is pushed
over it (`MemoryStays`). `GetLeftVariable` and `SetLeftVariable` are
`OP_GET_UPVALUE` and `OP_SET_UPVALUE` of such a slot, and `CloseUpvalue` closes
the upvalues above the top as well, since `location >= last` holds of them. If
the value was freed, `UseFreed` makes `phase` `"undefined"`, which has no
successor. `loose`, a history variable, has the upvalues that a return or an
error has left open. `NoDangling` is about everything else that is reachable;
`OnlyLeftVariablesDangle` says that freed memory is used through a loose upvalue
only, and `ManagesTheRest` that only reading or closing one above the top can
bring back what nothing reaches. All other steps are those of `ManagedHeap`.

`RuntimeError` empties the stack as `resetStack` does, and goes on as if the
freed block were not used again, except by an upvalue that was open: following
one is `UseFreed`. That the next push writes to the freed block is in `VM`
(`isFreed`), where the block itself is modelled.

`newPair` and `appendElement` can get a NULL object from `parseExpression`; it
is `Nil` in a field.

The refinement mapping to `ManagedHeap` takes the point at which sweep begins
for the collection: from there on, the abstract heap has only `Survivors`, the
objects that sweep has kept and those it will find marked.

### Table

`entries` is a function from slot to key and value, from 0. `FindEntry` is the
probing loop: the first slot that is empty or has the key is where it stops,
and the first tombstone before that is what it returns if the key was not
there. `tableSet` on a full table is four actions: it asks for memory (a
collection may delete from the old array here), resets the count, copies entry
by entry, and stores. `answer` is what the last operation returned, which is
what `SymbolMap` constrains. `OP_SET_GLOBAL`'s set and delete of a variable
that did not exist is a `TableSet` and a `TableDelete`.

### Parser

`calls` is the C call stack, with what each call has collected so far; `todo`
says what the running function does next. Tokens appear when they are asked
for, so that the input is every sequence of tokens that the scanner could
produce. A syntax object is the tokens that it would print, with `"null"` for
the NULL that `parseExpression` returns when it finds nothing; this makes "the
AST is the input" a comparison of sequences. `errors` are `hadError` and
`panicMode`. An assertion that fails is `todo = "aborted"`, which has no
successor.

### Scanner

`source` is one string of the constant set `Sources`; `current` and `line` are
the scanner's fields of these names (`scanner.start` is in the token), as
positions from 1. `skipping` says whether `scanToken` is still in
`skipIntertokenSpace`. One action is one atmosphere (a run of whitespace, a
line comment, a whole nested comment) or one token. `NestedCommentEnd` and
`BarsEnd` are recursive functions over positions, for the recursion of
`skipNestedComment` and the loop of `genericIdentifier`.

The terminator is at position `End`. Several loops have no test for it; `Past`
is wherever they end up, and nothing is scanned from there, since what lies
there is not the source. A loop that never ends has no successor. A character
stands for its kind: a letter for its capital too, `[` for all that start
nothing. Capitals are left out: they are letters, and no name, escape or
keyword has one. A keyword is an identifier, but for `quote`, which the parser
takes as `'`.

`CommentsEnd` compares `NestedCommentEnd` with `Comment`, which counts the
depth. `StaysInSource` says exactly which unfinished texts take the scanner
beyond the source, so that it would notice another one.

### TokenConversions

The conversions keep no state: they are operators on the scanner's present
token, in every state in which the scanner has one.
`textOfTokenEqualToString` returns what `strncmp` returns, so it is true of
texts that differ; `booleanTokenToBool` is a chain of such tests, and follows
the order of the code's chain. `characterNameToChar` is a chain of the same
tests and gives its first name, alarm, for any text but that; with nothing more
to say of it than the run `booleans` says, it is not modelled. `StrtodEnd` is where `strtod` stops, which has
the start of the token and not its end.

### VM

`memory` is the block that `vm.stack` points to, as long as its capacity, and
`top` is `stackTop`. A pointer into the stack (`frames[].slots`, the location
of an open upvalue) is a block and a position, and `block` is the block that
the stack is now: `realloc` may return another one, or not, and a pointer with
another block `IsStale`. Any use of one leads to `"undefined"`, a failed
assertion to `"aborted"`; neither has a successor. `resetStack` frees the block
and keeps pointer and capacity, which is `isFreed`.

There is no bytecode in the model: any instruction comes next that the compiler
could emit there. What the compiler knows is kept in the frame, its `height`
(the number of values that the running function has on the stack), and in
`cellAt`, which says what locals are captured. So `OP_GET_LOCAL` names a local
below the height, `OP_POP` pops a temporary, `OP_CLOSE_UPVALUE` ends the scope
of a captured local, and a function has one upvalue for one variable, which is
what `addUpvalue` of the compiler sees to. Jumps select the next instruction
and change nothing else. `OP_CLOSURE` is a step for the closure and one for
every variable that it captures, because each of them walks the list of open
upvalues, reads the stack, and may allocate.

`compile` pushes up to three values, on an empty stack whose first capacity is
8, and pops them before it returns; that leaves no trace here. `runFile` ends
the process after an error, where the REPL goes on; the model is the REPL, with
`FreeVM` at any end of a line.

`OP_RETURN` leaves the upvalues of its frame open (`leaked`), and does not
close them: an upvalue in `leaked` points at a slot that the caller uses for
something else. The endings of scopes before it could close them, but
`endCompiler` emits none for the parameters and the outermost scope.

The view of `MCVM` leaves out what no action reads and no invariant tests: what
is above the top of the stack, unless an upvalue points there, and what was
assigned to variables none of whose upvalues is intact. `leaked` only grows and
a stale pointer stays stale, so that such a variable is never tested again.

### Accounting

The build decides: with `DEBUG_STRESS_GC` (which `common.h` defines), every
growth collects; without it, a growth that takes `bytesAllocated` beyond
`nextGC`. The actions are those of `Collector`, each with what it counts:
`Grows` is `reallocate`, which sets `isDue`, and `CollectWhenDue` and `GoOn`
take the free choice of `Collector` away. The instance is of the types that
the parser makes of data. The arrays of the AST and of the gray stack are not
counted by the code either. `lost` has the bytes of arrays of vectors that were
freed: `freeObject` frees the struct of a vector alone.

### Chunk

A byte has `Base` values. `written`, a history variable, has the line every
byte was written with; `instruction` is the last constant's instruction.
`AddedIndex`, what `addConstant` returns, is the number of line runs, which is
what the code computes.

## Runs

| Run | Module, cfg | Shows |
|---|---|---|
| `collector_parser` | `MCCollector`, `CollectorParser` | `LocalsAreProtected`, `NothingFreedWhileOff`, `ImplementsManagedHeap` for start-up and for lines that are parsed, or not, with the collector off; vectors among their data |
| `collector_vectors` | `MCAccounting`, `CollectorVectors` | `MarksAreClear`, `BytesAreCounted`, `CollectionEnds` with cycles, collected when the counter says so |
| `collector_closures` | `MCCollector`, `CollectorClosures` | `TypeOK`, `TriColour`, `NoDangling`, `OnlyLeftVariablesDangle`, `ManagesTheRest` for closures, their calls and returns, and upvalues that are shared, closed and left open |
| `collector_names` | `MCCollector`, `CollectorNames` | `ImplementsManagedHeap`, `CollectionAdvances` for symbols as names of functions and globals, with calls, returns and errors |
| `vm` | `MCVM`, `VM` | `TypeOK` (nothing overflows, no junk below the top), `FramesAreStacked`, `UpvaluesHoldTheirVariables`, `OpenUpvaluesAreInOrder`, `OnlyFreedStacksAreFatal` |
| `table` | `MCTable`, `Table` | `TypeOK` (load at most 3/4), `CountIsUsed`, `KeysAreFound`, `ProbesEnd`, `DeadKeysLeave`, `ImplementsSymbolMap` |
| `parser` | `Parser`, `Parser` | `TypeOK`, `ASTIsTheInput`, `ErrorsAreExact`, `OnlyVectorsAbort`, `ParseAdvances`, `ParseEnds` |
| `scanner` | `MCScanner`, `Scanner` | `TypeOK`, `LinesAreCounted`, `NumbersAreTokens`, `CommentsEnd`, `StaysInSource`, `EveryStepAdvances`, `GetsToTheEnd` |
| `chunk` | `Chunk`, `Chunk` | `TypeOK`, `LinesAreKept`, `IndexIsRead` |
| `parser_vectors` | `Parser`, `ParserVectors` | violates `SpansGoForward` |
| `booleans` | `MCScanner`, `Booleans` | violates `BooleansAreRead` |
| `chunk_constant` | `Chunk`, `ChunkConstant` | violates `ConstantIsAtIndex` |

Every passing run explores its whole state space in less than three minutes
on an ordinary machine; `collector_vectors` is the largest, with one and a half million distinct states.

### Bounds

**Collector.** `Types` selects the object types of an instance; the proofs
cover all of them together. Five objects (three with vectors, whose contents
are free; four with names) are enough for each hazard: an object that waits, an
object it needs, an object between them and a root, and garbage on both sides
in the list. In `collector_parser` a vector has one element at most: that it can
hold another object, or itself, is what counts there. `MaxStack` bounds only pushes by instructions; the pushes that
protect come on top of it. `collector_closures` starts where `compile` has
returned a script with one function among its constants (`Compiled` in
`MCCollector`), since the other objects are the closures and upvalues that are
in question: `MaxStack = 5` holds the script, a closure, the frame of its call
and a variable that the frame captures, and three objects beside the two
functions are the script's closure, a closure and an upvalue, or with one of
them freed, its successor at the same address. Two closures share an upvalue
there after the first has been called and left it open. What five objects leave
no room for is a closure that takes over an upvalue of the running closure
(`OP_CLOSURE` with `isLocal` 0): the proofs cover it, and the run `vm` reaches
it. `MaxElements = 2` in `collector_vectors` lets a vector hold itself and
another one.

**Accounting.** Every struct and every value has a small size (`MCAccounting`),
so that a limit of three, and arrays that start at one value, make collections
due, and not due, at every kind of growth within a few objects. `MaxBytes`
bounds the arrays that are lost, which nothing else does.

**VM.** A stack that grows from 2 to 4 values once, moving or not, with frames
and upvalues that point into it. Three frames for a script, two nested calls, and a
third that exceeds the limit; three closures, so that two of them share a
variable and the last one takes an argument; two upvalues, so that the list has
an order. The one constant is told from the values that matter by being
neither `clock` nor a closure; closures are the values that a variable can be
seen to lose. `Defined` is one name, which `clock` can be redefined with. The
proofs cover all the other sizes.

**Table.** Four keys with hashes 0 and 3 in arrays of 4 and 8 slots: keys that
collide, keys whose probe wraps past the end, a key in the way of another
one's probe, arrays that are full with tombstones alone, and growth. Under the
mask of the small array the hashes are the first slot and the last. The initial
capacity is 8 in the code; 4 leaves every constant of the algorithm as it is
(three quarters of either are whole numbers). Keys are interchangeable, since
every assignment of hashes is an initial state.

**Parser.** Seven tokens of lists, data and abbreviations (`Plain`) hold two
levels of lists with an error inside and a way to recover in each; panic mode
and a second line come with them, since after a line the next one starts from
what it left behind. A line with any other token has up to four (`MaxMixed`),
which is one more than any failure to make progress needs. `MaxText` is large
enough for whatever a line of `MaxTokens` can hold and still stay an accepted
line; text beyond it, which only lines with errors reach, is cut.

**Scanner.** Four characters with one of every kind are enough for every token
with its first and its next character, before and after another one; `#\x1` and
`|\a|` are among them. The characters of comments come in sources of up to
twelve, which is three comments inside or after one another. Sources of the
letters of `#true`, `#u8(` and `#\tab` go up to five, so that a text that is compared as a
whole is there in full, in part and wrong; so do those of line endings, strings
and line comments, and those of which numbers are made. Every boolean and every
name of a character is a source too.

**Chunk.** With `Base = 2` an index is beyond one byte from the second run on,
and three bytes hold 8 indices; eight bytes of code let up to four runs precede
an instruction of four bytes. Two lines suffice for lines that come back.

### Where deadlock is not checked

`Parser` and `ParserVectors` can reach the failed assertion, where the process
has ended. `CollectorClosures` can use what was freed, and what follows is not
defined. `Scanner` can leave the source or come into the loop that does not
end, and `Booleans` ends with its source. `VM` can end, fail or be undefined.
All other runs check deadlock.

### History variables

`Parser.skipped` (an error token was passed over), `Chunk.written`,
`Chunk.instruction` and `Accounting.lost` record what has happened, for
properties; no guard reads them. `Collector.loose` has the upvalues that a
return or an error left open; guards read it where they ask what the compiler
knows (whether the running function captured a slot) and where an upvalue points
into a freed stack. In `VM`, `contents` has what was last assigned
to each captured variable and `leaked` the upvalues that a return left open,
for properties alone; `cellAt` and the `cells` of a closure name the variables,
and guards read them where they ask what the compiler knows.

## Fairness

Four specifications have a fairness condition, and in all it says only that
sequential code that has started goes on.

- `Collector`, and `Accounting` alike: `WF_vars(CollectorStep)`. `collectGarbage` does not return
  before `sweep` has ended, and nothing else runs meanwhile. No fairness is
  assumed for the interpreter.
- `Parser`: `WF_vars(Parse)`. A function of the parser that can take its next
  step takes it. That a next line arrives is not assumed.
- `Scanner`: `WF_vars(Next)`. `scanToken` goes on until it returns, and the
  parser asks for tokens until it gets the last one.

`CollectionEnds`, `ParseEnds` and `GetsToTheEnd` need them, in this order. `VM`
has no fairness: whether a program ends is the program's affair.
`ParseEnds` excepts the two loops that the code does not leave, and
`GetsToTheEnd` the one of `|\x`, described below.

## What is proved

### The collector

`CollectorProofs` proves, for any set of objects, any choice of types and any
bounds, with no assumption but those that `ObjectGraph` and `Collector` name
(`NilIsNoObject`: `Nil` is no object; `CollectorAssumption`: the types are
types, the bounds are natural numbers, `Absent` is no value):

| Theorem | Says |
|---|---|
| `Invariant` | `Spec => []IInv` |
| `TypeCorrect` | `Spec => []TypeOK` |
| `NothingDangles` | `Spec => []NoDangling` |
| `MarkingIsTriColour` | `Spec => []TriColour` |
| `NoMarkSurvives` | `Spec => []MarksAreClear` |
| `WaitingLocalsAreProtected` | `Spec => []LocalsAreProtected` |
| `OffMeansKept` | `Spec => NothingFreedWhileOff` |
| `CollectionsAdvance` | `Spec => CollectionAdvances` |
| `CollectionsAreShort` | `Spec => [](StepsLeft \in 0..(2 * Len(objects) + 2))` |
| `CollectorIsAManagedHeap` | `Spec => ImplementsManagedHeap`, if no `UPVALUE` is in `Types` |
| `CollectorManagesTheRest` | `Spec => ManagesTheRest` |
| `StraysAreAlwaysLoose` | `Spec => []StraysAreLoose` |
| `OnlyVariablesThatWereLeftDangle` | `Spec => []OnlyLeftVariablesDangle` |

**The invariant.** None of the properties is inductive. That a finish step
stores a pointer to a live object needs the operation's locals to be live
(`NoDangling` covers `op.args`); that a collection in between keeps them live
needs them to be reachable when it starts (`LocalsAreProtected`); that the
sweep frees nothing reachable needs the marks to be closed when marking ends
(`TriColour` with an empty gray stack), the marked objects to be allocated
(`MarksOK`), and no mark to be left from the collection before
(`MarksAreClear`), since an object that is marked at the start is never grayed;
that a constructor's result has fields of the right types needs the arguments'
types (`ArgsOK`), and these are stable because a live object is not freed, so
that the types of frames, compilers, upvalues and interned symbols (`TypesFit`)
depend on `NoDangling` again. `SessionOK` says when the collector is off and
when C variables alone may hold objects: only then does `NoDangling` cover them
for a reason other than reachability. `IInv` is the conjunction; TLC checked
it on the instance of the run `collector_names` before it was proved.

`NothingDangles` is about what the roots reach, what waits and what the parser
holds. It is silent on a variable that its function has left above the top of
the stack: that one can dangle, in the model as in the code. What is
proved instead is where it ends. `LeftInv` says that an upvalue above the top is
loose (`StraysAreLoose`), counting what the waiting operation is going to pop,
that no two slots have one upvalue, and that the script's frame is the lowest,
with a first slot that nothing captures, so that a script that returns leaves
nothing. It holds
because each other way for the stack to become shorter closes the upvalues above
(`CloseUpvalue`), pops what no closure has captured (`Pop`, `HasTemporary`) or
empties the list (`ResetStack`). With it, an upvalue that is read at a freed
value is a loose one, which is `OnlyVariablesThatWereLeftDangle`; every other
way to read a variable reads a root or a field of something live. Without
upvalues in an instance there is none to be left (`NoneOpen`), which is why
the refinement holds there outright and elsewhere up to `BringsBack`.

**The argument.** `CollectorProofs` begins with what is needed of graphs: what is
reachable lies in every closed set around the roots, grows with the roots, and
is closed itself; and how a field write, an append or a new object changes what
an object points to. It then takes one lemma per action
(`NewSyntaxStep`, ..., `SweepEndStep`), with one step per part of the invariant
that the action can disturb and shared lemmas for the rest: a `Request` step is
proved once, so is `Create`, and a step that leaves the heap and the marks
alone is one lemma. `OffMeansKept` is an action property and follows from
`SessionOK`: a sweep runs only while the collector is on.

`CollectionsAdvance` and `CollectionsAreShort` are what is provable of "a
collection ends": every step of a collection makes the natural number
`StepsLeft` less, so that a collection of `n` objects takes no more than
`2 * n + 2` steps. While marking,
it counts the objects that are not traced yet, gray or white: an object that is
taken from the gray stack does not come back to it, whatever cycle it is on.
That no step of the interpreter comes between is part of the theorem, and that
a step of the collection is always possible is what TLC adds
(`CollectionEnds`).

**The refinement.** `IInv` says that a collection frees nothing live. That it
also frees everything else, as `ManagedHeap` promises, is `OnlyLiveIsMarked`:
marking starts with the roots and goes on to what live objects point to, so that
at its end, when the gray stack is empty, the marked objects are exactly the
live ones. `RemoveWhite`, where the sweep becomes unstoppable, is then
`Collect`; the other steps of a collection leave the abstract heap as it is. The
steps of the interpreter come down to three lemmas: `MoveMap` for references
that move about, `MutateMap` for a field that is written, `AllocateMap` for a
new object. Each asks that what is stored or held afterwards was live before,
and `InUseIsLive`, `AtHandIsLive` and `LocalsAreLive` answer it from `IInv`, for
operands, frames and the arguments of operations that waited.

### The machine

`VMProofs` proves, for every capacity, number of frames, closures and upvalues,
and any arities, from `VMAssumption` (the bounds are natural numbers, a script
has no parameters, neither what unwritten memory holds nor the mark for a
missing global is a value):

| Theorem | Says |
|---|---|
| `Invariant` | `Spec => []IInv` |
| `TypesHold` | `Spec => []TypeOK` |
| `FramesStayStacked` | `Spec => []FramesAreStacked` |
| `VariablesAreShared` | `Spec => []UpvaluesHoldTheirVariables` |
| `ListStaysInOrder` | `Spec => []OpenUpvaluesAreInOrder` |
| `OnlyFreedStacksFail` | `Spec => []OnlyFreedStacksAreFatal` |

**The invariant.** That an upvalue has its variable's value cannot be shown
from the values: an assignment to a local changes one slot, and every other
variable keeps its value only if no other one lies in that slot; an assignment
through an upvalue changes the variable of all closures that captured it only
if they have the same upvalue. So `CellsOK` says that a captured local is one
variable, at one position of the stack, with an open upvalue there, and
`SharingOK` that one variable has one upvalue as long as it is intact;
`ContentsOK` is then the property for what is on the stack and for what is
closed. That a closed upvalue takes the right value needs the list to hold
every open upvalue and to be in order (`ListOK`), for the walk stops at the
first that is low enough. The walk names positions of the stack, so that frames
have to lie on each other (`FramesAreStacked`), and the memory they name has to
be written (`MemoryOK`), also where a leaked upvalue points above the top.
`FramesOK` and `HeapOK` say when frames are there and what the objects are made
of. `IInv` is their conjunction; TLC checked it on the instance of the run `vm`
before it was proved.

**The argument.** One lemma per instruction (`OpConstantStep`, ...,
`OpCloseUpvalueStep`), on lemmas for what instructions share: `PushedStep` and
`PoppedStep` for a value more or less, `ResetStep` for errors, `AssignedStep`
and `AssignedClosed` for assignments, `CapturesStep` for a closure's next
variable. `ListSplit` is what both walks of the list come to: the upvalues they
pass are those above the position, and the others are not. `NewUpvalueStep` and
`ClosedStep` have it insert into the list and cut it. That a call, a native and
a return each leave `FramesAreStacked` is arithmetic on positions.

### The table

`TableProofs` proves, for any set of keys, any hashes, any values, any first
capacity from 4 on and any bound on how far the array grows (`TableAssumption`,
which also has `Nil` and `True` as two values, `NoKey` as no key, and `Absent`
as neither a value nor a truth value):

| Theorem | Says |
|---|---|
| `Invariant` | `Spec => []IInv` |
| `TypesHold` | `Spec => []TypeOK` |
| `CountHolds` | `Spec => []CountIsUsed` |
| `EveryKeyIsFound` | `Spec => []KeysAreFound` |
| `EveryProbeEnds` | `Spec => []ProbesEnd` |
| `NoDeadKeyStays` | `Spec => []DeadKeysLeave` |
| `TableIsAMap` | `Spec => ImplementsSymbolMap` |

**The invariant.** That a search reaches its key is not inductive: an insertion
elsewhere must not open a gap, and a deletion must leave a tombstone. `Placed`
is what makes it so: no key is in two slots, and no slot that is tried before a
key's own is empty. `CountOK` has the count exact, so that the limit on the
count (`GrowthOK`: at most three quarters while nothing grows) is one on used
slots; an array that is not full has an empty slot, and a search for anything
ends there. While `adjustCapacity` copies, `CopyOK` says that the new array
has exactly the keys of the entries below `next`, no tombstone, and no more
entries than the old one, which is why the doubled array has room.

**The argument.** Probing is arithmetic of remainders: the tries from a hash
reach every slot once, so the first that stops a search exists (it is the least
one, by well-founded induction on the natural numbers). `StoreStep` is shared by
`tableSet`, by the copying and by the end of the growth; `Without` is what a
deletion comes to, shared with `tableRemoveWhite`. Counting slots is done with
the library's theorems on finite sets. For the refinement, `ContentsOf` of an
array is the map that the keys' searches would return: a store sets one key of
it, a deletion forgets one, and a finished copy has all of it, so that growth is
a stutter of `SymbolMap` up to the store at its end.

### The parser

`ParserProofs` proves, for lines of any length, from `ParserAssumption` (a line
may have a token before its end, and texts have room for the longest accepted
line; the tokens are any of the ten kinds, with the parentheses, numbers and the
end of the line among them):

| Theorem | Says |
|---|---|
| `Invariant` | `Spec => []IInv` |
| `TypeCorrect` | `Spec => []TypeOK` |
| `NoErrorIsSwallowed` | `Spec => []PanicWasReported` |
| `SpansOfListsGoForward` | `Spec => []OnlyVectorsAbort` |
| `AcceptedLinesAreKept` | `Spec => []ASTIsTheInput` |
| `ErrorsAreReportedExactly` | `Spec => []ErrorsAreExact` |
| `ParsingAdvances` | `Spec => ParseAdvances` |
| `ParsesAreShort` | `Spec => [](Progress \in 0..(10 * Len(input)))` |

**The invariants.** There are three, each proved with the help of those before
it. `IInv` says where the waiting calls began: at tokens that were passed, a
vector's at one that opens a vector, which is why only vectors come to the
failed assertion. `Faithful` is about what is being built:
as long as nothing is wrong with the line (`Hopeless`), the AST and the texts of
the waiting calls, one after another, are the line up to its current token.
`Judged` is about errors in lines of lists, data and abbreviations. Until there
is one, the lists that wait are the parentheses that are open, no parenthesis
came too early and no abbreviation was left without its datum (`Sound`). Once
there is one, the line has a fault that no later token can mend (`Faulty`): that
is why whatever `synchronize` passes over cannot make the report wrong. At the
end of the line the two halves of `Judged` are the two directions of
`ErrorsAreExact`. TLC checked `Faithful` and `Judged` on the instance of the run
`parser` before they were proved.

**The argument.** One lemma per step of the parser and invariant. What is shared
is the call stack (`CallsPushed`, `CallsPopped` and their like: the calls below
stay as they are), the line (`Grows`: tokens are only added), and counting:
parentheses and waiting lists are cardinalities of sets of positions, which one
token or one call more changes by at most one.

`ParsingAdvances` and `ParsesAreShort` are what is provable of "a parse ends".
`Progress` counts ten for each token and takes off three for each waiting call
and, for what the running function may still do with its token, up to six. A
step that reads a token gains more than the call it may open takes off; a step
that does not read has less to do after it, or returns (`ReadsOn`, `DoesLess`).
Only at a token that nothing passes over (`MakesNoProgress`) is this not so.

### Chunks

`ChunkProofs` proves, for any values, lines and bounds and any `Base` from 2 on,
from `ChunkAssumption`:

| Theorem | Says |
|---|---|
| `Invariant` | `Spec => []IInv` |
| `TypeCorrect` | `Spec => []TypeOK` |
| `LinesAreTheBytes` | `Spec => []LinesAreKept` |
| `IndicesAreRead` | `Spec => []IndexIsRead` |
| `GetLineIsOffByOne` | `Spec => []GetLineIsLate` |

`GetLineIsLate`, defined in `ChunkProofs`, is the disagreement with
`chunk.h:97-100` in general form: `getLine` stops within its array and returns
the line of the byte before the offset, for the first byte that of itself.

The theorems are what the run with `Base = 2` and eight bytes stands for: with
`Base = 256`, as in the code, an index takes three bytes only from 256 on, far
beyond what TLC can enumerate.

**The invariant.** `LinesAreKept` is inductive with the types. `IndexIsRead`
needs that an instruction lies in the code as a whole, so that bytes which are
added later are not among those it is read from (`InstructionOK`).

**The argument.** `RunsEnd`, getLine's counter, is a recursive function. That it
is what its definition says is `RunsEndNext`: counters exist for each number of
runs (`CounterExists`) and agree with each other (`CountersAgree`), both by
`SetInduction`, which `NumberProofs` derives from the well-foundedness of finite
sets. `RunBegun` and `RunContinued` are the two cases of `writeNumber`.
`ThreeBytes` is division by `Base` twice: the second quotient is that by
`Base * Base`, and less than `Base` if the index is less than `Weight(3)`.

### The accounting

`AccountingProofs` proves, for any addresses, any sizes of the structs and of a
value, any first capacity and limit, and for either build, from
`AccountingAssumption` (sizes and the first capacity are positive, the types are
those that the parser makes of data) and the assumptions of `Collector`:

| Theorem | Says |
|---|---|
| `CounterOnlyChooses` | `AccountingSpec => Init /\ [][Next]_vars` |
| `CounterInvariant` | `AccountingSpec => []AInv` |
| `BytesAreAlwaysCounted` | `AccountingSpec => []BytesAreCounted` |
| `CounterDoesNotWrap` | `AccountingSpec => [](bytesAllocated \in Nat)` |
| `DueCollectionsAreSafe` | `AccountingSpec => [](NoDangling /\ MarksAreClear)` |
| `DueCollectionsAdvance` | `AccountingSpec => NothingFreedWhileOff /\ CollectionAdvances` |
| `CounterIsAManagedHeap` | `AccountingSpec => ImplementsManagedHeap` |

**The invariant.** `CounterOnlyChooses` says that an interpreter whose counter
decides takes only steps of `Collector`, so that `IInv` and all that follows
from it is there to begin with. `BytesAreCounted` needs more of its own: a freed
object must be one of a type that has a size (`OnlyTypes`), a new one must find
no array left at its address, and the array that was enlarged before its element
is written must be no smaller than the vector at any moment (`RoomOK`). `AInv`
is the conjunction; TLC checked it on the instance of the run
`collector_vectors` before it was proved.

**The argument.** `IInv` makes the heap finite, and the counter is a sum over
it, a fold in no particular order. `NumberProofs` has what that takes: a fold
over a finite set exists and is the same in every order (`SumsExist`,
`SumIsOne`, `SumsInAnyOrder`, by `SubsetInduction`, which is `SetInduction` on
the size of the set), and how it changes with one element more, one less or one
that weighs more. `HeldWithNew`, `HeldWithout` and `HeldWithLarger` say so of the heap, and
there is one lemma per action.

### The scanner

`ScannerProofs` proves, for sources of any length, from `ScannerAssumption` (a
source is a sequence of characters):

| Theorem | Says |
|---|---|
| `Invariant` | `Spec => []IInv` |
| `TypeIsCorrect` | `Spec => []TypeOK` |
| `LinesAreCountedAlways` | `Spec => []LinesAreCounted` |
| `SourceIsLeftOnlyFromWhatIsOpen` | `Spec => StaysInSource` |
| `ScanningAdvances` | `Spec => EveryStepAdvances` |
| `CommentsEndRight` | `Spec => CommentsEnd` |
| `NumbersAreAlwaysTokens` | `Spec => []NumbersAreTokens` |

**The invariant.** `IInv` is short, since the scanner keeps little: where it can
be, that a token other than the last has some text, and what the conversions
rely on that the type of a token does not say (`NumberOK`, `BooleanOK`). The
work is in the steps. A loop of the scanner is the least element of a set of
positions (`SkipAllStops`, `FirstOfStops`); `NestedCommentEnd`, `BarsEnd` and
`Comment` are recursive functions that look at later positions, of which
`BackwardRecursion` shows that they exist and `BackwardInduction` what holds of
them.

**The argument.** `Takes` is what a token does, `Fits` what is asked of its end,
and each kind of token has one lemma (`NumberTakes`, ..., `ScanCharacterTakes`);
`Skips` is the same for a piece of intertoken space. All theorems about steps
then follow from `StepMoves`, `StepAdvances` and `StepCountsLines`.

`CommentsEndRight` is the deepest. `skipNestedComment` calls itself for a
comment inside the comment, once, and continues after it, once; the standard
counts depth. `CommentNests` relates the two: what a comment of depth `d + k`
does is what one of depth `k` does, followed by one of depth `d` from where that
ends. With it `NestedCommentEndsRight` shows by backward induction that the code
never passes the end of a comment, and ends where the comment ends unless a
comment is opened after one that was closed (`isChain`).

`ScanningAdvances` is what is provable of `GetsToTheEnd`: before the terminator
each step reads on or ends the space before a token, so that a source of `n`
characters takes at most two steps for each; where a step is not possible is
`|\x`, and that it is possible everywhere else is left to TLC.

### Only model-checked

`CollectionEnds`, `ParseEnds` and `GetsToTheEnd`, being liveness under fairness,
which is out of the prover's reach, as ENABLED is. The measures that the
argument rests on are proved (`CollectionAdvances`, `ParseAdvances`,
`EveryStepAdvances`): what TLC adds is that a step is possible. Every invariant,
every action property and both refinements that the passing runs check are
theorems, `ImplementsManagedHeap` for instances without upvalues, as the runs
that check it are.

Induction over data by the library's theorems is out of reach as well, since no
installed prover can instantiate their operator parameters. `SetInduction`,
which takes a set of numbers instead, stands in for it: over lengths for
`RunsEnd`, over sizes of sets for sums, and over positions from the last to the
first for the recursions of the scanner.

## What the code does not do as it says

Found while translating, each shown by a run that violates the statement
quoted in `PROJECT.json`:

1. **Every vector literal aborts** (`parser_vectors`). `parseVectorUsing`
   (`literals.c:95`) keeps a pointer to `parser.current` instead of a copy of
   the token, so the span it passes on starts where it ends and the assertion
   of `parser_operations.c:44` fails.
2. **Booleans are read the wrong way round** (`booleans`).
   `textOfTokenEqualToString` (`scanner.c:82`) returns the result of `strncmp`,
   which is not zero where the texts differ. `#t` is false, which is what the
   run shows; `#f`, `#false` and `#true` are true.
3. **`addConstant` returns an index of another array** (`chunk_constant`). It
   takes one from the address of `constants`, and so counts line runs.

Other behaviour that the models follow and that a reader of the code should
know: a period outside panic mode, or a bad token at the very start of a line,
keeps `parseAllTokens` in its loop, and so does anything but a number in a
bytevector (`MakesNoProgress` in `Parser`); an abbreviation at the end of a
line is accepted and holds a NULL (`ASTIsTheInput`); `emitConstant` writes the
three bytes of an index in an order other than that of `writeConstant` and of
the VM; after a parse error the collector stays off until a line parses; `getLine` gives
the first byte of every run but the first the line of the run before, where
`chunk.h:97-100` promises the line of the byte. `getLine` is a pure function
that only the disassembler and error messages call; no run checks the
promise, which fails, and the theorem `GetLineIsOffByOne` says what is true
instead.

In the conversions: every name of a character and every hexadecimal character
but `#\x` itself is read as alarm, since its text is not `alarm`; and a number
has the value of what follows it, `1.5` for the token `1` before `.5`
(`NumbersAreTokens`).

In the machine: the stack moves under the frames and upvalues that point into
it (`IsStale`), so that a function that needs more than the capacity reads
freed memory; after a runtime error the next line writes to the freed stack,
and `freeVM` frees it again; `clock` with an argument goes on after its error to
an assertion that fails; a function that returns leaves its captured variables
on the stack, where its caller overwrites them (`leaked`), and where no
collection sees them as long as they lie above `stackTop`: their values are
freed, and `OP_GET_UPVALUE` or `OP_CLOSE_UPVALUE` then copies a dangling pointer
(`UseFreed` in `Collector`). `VariablesAreShared` does not speak of these
variables.

In the memory: the array of a vector is not freed and stays in
`bytesAllocated`, so that collections come later and later (`lost`).

In the scanner: a line comment that ends the source is read past the
terminator, and `readline` strips the line ending, so that this is every line of
the REPL that ends in a comment; a nested comment, an identifier in bars, `#`,
`#\`, `+.` or `-.` that is left open at the end goes past it as well
(`IsLeftOpen`). A second comment inside a comment ends it early, although
`skipNestedCommentConts` is to skip "as many nested comment continuations as
possible" (`intertoken_space.c:52`). `atInlineHexEscape` is the wrong way
round, so that `|\x`, which `r7rs-tests.scm:1645` has, loops forever and any
other backslash is taken for an escape. So is the test for `8(` after `#u`:
`#u8(` is an error, unlike in `r7rs-tests.scm:1639`, and `#u` with
another character and a parenthesis gives the token of a bytevector. `#\n` is
followed by `ull` alone: `#\newline` (`r7rs-tests.scm:1662`) is an error whose
message lists it as valid, and `#\null` is a name. `dotSubsequent` drops its error, and `+.`
swallows the character after it. Lines are counted right only without comments
and carriage returns (`LinesAreCounted`).

## What is not modelled

- `bytesAllocated` beyond the objects that the parser makes of data. The other
  arrays (chunks, tables, the stack) count in the same way but would need the
  capacities that their modules leave out.
- `freeObjects`, at the end of the process.
- The dispatch of the loop `run`, arithmetic, comparison and jumps: which
  instruction comes next is a free choice in `VM`.
- Scopes, locals and jumps of the compiler: static functions that nothing calls
  at this commit.
- What `strtod` computes, as opposed to how far it reads. `Parser` takes its
  tokens from every sequence that scanner and conversions could produce.
- `tableAddAll`, `guardedAppend`, `setChunkAt`: nothing calls them. Hashing,
  equality of values and printing change no state.
- Capacities of smart arrays, the text of names and messages, reading files.

## Plan

In the order of importance; the first eight are done.

1. `Collector` over `ObjectGraph`, refining `ManagedHeap`, with both its
   invariant and the refinement proved.
2. `Table`, refining `SymbolMap`, with both its invariant and the refinement
   proved.
3. `Parser`, with its invariants proved.
4. `Chunk`, with its invariants proved.
5. `Scanner`, with its invariant and its action properties proved.
6. `VM`, with its invariant proved.
7. `TokenConversions`, with its invariants proved.
8. `Accounting`, for the data of the parser, with its invariant proved.
9. The composition of `VM` with the roots of `Collector`, whose instructions are
   now modelled twice: for their references there, for their positions here.
10. The composition of `Scanner` with `Parser`, whose lines are now any tokens.

Theorems to prove next:

- `ManagedHeap` and `SymbolMap` by themselves: what they promise follows for
  every implementation of them, as it now does for `Collector` and `Table`.
- Those of 9 and 10, with the lemmas on the stack and on tokens that are there.
