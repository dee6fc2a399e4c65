------------------------------ MODULE VMProofs ------------------------------
(***************************************************************************)
(* Proofs about VM, for every size of stack, array of frames and set of    *)
(* values: IInv is an inductive invariant, and what follows from it.       *)
(***************************************************************************)
EXTENDS VM, SequenceTheorems, TLAPS

(* What the assumption says of the sizes.                                  *)
LEMMA Bounds ==
  /\ MinCapacity \in Nat \ {0} /\ MaxCapacity \in Nat \ {0}
  /\ FRAMES_MAX \in Nat \ {0} /\ MaxClosures \in Nat \ {0}
  /\ MaxUpvalues \in Nat /\ MinCapacity <= MaxCapacity
  BY VMAssumption

-----------------------------------------------------------------------------
(* The values that there are: of the closures, those that have been made.  *)
Made == {Data(c) : c \in Constant} \cup {Native}
          \cup {Closure(i) : i \in DOMAIN closures}

IsOpen(u) == u \in DOMAIN upvalues /\ upvalues[u].location # own

(* The stack holds values, and so do the slots that an open upvalue points *)
(* at, above the top or below it.                                          *)
MemoryOK ==
  /\ memory \in Seq(Made \cup {Junk}) /\ Len(memory) <= MaxCapacity
  /\ top \in 0..Len(memory)
  /\ \A i \in 1..top : memory[i] \in Made
  /\ block \in Nat \ {0} /\ isFreed \in BOOLEAN
  /\ state \in {"idle", "running", "capturing", "undefined", "aborted",
                "ended"}
  /\ \A u \in DOMAIN upvalues : IsOpen(u) /\ ~isFreed =>
       memory[upvalues[u].location.at] \in Made

(* Frames are there exactly while a function runs, until something ends    *)
(* the process.                                                            *)
FramesOK ==
  /\ frames \in Seq(Frame)
  /\ Len(frames) <= FRAMES_MAX
  /\ state \in {"running", "capturing"} => frames # <<>> /\ ~isFreed
  /\ state \in {"idle", "ended"} => frames = <<>>

(* A closure has one variable for each upvalue it has captured.            *)
ClosuresOK ==
  /\ closures \in Seq([upvalues : Seq(DOMAIN upvalues),
                       cells : Seq(DOMAIN contents)])
  /\ \A c \in DOMAIN closures :
       DOMAIN closures[c].upvalues = DOMAIN closures[c].cells
  /\ closures # <<>> /\ Len(closures) <= MaxClosures

(* An upvalue has its value itself, or points into the present stack or    *)
(* one that there was.                                                     *)
UpvaluesOK ==
  /\ upvalues \in Seq([location : Pointer, closed : Made \cup {Junk}])
  /\ \A u \in DOMAIN upvalues :
       \/ upvalues[u].location = own /\ upvalues[u].closed \in Made
       \/ /\ upvalues[u].location.block \in 1..block
          /\ upvalues[u].location.at \in 1..Len(memory)
  /\ openUpvalues \in Seq(DOMAIN upvalues)

HeapOK ==
  /\ ClosuresOK /\ UpvaluesOK
  /\ globals \in [Name -> Made \cup {Absent}]
  /\ contents \in Seq(Made)
  /\ cellAt \in [Position -> 0..Len(contents)]
  /\ leaked \subseteq DOMAIN upvalues

(* The list is in order as a whole, and it is of the open upvalues.        *)
ListOK ==
  /\ \A m, n \in DOMAIN openUpvalues : m < n =>
       upvalues[openUpvalues[m]].location.at
         > upvalues[openUpvalues[n]].location.at
  /\ ~isFreed => ToSet(openUpvalues) = {u \in DOMAIN upvalues : IsOpen(u)}
  /\ ToSet(openUpvalues) \subseteq {u \in DOMAIN upvalues : IsOpen(u)}

(* What the closures have captured: upvalues, with the variable that each  *)
(* one stands for.                                                         *)
Pairs ==
  UNION {{<<closures[c].upvalues[i], closures[c].cells[i]>> :
            i \in DOMAIN closures[c].upvalues} : c \in DOMAIN closures}

(* A position is one captured variable at most, lies in the stack above    *)
(* the script itself, and has an upvalue, which is that of all closures    *)
(* that captured the variable.                                             *)
CellsOK ==
  /\ \A p \in Position : cellAt[p] # 0 => p \in 2..top /\ ~isFreed
  /\ \A p, q \in Position : cellAt[p] # 0 /\ cellAt[p] = cellAt[q] => p = q
  /\ \A p \in Position : cellAt[p] # 0 =>
       /\ \E u \in ToSet(openUpvalues) : upvalues[u].location.at = p
       /\ \A pair \in Pairs : pair[2] = cellAt[p] =>
            upvalues[pair[1]].location.at = p

(* The closures that share a variable share its upvalue, and other         *)
(* variables have another one.                                             *)
SharingOK ==
  /\ \A p, q \in Pairs : p[2] = q[2] => p[1] = q[1]
  /\ \A p, q \in Pairs : p[1] = q[1] /\ p[1] \notin leaked => p[2] = q[2]

(* The variable of an upvalue that is open is where it points, with its    *)
(* value; a closed one has the value itself.                               *)
ContentsOK ==
  /\ \A u \in ToSet(openUpvalues) \ leaked :
       /\ cellAt[upvalues[u].location.at] # 0
       /\ ~IsStale(upvalues[u].location) =>
            memory[upvalues[u].location.at]
              = contents[cellAt[upvalues[u].location.at]]
  /\ \A pair \in Pairs : pair[1] \notin leaked =>
       IF upvalues[pair[1]].location = own
       THEN upvalues[pair[1]].closed = contents[pair[2]]
       ELSE ~isFreed => cellAt[upvalues[pair[1]].location.at] = pair[2]

IInv ==
  /\ MemoryOK /\ FramesOK /\ HeapOK /\ ListOK
  /\ FramesAreStacked /\ OnlyFreedStacksAreFatal
  /\ CellsOK /\ SharingOK /\ ContentsOK
-----------------------------------------------------------------------------
(* Sequences. *)

LEMMA Updated ==
  ASSUME NEW S, NEW s \in Seq(S), NEW i \in DOMAIN s, NEW v \in S
  PROVE  /\ [s EXCEPT ![i] = v] \in Seq(S)
         /\ Len([s EXCEPT ![i] = v]) = Len(s)
         /\ DOMAIN [s EXCEPT ![i] = v] = DOMAIN s
         /\ [s EXCEPT ![i] = v][i] = v
         /\ \A j \in DOMAIN s : j # i => [s EXCEPT ![i] = v][j] = s[j]
  BY ExceptSeq

(* A sequence with one more element at its end.                            *)
LEMMA Appended ==
  ASSUME NEW S, NEW s \in Seq(S), NEW v \in S
  PROVE  /\ Append(s, v) \in Seq(S)
         /\ Len(Append(s, v)) = Len(s) + 1
         /\ DOMAIN Append(s, v) = 1..(Len(s) + 1)
         /\ Append(s, v)[Len(s) + 1] = v
         /\ \A j \in 1..Len(s) : Append(s, v)[j] = s[j]
  BY AppendProperties

(* A function on 1..n is a sequence of length n.                           *)
LEMMA IsASequence ==
  ASSUME NEW S, NEW n \in Nat, NEW s \in [1..n -> S]
  PROVE  s \in Seq(S) /\ Len(s) = n /\ DOMAIN s = 1..n
  OBVIOUS

(* A sequence as a function.                                               *)
LEMMA Elements ==
  ASSUME NEW S, NEW s \in Seq(S)
  PROVE  /\ DOMAIN s = 1..Len(s) /\ Len(s) \in Nat
         /\ \A i \in DOMAIN s : s[i] \in S
         /\ s \in [1..Len(s) -> S]
  OBVIOUS

(* A sequence over another set that holds its elements.                    *)
LEMMA Wider ==
  ASSUME NEW S, NEW T, NEW s \in Seq(S), \A i \in DOMAIN s : s[i] \in T
  PROVE  s \in Seq(T)
  OBVIOUS

(* A sequence without its last element.                                    *)
LEMMA Shortened ==
  ASSUME NEW S, NEW s \in Seq(S), s # <<>>
  PROVE  /\ Front(s) \in Seq(S) /\ Len(Front(s)) = Len(s) - 1
         /\ \A i \in 1..(Len(s) - 1) : Front(s)[i] = s[i]
<1> DEFINE n == Len(s) - 1
<1>1. n \in Nat /\ n \in Int /\ \A i \in 1..n : s[i] \in S
  OBVIOUS
<1>2. Front(s) = SubSeq(s, 1, n)
  BY DEF Front
<1> HIDE DEF n
<1>3. /\ Front(s) \in Seq(S)
      /\ Len(Front(s)) = IF 1 <= n THEN n - 1 + 1 ELSE 0
      /\ \A i \in 1..(n - 1 + 1) : Front(s)[i] = s[1 + i - 1]
  BY <1>1, <1>2, SubSeqProperties
<1>4. Len(Front(s)) = n /\ \A i \in 1..n : Front(s)[i] = s[i]
  BY <1>1, <1>3
<1> QED BY <1>3, <1>4 DEF n

(* The rest of a list whose first n elements are dropped.                  *)
LEMMA Dropped ==
  ASSUME NEW S, NEW s \in Seq(S), NEW n \in 0..Len(s)
  PROVE  LET rest == SubSeq(s, n + 1, Len(s)) IN
         /\ rest \in Seq(S) /\ Len(rest) = Len(s) - n
         /\ DOMAIN rest = 1..(Len(s) - n)
         /\ \A i \in 1..(Len(s) - n) : rest[i] = s[n + i]
<1> DEFINE rest == SubSeq(s, n + 1, Len(s))
<1>1. /\ Len(s) \in Nat /\ n \in Nat /\ n <= Len(s) /\ n + 1 \in Int
      /\ \A i \in (n + 1)..Len(s) : s[i] \in S
  OBVIOUS
<1>2. /\ rest \in Seq(S)
      /\ Len(rest) = IF n + 1 <= Len(s) THEN Len(s) - (n + 1) + 1 ELSE 0
      /\ \A i \in 1..(Len(s) - (n + 1) + 1) : rest[i] = s[(n + 1) + i - 1]
  BY <1>1, SubSeqProperties
<1> HIDE DEF rest
<1>3. rest \in Seq(S) /\ Len(rest) = Len(s) - n
  BY <1>1, <1>2
<1>4. DOMAIN rest = 1..(Len(s) - n)
  BY <1>3
<1>5. ASSUME NEW i \in 1..(Len(s) - n) PROVE rest[i] = s[n + i]
  <2>1. i \in 1..(Len(s) - (n + 1) + 1) /\ (n + 1) + i - 1 = n + i
    BY <1>1
  <2> QED BY <1>2, <2>1
<1> QED BY <1>3, <1>4, <1>5 DEF rest

(* A list with a new m-th element.                                         *)
IsInsertion(list, s, m, e) ==
  /\ DOMAIN list = 1..(Len(s) + 1)
  /\ list[m] = e
  /\ \A i \in 1..(m - 1) : list[i] = s[i]
  /\ \A i \in (m + 1)..(Len(s) + 1) : list[i] = s[i - 1]

(* What InsertAt puts at the m-th place.                                   *)
LEMMA Inserted ==
  ASSUME NEW S, NEW s \in Seq(S), NEW m \in 1..(Len(s) + 1), NEW e \in S
  PROVE  InsertAt(s, m, e) \in Seq(S) /\ IsInsertion(InsertAt(s, m, e), s, m, e)
<1> DEFINE n == m - 1
<1>a. n \in 0..Len(s) /\ m = n + 1 /\ m + 1 = n + 2
  OBVIOUS
<1> HIDE DEF n
<1> DEFINE first == SubSeq(s, 1, n)
           rest == SubSeq(s, n + 1, Len(s))
           new == (first \o <<e>>) \o rest
<1>0. InsertAt(s, m, e) = new
  BY <1>a DEF InsertAt, n
<1>1. /\ Len(s) \in Nat /\ n \in Nat /\ n <= Len(s) /\ n \in Int
      /\ \A i \in 1..n : s[i] \in S
  BY <1>a
<1>2. /\ first \in Seq(S) /\ Len(first) = n
      /\ \A i \in 1..n : first[i] = s[i]
  <2>1. /\ first \in Seq(S)
        /\ Len(first) = IF 1 <= n THEN n - 1 + 1 ELSE 0
        /\ \A i \in 1..(n - 1 + 1) : first[i] = s[1 + i - 1]
    BY <1>1, SubSeqProperties
  <2> HIDE DEF first
  <2> QED BY <1>1, <2>1
<1>3. /\ rest \in Seq(S) /\ Len(rest) = Len(s) - n
      /\ \A i \in 1..(Len(s) - n) : rest[i] = s[n + i]
  BY <1>a, Dropped
<1> HIDE DEF first, rest
<1> DEFINE begin == first \o <<e>>
<1>4. <<e>> \in Seq(S) /\ Len(<<e>>) = 1 /\ <<e>>[1] = e
  OBVIOUS
<1>5. /\ begin \in Seq(S) /\ Len(begin) = n + 1
      /\ \A i \in 1..(n + 1) : begin[i] = IF i <= n THEN first[i] ELSE <<e>>[i - n]
  BY <1>2, <1>4, ConcatProperties
<1> HIDE DEF begin
<1>6. /\ new \in Seq(S) /\ Len(new) = (n + 1) + (Len(s) - n)
      /\ \A i \in 1..((n + 1) + (Len(s) - n)) :
           new[i] = IF i <= n + 1 THEN begin[i] ELSE rest[i - (n + 1)]
  <2>1. new = begin \o rest
    BY DEF begin
  <2> HIDE DEF new
  <2>2. /\ begin \o rest \in Seq(S)
        /\ Len(begin \o rest) = Len(begin) + Len(rest)
        /\ \A i \in 1..(Len(begin) + Len(rest)) : (begin \o rest)[i] =
             IF i <= Len(begin) THEN begin[i] ELSE rest[i - Len(begin)]
    BY <1>3, <1>5, ConcatProperties
  <2> QED BY <1>3, <1>5, <2>1, <2>2
<1> HIDE DEF new
<1>7. new \in Seq(S) /\ Len(new) = Len(s) + 1 /\ DOMAIN new = 1..(Len(s) + 1)
  <2>1. (n + 1) + (Len(s) - n) = Len(s) + 1
    BY <1>1
  <2>2. new \in Seq(S) /\ Len(new) = Len(s) + 1
    BY <1>6, <2>1
  <2> QED BY <2>2
<1>8. new[n + 1] = e
  <2>1. /\ n + 1 \in 1..((n + 1) + (Len(s) - n)) /\ n + 1 <= n + 1
        /\ n + 1 \in 1..(n + 1) /\ ~(n + 1 <= n) /\ (n + 1) - n = 1
    BY <1>1
  <2> QED BY <1>4, <1>5, <1>6, <2>1
<1>9. ASSUME NEW i \in 1..n PROVE new[i] = s[i]
  <2>1. /\ i \in 1..((n + 1) + (Len(s) - n)) /\ i <= n + 1
        /\ i \in 1..(n + 1) /\ i <= n
    BY <1>1
  <2> QED BY <1>2, <1>5, <1>6, <2>1
<1>10. ASSUME NEW i \in (n + 2)..(Len(s) + 1) PROVE new[i] = s[i - 1]
  <2>1. /\ i \in 1..((n + 1) + (Len(s) - n)) /\ ~(i <= n + 1)
        /\ i - (n + 1) \in 1..(Len(s) - n) /\ n + (i - (n + 1)) = i - 1
    BY <1>1
  <2>2. new[i] = rest[i - (n + 1)]
    BY <1>6, <2>1
  <2> QED BY <1>3, <2>1, <2>2
<1> QED BY <1>a, <1>0, <1>7, <1>8, <1>9, <1>10 DEF n, IsInsertion
-----------------------------------------------------------------------------
(* A push writes one slot, of a stack that has the room or gets it.        *)
LEMMA PushStep ==
  ASSUME MemoryOK, NEW height \in 0..Len(memory), NEW value, NEW after,
         Push(height, value, after)
  PROVE  /\ memory' \in Seq(Made \cup {Junk, value})
         /\ Len(memory') <= MaxCapacity /\ Len(memory) <= Len(memory')
         /\ top' = height + 1 /\ top' \in 1..Len(memory')
         /\ memory'[height + 1] = value
         /\ \A i \in DOMAIN memory : i # height + 1 => memory'[i] = memory[i]
         /\ block' \in {block, block + 1} /\ block' \in Nat \ {0}
         /\ state' = after /\ isFreed' = isFreed
<1> DEFINE S == Made \cup {Junk, value}
<1>1. memory \in Seq(S) /\ value \in S /\ Len(memory) \in Nat
  BY DEF MemoryOK
<1> HIDE DEF S
<1>2. CASE height < Len(memory)
  <2>1. memory' = [memory EXCEPT ![height + 1] = value] /\ block' = block
    BY <1>2 DEF Push
  <2>2. height + 1 \in DOMAIN memory
    BY <1>1, <1>2
  <2>3. /\ memory' \in Seq(S) /\ Len(memory') = Len(memory)
        /\ memory'[height + 1] = value
        /\ \A j \in DOMAIN memory : j # height + 1 => memory'[j] = memory[j]
    BY <1>1, <2>1, <2>2, Updated
  <2> QED BY <1>1, <1>2, <2>1, <2>3 DEF Push, MemoryOK, S
<1>3. CASE ~(height < Len(memory))
  <2> DEFINE n == GROW_CAPACITY(Len(memory))
             junk == [i \in 1..(n - Len(memory)) |-> Junk]
  <2>1. /\ n <= MaxCapacity
        /\ memory' = [memory \o junk EXCEPT ![height + 1] = value]
        /\ block' \in {block, block + 1}
    BY <1>3 DEF Push, Grown
  <2>2. n \in Nat /\ n > Len(memory)
    BY <1>1, Bounds DEF GROW_CAPACITY
  <2>3. junk \in Seq(S) /\ Len(junk) = n - Len(memory)
    <3>1. junk \in [1..(n - Len(memory)) -> S] /\ n - Len(memory) \in Nat
      BY <1>1, <2>2 DEF S
    <3> QED BY <3>1, IsASequence
  <2> HIDE DEF junk, n
  <2> DEFINE grown == memory \o junk
  <2>4. grown \in Seq(S) /\ Len(grown) = n
          /\ \A i \in 1..Len(memory) : grown[i] = memory[i]
    BY <1>1, <2>2, <2>3, ConcatProperties
  <2> HIDE DEF grown
  <2>5. height + 1 \in DOMAIN grown /\ DOMAIN memory \subseteq DOMAIN grown
    BY <1>1, <1>3, <2>2, <2>4
  <2>0. memory' = [grown EXCEPT ![height + 1] = value]
    BY <2>1 DEF grown
  <2>6. /\ memory' \in Seq(S) /\ Len(memory') = n
        /\ memory'[height + 1] = value
        /\ \A j \in DOMAIN grown : j # height + 1 => memory'[j] = grown[j]
    BY <1>1, <2>0, <2>4, <2>5, Updated
  <2>7. height = Len(memory) /\ block \in Nat \ {0}
    BY <1>1, <1>3 DEF MemoryOK
  <2>8. /\ Len(memory') <= MaxCapacity /\ Len(memory) <= Len(memory')
        /\ height + 1 \in 1..Len(memory')
    BY <1>1, <2>1, <2>2, <2>6, <2>7
  <2>9. \A i \in DOMAIN memory : i # height + 1 => memory'[i] = memory[i]
    BY <1>1, <2>4, <2>5, <2>6
  <2> QED BY <2>1, <2>6, <2>7, <2>8, <2>9 DEF Push, S
<1> QED BY <1>2, <1>3

(* What is open lies on the stack.                                         *)
LEMMA OpenAt ==
  ASSUME MemoryOK, HeapOK, NEW u, IsOpen(u)
  PROVE  /\ u \in DOMAIN upvalues
         /\ upvalues[u].location.at \in 1..Len(memory)
         /\ upvalues[u].location.at \in Position
         /\ upvalues[u].location.block \in 1..block
<1>1. u \in DOMAIN upvalues /\ upvalues[u].location # own
  BY DEF IsOpen
<1>2. /\ upvalues[u].location.block \in 1..block
      /\ upvalues[u].location.at \in 1..Len(memory)
  BY <1>1 DEF HeapOK, UpvaluesOK
<1> QED BY <1>1, <1>2, Bounds DEF MemoryOK, Position

(* What closures have captured are upvalues and variables there are.       *)
LEMMA CapturedPairs ==
  ASSUME HeapOK, NEW pair \in Pairs
  PROVE  pair[1] \in DOMAIN upvalues /\ pair[2] \in DOMAIN contents
<1>1. PICK c \in DOMAIN closures : \E i \in DOMAIN closures[c].upvalues :
        pair = <<closures[c].upvalues[i], closures[c].cells[i]>>
  BY DEF Pairs
<1>2. PICK i \in DOMAIN closures[c].upvalues :
        pair = <<closures[c].upvalues[i], closures[c].cells[i]>>
  BY <1>1
<1> DEFINE S == [upvalues : Seq(DOMAIN upvalues), cells : Seq(DOMAIN contents)]
<1>3. closures \in Seq(S) /\ i \in DOMAIN closures[c].cells
  BY DEF HeapOK, ClosuresOK
<1>4. closures[c] \in S
  <2> HIDE DEF S
  <2> QED BY <1>3, Elements
<1>5. /\ closures[c].upvalues \in Seq(DOMAIN upvalues)
      /\ closures[c].cells \in Seq(DOMAIN contents)
  BY <1>4
<1>6. /\ closures[c].upvalues[i] \in DOMAIN upvalues
      /\ closures[c].cells[i] \in DOMAIN contents
  BY <1>3, <1>5, Elements
<1> QED BY <1>2, <1>6

(***************************************************************************)
(* Instructions that use the stack and leave all variables alone that some *)
(* closure has captured: what they write lies elsewhere.                   *)
(***************************************************************************)
LEMMA StackStep ==
  ASSUME IInv, isFreed = FALSE, isFreed' = FALSE,
         UNCHANGED <<upvalues, openUpvalues, history>>,
         ClosuresOK', Pairs' = Pairs, Made \subseteq Made',
         globals' \in [Name -> Made' \cup {Absent}],
         memory' \in Seq(Made' \cup {Junk}),
         Len(memory) <= Len(memory'), Len(memory') <= MaxCapacity,
         block' \in {block, block + 1}, top' \in 0..Len(memory'),
         \A i \in 1..top' : memory'[i] \in Made',
         \A p \in DOMAIN memory :
           memory'[p] = memory[p] \/ (memory'[p] \in Made' /\ cellAt[p] = 0),
         \A p \in Position : cellAt[p] # 0 => p <= top',
         state' \in {"idle", "running", "capturing"}
  PROVE  MemoryOK' /\ HeapOK' /\ ListOK' /\ CellsOK' /\ SharingOK' /\ ContentsOK'
<1> USE DEF IInv
<1>1. /\ upvalues' = upvalues /\ openUpvalues' = openUpvalues
      /\ contents' = contents /\ cellAt' = cellAt /\ leaked' = leaked
  BY DEF history
<1>2. /\ block \in Nat \ {0} /\ block' \in Nat \ {0} /\ block <= block'
      /\ Len(memory) \in Nat /\ Len(memory') \in Nat
  BY DEF MemoryOK
<1>3. \A u : IsOpen(u)' = IsOpen(u)
  BY <1>1 DEF IsOpen, own
<1>4. MemoryOK'
  <2>1. ASSUME NEW u, IsOpen(u) PROVE memory'[upvalues[u].location.at] \in Made'
    <3>1. /\ upvalues[u].location.at \in DOMAIN memory
          /\ memory[upvalues[u].location.at] \in Made
      BY <2>1, OpenAt DEF MemoryOK
    <3> QED BY <3>1
  <2> QED BY <1>1, <1>2, <1>3, <2>1 DEF MemoryOK
<1>5. UpvaluesOK'
  <2>1. upvalues' \in Seq([location : Pointer, closed : Made' \cup {Junk}])
    <3> DEFINE S == [location : Pointer, closed : Made \cup {Junk}]
               T == [location : Pointer, closed : Made' \cup {Junk}]
    <3>1. upvalues \in Seq(S)
      BY DEF HeapOK, UpvaluesOK
    <3>2. S \subseteq T
      OBVIOUS
    <3> HIDE DEF S, T
    <3>3. \A i \in DOMAIN upvalues : upvalues[i] \in T
      BY <3>1, <3>2, Elements
    <3>4. upvalues \in Seq(T)
      BY <3>1, <3>3, Wider
    <3> QED BY <1>1, <3>4 DEF T
  <2>2. Pointer' = Pointer /\ own' = own
    BY DEF Pointer, own
  <2>3. ASSUME NEW u \in DOMAIN upvalues
        PROVE  \/ upvalues[u].location = own /\ upvalues[u].closed \in Made'
               \/ /\ upvalues[u].location.block \in 1..block'
                  /\ upvalues[u].location.at \in 1..Len(memory')
    <3>1. CASE upvalues[u].location = own /\ upvalues[u].closed \in Made
      BY <3>1
    <3>2. CASE /\ upvalues[u].location.block \in 1..block
               /\ upvalues[u].location.at \in 1..Len(memory)
      BY <1>2, <3>2
    <3> QED BY <3>1, <3>2 DEF HeapOK, UpvaluesOK
  <2>4. openUpvalues' \in Seq(DOMAIN upvalues')
    BY <1>1 DEF HeapOK, UpvaluesOK
  <2> QED BY <1>1, <2>1, <2>2, <2>3, <2>4 DEF UpvaluesOK
<1>6. HeapOK'
  <2>1. contents' \in Seq(Made')
    BY <1>1, Wider DEF HeapOK
  <2> QED BY <1>1, <1>5, <2>1 DEF HeapOK, Position
<1>7. ListOK'
  BY <1>1, <1>3 DEF ListOK
<1>8. CellsOK'
  <2>1. CellsOK /\ Position' = Position /\ top' \in Nat
    BY <1>2 DEF Position
  <2>2. \A p \in Position : cellAt[p] # 0 => p \in 2..top'
    <3> TAKE p \in Position
    <3>1. ASSUME cellAt[p] # 0 PROVE p \in 2..top'
      <4>1. p \in 2..top /\ p <= top' /\ p \in Nat
        BY <2>1, <3>1, Bounds DEF CellsOK, Position
      <4> QED BY <2>1, <4>1
    <3> QED BY <3>1
  <2> QED BY <1>1, <2>1, <2>2 DEF CellsOK
<1>9. SharingOK'
  BY <1>1 DEF SharingOK
<1>10. ContentsOK'
  <2>1. ASSUME NEW u \in ToSet(openUpvalues) \ leaked,
               ~IsStale(upvalues[u].location)'
        PROVE  memory'[upvalues[u].location.at]
                 = contents[cellAt[upvalues[u].location.at]]
    <3>1. IsOpen(u)
      BY DEF ListOK
    <3>2. upvalues[u].location.block = block'
      BY <1>1, <2>1, <3>1 DEF IsStale, IsOpen, own
    <3>3. upvalues[u].location.block \in 1..block
      BY <3>1, OpenAt
    <3>4. ~IsStale(upvalues[u].location)
      BY <1>2, <3>2, <3>3 DEF IsStale
    <3>5. upvalues[u].location.at \in DOMAIN memory
      BY <3>1, OpenAt DEF MemoryOK
    <3> QED BY <3>4, <3>5 DEF ContentsOK
  <2>2. own' = own
    BY DEF own
  <2> QED BY <1>1, <2>1, <2>2 DEF ContentsOK
<1> QED BY <1>4, <1>6, <1>7, <1>8, <1>9, <1>10
-----------------------------------------------------------------------------
(* Frames. *)

Active == state \in {"running", "capturing"}

(* A running function has a frame, which ends at the top of the stack.     *)
LEMMA TopFrame ==
  ASSUME IInv, Active
  PROVE  /\ Len(frames) \in Nat \ {0} /\ Len(frames) \in DOMAIN frames
         /\ frame \in Frame /\ frame.height \in Nat \ {0}
         /\ frame.slots \in Pointer /\ frame.slots.at \in Nat \ {0}
         /\ top = frame.slots.at + frame.height - 1
         /\ top \in 1..Len(memory) /\ Len(memory) \in Nat
         /\ Len(memory) <= MaxCapacity /\ isFreed = FALSE
<1>1. frames \in Seq(Frame) /\ frames # <<>> /\ isFreed = FALSE
  BY DEF IInv, FramesOK, MemoryOK, Active
<1>2. Len(frames) \in Nat \ {0} /\ Len(frames) \in DOMAIN frames
  BY <1>1
<1>3. \A n \in DOMAIN frames : frames[n] \in Frame
  BY <1>1, Elements
<1>4. \A n \in DOMAIN frames : /\ frames[n].height \in Nat \ {0}
                               /\ frames[n].slots \in Pointer
                               /\ frames[n].slots.at \in Nat
  BY <1>3 DEF Frame, Pointer
<1>5. frame.slots.at >= 1
  <2>1. CASE Len(frames) = 1
    BY <1>1, <2>1 DEF IInv, FramesAreStacked, frame
  <2>2. CASE Len(frames) # 1
    <3>0. DOMAIN frames = 1..Len(frames)
      BY <1>1
    <3>1. Len(frames) - 1 \in 1..(Len(frames) - 1)
            /\ Len(frames) - 1 \in DOMAIN frames
      BY <1>2, <2>2, <3>0
    <3>2. frames[(Len(frames) - 1) + 1].slots.at = FrameEnd(Len(frames) - 1)
      BY <1>1, <3>1 DEF IInv, FramesAreStacked
    <3>3. frame.slots.at = frames[Len(frames) - 1].slots.at
                             + frames[Len(frames) - 1].height
      BY <1>2, <3>2 DEF FrameEnd, frame
    <3> QED BY <1>4, <3>1, <3>3
  <2> QED BY <2>1, <2>2
<1>6. top = frame.slots.at + frame.height - 1
  <2>1. top = FrameEnd(Len(frames)) - 1
    BY <1>1 DEF IInv, FramesAreStacked
  <2>2. frame.height \in Nat \ {0} /\ frame.slots.at \in Nat
    BY <1>2, <1>4 DEF frame
  <2>3. FrameEnd(Len(frames)) = frame.slots.at + frame.height
    BY DEF FrameEnd, frame
  <2> QED BY <2>1, <2>2, <2>3
<1>7. top \in 0..Len(memory) /\ Len(memory) \in Nat /\ Len(memory) <= MaxCapacity
  BY DEF IInv, MemoryOK
<1> QED BY <1>1, <1>2, <1>3, <1>4, <1>5, <1>6, <1>7 DEF frame

(* The locals of the running function are above the script itself.         *)
LEMMA LocalAt ==
  ASSUME IInv, Active, NEW i \in Locals
  PROVE  /\ frame.slots.at + i \in 2..top
         /\ frame.slots.at + i \in Position
         /\ frame.slots.at + i \in DOMAIN memory
         /\ memory[frame.slots.at + i] \in Made
<1>1. frame.slots.at + i \in 2..top
  <2>1. i \in 1..(frame.height - 1)
    BY DEF Locals
  <2>2. /\ frame.height \in Nat \ {0} /\ frame.slots.at \in Nat \ {0}
        /\ top = frame.slots.at + frame.height - 1
    BY TopFrame
  <2> QED BY <2>1, <2>2
<1>2. memory \in Seq(Made \cup {Junk}) /\ MaxCapacity \in Nat
  BY Bounds DEF IInv, MemoryOK
<1> QED BY <1>1, <1>2, TopFrame DEF IInv, MemoryOK, Position

(* The temporaries of the running function are not captured.               *)
LEMMA Temporaries ==
  ASSUME IInv, Active, NEW n \in Nat, HasTemporaries(n)
  PROVE  /\ n < frame.height /\ top - n >= frame.slots.at
         /\ \A p \in Position : cellAt[p] # 0 => p <= top - n
<1>1. n < frame.height /\ top - n >= frame.slots.at
  <2>1. n < frame.height
    BY DEF HasTemporaries
  <2>2. /\ frame.height \in Nat \ {0} /\ frame.slots.at \in Nat \ {0}
        /\ top = frame.slots.at + frame.height - 1
    BY TopFrame
  <2> QED BY <2>1, <2>2
<1>2. ASSUME NEW p \in Position, cellAt[p] # 0 PROVE p <= top - n
  <2>0. top \in Nat
    BY TopFrame
  <2>1. p \in 2..top
    BY <1>2 DEF IInv, CellsOK
  <2>2. CASE p > top - n
    <3>1. p \in (top - n + 1)..top
      BY <2>0, <2>1, <2>2
    <3> QED BY <1>2, <3>1 DEF HasTemporaries
  <2> QED BY <2>0, <2>1, <2>2
<1> QED BY <1>1, <1>2

(* The frame of the running function becomes higher or lower, with the top *)
(* of the stack.                                                           *)
LEMMA HeightStep ==
  ASSUME IInv, Active, NEW h \in Nat \ {0}, HeightBecomes(h),
         top' = frame.slots.at + h - 1, isFreed' = FALSE,
         Len(closures') \in Nat, Len(closures) <= Len(closures'),
         Len(closures) \in Nat, state' \in {"running", "capturing"}
  PROVE  FramesOK' /\ FramesAreStacked' /\ OnlyFreedStacksAreFatal'
<1> DEFINE new == [frame EXCEPT !.height = h]
<1>1. frames \in Seq(Frame) /\ Len(frames) \in DOMAIN frames
        /\ Len(frames) \in Nat \ {0}
  BY TopFrame DEF IInv, FramesOK
<1>2. new \in Frame /\ new.slots = frame.slots /\ new.height = h
  BY TopFrame DEF Frame
<1>3. frames' = [frames EXCEPT ![Len(frames)] = new]
  BY <1>1 DEF HeightBecomes, frame
<1> HIDE DEF new
<1>4. /\ frames' \in Seq(Frame) /\ Len(frames') = Len(frames)
      /\ frames'[Len(frames)] = new
      /\ \A n \in DOMAIN frames : n # Len(frames) => frames'[n] = frames[n]
  BY <1>1, <1>2, <1>3, Updated
<1>5. FramesOK'
  <2>1. Frame \subseteq Frame'
    BY DEF Frame, Pointer
  <2>2. \A n \in DOMAIN frames' : frames'[n] \in Frame'
    BY <1>4, <2>1, Elements
  <2>3. frames' \in Seq(Frame')
    BY <1>4, <2>2, Wider
  <2>4. Len(frames') <= FRAMES_MAX /\ frames' # <<>>
    BY <1>1, <1>4 DEF IInv, FramesOK
  <2> QED BY <2>3, <2>4 DEF FramesOK
<1>6. FramesAreStacked'
  <2>1. frames' # <<>> /\ frames # <<>>
    BY <1>1, <1>4
  <2>2. \A n \in DOMAIN frames : frames'[n].slots = frames[n].slots
    BY <1>2, <1>4 DEF frame
  <2>3. frames'[1].slots.at = 1
    BY <1>1, <2>1, <2>2 DEF IInv, FramesAreStacked
  <2>4. ASSUME NEW n \in 1..(Len(frames) - 1)
        PROVE  frames'[n + 1].slots.at = frames'[n].slots.at + frames'[n].height
    <3>1. n \in DOMAIN frames /\ n + 1 \in DOMAIN frames /\ n # Len(frames)
      BY <1>1
    <3>2. frames[n + 1].slots.at = FrameEnd(n)
      BY <2>1 DEF IInv, FramesAreStacked
    <3> QED BY <1>4, <2>2, <3>1, <3>2 DEF FrameEnd
  <2>6. \A n \in 1..(Len(frames') - 1) : frames'[n + 1].slots.at = FrameEnd(n)'
    BY <1>4, <2>4 DEF FrameEnd
  <2>7. top' = FrameEnd(Len(frames))' - 1
    <3>1. FrameEnd(Len(frames))' = frame.slots.at + h
      BY <1>2, <1>4 DEF FrameEnd
    <3>2. frame.slots.at \in Nat
      BY TopFrame
    <3>3. top' = frame.slots.at + (h - 1) /\ h \in Nat
      OBVIOUS
    <3> QED BY <3>1, <3>2, <3>3
  <2> QED BY <1>4, <2>1, <2>3, <2>6, <2>7 DEF FramesAreStacked
<1> QED BY <1>5, <1>6 DEF OnlyFreedStacksAreFatal
-----------------------------------------------------------------------------
(* Values and variables. *)

(* What closures there are is not changed.                                 *)
LEMMA SameClosures ==
  ASSUME HeapOK, closures' = closures, upvalues' = upvalues,
         DOMAIN contents' = DOMAIN contents
  PROVE  /\ ClosuresOK' /\ Pairs' = Pairs /\ Made' = Made
         /\ Len(closures) \in Nat /\ Len(closures') = Len(closures)
<1>1. ClosuresOK /\ Len(closures) \in Nat
  BY DEF HeapOK, ClosuresOK
<1> QED BY <1>1 DEF ClosuresOK, Pairs, Made

(* An instruction that ends with a push, in place of some temporaries.     *)
LEMMA PushedStep ==
  ASSUME IInv, Active, NEW height \in Nat, NEW h \in Nat \ {0}, NEW value,
         NEW after \in {"running", "capturing"},
         height <= top, height + 1 = frame.slots.at + h - 1,
         \A p \in Position : cellAt[p] # 0 => p <= height,
         Push(height, value, after), HeightBecomes(h),
         UNCHANGED <<openUpvalues, upvalues, globals, history>>,
         ClosuresOK', Pairs' = Pairs, Made \cup {value} \subseteq Made',
         Len(closures') \in Nat, Len(closures) \in Nat,
         Len(closures) <= Len(closures')
  PROVE  IInv'
<1>1. /\ MemoryOK /\ isFreed = FALSE /\ top \in 1..Len(memory)
      /\ Len(memory) \in Nat /\ height \in 0..Len(memory)
  BY TopFrame DEF IInv
<1>2. /\ memory' \in Seq(Made \cup {Junk, value})
      /\ Len(memory') <= MaxCapacity /\ Len(memory) <= Len(memory')
      /\ top' = height + 1 /\ top' \in 1..Len(memory')
      /\ memory'[height + 1] = value
      /\ \A i \in DOMAIN memory : i # height + 1 => memory'[i] = memory[i]
      /\ block' \in {block, block + 1}
      /\ state' = after /\ isFreed' = isFreed
  BY <1>1, PushStep
<1>3. memory' \in Seq(Made' \cup {Junk})
  BY <1>2, Wider
<1>4. \A i \in 1..top' : memory'[i] \in Made'
  <2> TAKE i \in 1..top'
  <2>1. CASE i = height + 1
    BY <1>2, <2>1
  <2>2. CASE i # height + 1
    <3>1. i \in 1..top
      BY <1>1, <1>2, <2>2
    <3>2. memory[i] \in Made /\ i \in DOMAIN memory
      BY <1>1, <3>1 DEF MemoryOK
    <3> QED BY <1>2, <2>2, <3>2
  <2> QED BY <2>1, <2>2
<1>5. \A p \in DOMAIN memory :
        memory'[p] = memory[p] \/ (memory'[p] \in Made' /\ cellAt[p] = 0)
  <2> TAKE p \in DOMAIN memory
  <2>1. CASE p = height + 1
    <3>1. p \in Position
      BY <1>1, Bounds DEF MemoryOK, Position
    <3>2. cellAt[p] = 0
      BY <2>1, <3>1
    <3> QED BY <1>2, <2>1, <3>2
  <2>2. CASE p # height + 1
    <3>1. memory'[p] = memory[p]
      BY <1>2, <2>2
    <3> QED BY <3>1
  <2> QED BY <2>1, <2>2
<1>6. globals' \in [Name -> Made' \cup {Absent}]
  <2>1. globals \in [Name -> Made \cup {Absent}] /\ globals' = globals
    BY DEF IInv, HeapOK
  <2> QED BY <2>1
<1>7. top' \in 0..Len(memory') /\ \A p \in Position : cellAt[p] # 0 => p <= top'
  BY <1>2 DEF Position
<1>8. /\ MemoryOK' /\ HeapOK' /\ ListOK' /\ CellsOK' /\ SharingOK'
      /\ ContentsOK'
  BY <1>1, <1>2, <1>3, <1>4, <1>5, <1>6, <1>7, StackStep
<1>9. FramesOK' /\ FramesAreStacked' /\ OnlyFreedStacksAreFatal'
  BY <1>1, <1>2, HeightStep
<1> QED BY <1>8, <1>9 DEF IInv

(* An instruction that ends with a pop.                                    *)
LEMMA PoppedStep ==
  ASSUME IInv, Active, HasTemporaries(1), Pop(1, "running"),
         HeightBecomes(frame.height - 1),
         UNCHANGED <<openUpvalues, heap, history>>,
         globals' \in [Name -> Made \cup {Absent}]
  PROVE  IInv'
<1>1. /\ isFreed = FALSE /\ top \in 1..Len(memory) /\ Len(memory) \in Nat
      /\ frame.height \in Nat \ {0} /\ frame.slots.at \in Nat \ {0}
      /\ top = frame.slots.at + frame.height - 1
  BY TopFrame
<1>2. /\ frame.height - 1 \in Nat \ {0}
      /\ \A p \in Position : cellAt[p] # 0 => p <= top - 1
  BY <1>1, Temporaries
<1>3. /\ top' = top - 1 /\ state' = "running" /\ memory' = memory
      /\ block' = block /\ isFreed' = FALSE
  BY <1>1 DEF Pop
<1>4. /\ closures' = closures /\ upvalues' = upvalues /\ contents' = contents
  BY DEF heap, history
<1>5. /\ ClosuresOK' /\ Pairs' = Pairs /\ Made' = Made
      /\ Len(closures) \in Nat /\ Len(closures') = Len(closures)
  BY <1>4, SameClosures DEF IInv
<1>6. /\ memory \in Seq(Made \cup {Junk}) /\ Len(memory) <= MaxCapacity
      /\ \A i \in 1..top : memory[i] \in Made
  BY DEF IInv, MemoryOK
<1>7. /\ MemoryOK' /\ HeapOK' /\ ListOK' /\ CellsOK' /\ SharingOK'
      /\ ContentsOK'
  <2>1. top' \in 0..Len(memory') /\ \A i \in 1..top' : memory'[i] \in Made'
    BY <1>1, <1>3, <1>5, <1>6
  <2>2. /\ memory' \in Seq(Made' \cup {Junk}) /\ Len(memory') <= MaxCapacity
        /\ Len(memory) <= Len(memory') /\ block' \in {block, block + 1}
        /\ Made \subseteq Made' /\ globals' \in [Name -> Made' \cup {Absent}]
        /\ state' \in {"idle", "running", "capturing"}
    BY <1>1, <1>3, <1>5, <1>6
  <2>3. /\ \A p \in Position : cellAt[p] # 0 => p <= top'
        /\ \A p \in DOMAIN memory : memory'[p] = memory[p]
    BY <1>2, <1>3
  <2>4. UNCHANGED <<upvalues, openUpvalues, history>>
    BY DEF heap
  <2> QED BY <1>1, <1>3, <1>5, <2>1, <2>2, <2>3, <2>4, StackStep
<1>8. FramesOK' /\ FramesAreStacked' /\ OnlyFreedStacksAreFatal'
  <2>1. top' = frame.slots.at + (frame.height - 1) - 1
    BY <1>1, <1>3
  <2>2. Len(closures) <= Len(closures') /\ Len(closures') \in Nat
    BY <1>5
  <2> QED BY <1>2, <1>3, <1>5, <2>1, <2>2, HeightStep
<1> QED BY <1>7, <1>8 DEF IInv
-----------------------------------------------------------------------------
(* The process comes to grief.                                             *)
LEMMA UndefinedStep ==
  ASSUME IInv, Undefined, PointsToFreed
  PROVE  IInv'
<1>1. /\ state' = "undefined"
      /\ memory' = memory /\ top' = top /\ block' = block
      /\ isFreed' = isFreed /\ frames' = frames
      /\ openUpvalues' = openUpvalues /\ upvalues' = upvalues
      /\ closures' = closures /\ globals' = globals
      /\ contents' = contents /\ cellAt' = cellAt /\ leaked' = leaked
  BY DEF Undefined, heap, history
<1>2. Made' = Made /\ Pairs' = Pairs /\ \A u : IsOpen(u)' = IsOpen(u)
  BY <1>1 DEF Made, Pairs, IsOpen, own
<1>3. MemoryOK'
  BY <1>1, <1>2 DEF IInv, MemoryOK
<1>4. FramesOK' /\ FramesAreStacked'
  BY <1>1 DEF IInv, FramesOK, Frame, FramesAreStacked, FrameEnd
<1>5. ClosuresOK' /\ UpvaluesOK'
  BY <1>1, <1>2 DEF IInv, HeapOK, ClosuresOK, UpvaluesOK, Pointer, own
<1>6. HeapOK' /\ ListOK'
  BY <1>1, <1>2, <1>5 DEF IInv, HeapOK, Position, ListOK
<1>7. CellsOK' /\ SharingOK'
  BY <1>1, <1>2 DEF IInv, CellsOK, SharingOK, Position
<1>8. ContentsOK'
  BY <1>1, <1>2 DEF IInv, ContentsOK, IsStale, own
<1>9. OnlyFreedStacksAreFatal'
  BY <1>1 DEF OnlyFreedStacksAreFatal, PointsToFreed, IsStale, own
<1> QED BY <1>3, <1>4, <1>6, <1>7, <1>8, <1>9 DEF IInv

(* resetStack: nothing is left of the stack, and of the upvalues only      *)
(* those that were closed.                                                 *)
LEMMA ResetStep ==
  ASSUME IInv, ResetStack, state' \in {"idle", "undefined", "aborted", "ended"}
  PROVE  IInv'
<1>1. /\ isFreed' = TRUE /\ memory' = [i \in DOMAIN memory |-> Junk]
      /\ top' = 0 /\ frames' = <<>> /\ openUpvalues' = <<>>
      /\ block' = block /\ upvalues' = upvalues /\ closures' = closures
      /\ globals' = globals /\ contents' = contents /\ leaked' = leaked
      /\ cellAt' = [q \in Position |-> IF q >= 1 THEN 0 ELSE cellAt[q]]
  BY DEF ResetStack, EndScope, heap
<1>2. Made' = Made /\ Pairs' = Pairs
  BY <1>1 DEF Made, Pairs
<1>3. memory' \in Seq(Made \cup {Junk}) /\ Len(memory') = Len(memory)
        /\ Len(memory) \in Nat
  <2>1. Len(memory) \in Nat /\ DOMAIN memory = 1..Len(memory)
    BY DEF IInv, MemoryOK
  <2>2. memory' \in [1..Len(memory) -> Made \cup {Junk}]
    BY <1>1, <2>1
  <2> QED BY <2>1, <2>2, IsASequence
<1>4. \A q \in Position : cellAt'[q] = 0
  BY <1>1 DEF Position
<1>5. MemoryOK'
  BY <1>1, <1>2, <1>3 DEF IInv, MemoryOK
<1>6. FramesOK' /\ FramesAreStacked' /\ OnlyFreedStacksAreFatal'
  <2>1. <<>> \in Seq(Frame') /\ Len(<<>>) = 0
    OBVIOUS
  <2>2. Len(frames') <= FRAMES_MAX
    BY <1>1, <2>1, Bounds
  <2> QED BY <1>1, <2>1, <2>2 DEF FramesOK, FramesAreStacked,
                    OnlyFreedStacksAreFatal, PointsToFreed
<1>7. UpvaluesOK'
  BY <1>1, <1>2, <1>3 DEF IInv, HeapOK, UpvaluesOK, Pointer, own
<1>8. ClosuresOK'
  BY <1>1, SameClosures DEF IInv
<1>9. HeapOK'
  <2>1. cellAt' \in [Position -> 0..Len(contents)]
    <3>1. Len(contents) \in Nat
      BY DEF IInv, HeapOK
    <3>2. cellAt' = [q \in Position |-> 0]
      BY <1>1 DEF Position
    <3> QED BY <3>1, <3>2
  <2> QED BY <1>1, <1>2, <1>7, <1>8, <2>1 DEF IInv, HeapOK, Position
<1>10. ToSet(openUpvalues') = {} /\ DOMAIN openUpvalues' = {}
  BY <1>1 DEF ToSet
<1>11. ListOK'
  <2>1. ToSet(openUpvalues)' = {}
    BY <1>10 DEF ToSet
  <2> QED BY <1>1, <1>10, <2>1 DEF ListOK
<1>12. CellsOK' /\ SharingOK'
  BY <1>1, <1>2, <1>4 DEF IInv, CellsOK, SharingOK, Position
<1>13. ContentsOK'
  <2>1. ToSet(openUpvalues)' = {}
    BY <1>10 DEF ToSet
  <2> QED BY <1>1, <1>2, <2>1 DEF IInv, ContentsOK, own
<1> QED BY <1>5, <1>6, <1>9, <1>11, <1>12, <1>13 DEF IInv

(* initVM establishes the invariant.                                       *)
LEMMA InitIInv == Init => IInv
<1> SUFFICES ASSUME Init PROVE IInv
  OBVIOUS
<1>1. /\ memory = [i \in 1..MinCapacity |-> Junk]
      /\ top = 0 /\ block = 1 /\ isFreed = FALSE /\ state = "idle"
      /\ frames = <<>> /\ openUpvalues = <<>> /\ upvalues = <<>>
      /\ closures = <<[upvalues |-> <<>>, cells |-> <<>>]>>
      /\ globals = [n \in Name |-> IF n = "clock" THEN Native ELSE Absent]
      /\ contents = <<>> /\ leaked = {}
      /\ cellAt = [q \in Position |-> 0]
  BY DEF Init
<1>2. memory \in Seq(Made \cup {Junk}) /\ Len(memory) = MinCapacity
  <2>1. memory \in [1..MinCapacity -> Made \cup {Junk}] /\ MinCapacity \in Nat
    BY <1>1, Bounds
  <2> QED BY <2>1, IsASequence
<1>3. DOMAIN upvalues = {} /\ DOMAIN openUpvalues = {}
        /\ ToSet(openUpvalues) = {} /\ DOMAIN contents = {}
        /\ Len(contents) = 0 /\ Len(frames) = 0
  BY <1>1 DEF ToSet
<1>4. MemoryOK
  <2>1. top \in 0..Len(memory) /\ 1..top = {} /\ Len(memory) <= MaxCapacity
    BY <1>1, <1>2, Bounds
  <2>2. block = 1 /\ isFreed = FALSE /\ state = "idle"
    BY <1>1
  <2>3. block \in Nat \ {0}
    BY <2>2
  <2>4. isFreed \in BOOLEAN
    BY <2>2
  <2> QED BY <1>2, <1>3, <2>1, <2>2, <2>3, <2>4 DEF MemoryOK
<1>5. FramesOK /\ FramesAreStacked /\ OnlyFreedStacksAreFatal
  BY <1>1, <1>3, Bounds DEF FramesOK, FramesAreStacked, OnlyFreedStacksAreFatal
<1>6. DOMAIN closures = {1} /\ closures # <<>> /\ Len(closures) = 1
        /\ closures[1].upvalues = <<>> /\ closures[1].cells = <<>>
  BY <1>1
<1>7. ClosuresOK
  <2> DEFINE S == [upvalues : Seq(DOMAIN upvalues), cells : Seq(DOMAIN contents)]
  <2>1. closures[1] \in S
    BY <1>1
  <2> HIDE DEF S
  <2>2. closures \in [1..1 -> S]
    BY <1>1, <2>1
  <2>3. closures \in Seq(S)
    BY <2>2, IsASequence
  <2> QED BY <1>6, <2>3, Bounds DEF ClosuresOK, S
<1>8. Pairs = {}
  BY <1>6 DEF Pairs
<1>9. UpvaluesOK
  BY <1>1, <1>3 DEF UpvaluesOK
<1>10. globals \in [Name -> Made \cup {Absent}]
  BY <1>1 DEF Made
<1>11. HeapOK
  BY <1>1, <1>3, <1>7, <1>9, <1>10 DEF HeapOK
<1>12. ListOK
  BY <1>3 DEF ListOK
<1>13. CellsOK /\ SharingOK /\ ContentsOK
  BY <1>1, <1>3, <1>8 DEF CellsOK, SharingOK, ContentsOK
<1> QED BY <1>4, <1>5, <1>11, <1>12, <1>13 DEF IInv
-----------------------------------------------------------------------------

(* What the running function has on the stack are values.                  *)
LEMMA TopValue ==
  ASSUME IInv, Active, NEW n \in Nat, n < frame.height
  PROVE  top - n \in DOMAIN memory /\ memory[top - n] \in Made
<1>1. /\ top \in 1..Len(memory) /\ Len(memory) \in Nat
      /\ frame.height \in Nat \ {0} /\ frame.slots.at \in Nat \ {0}
      /\ top = frame.slots.at + frame.height - 1
  BY TopFrame
<1>2. top - n \in 1..top /\ top - n \in 1..Len(memory)
  BY <1>1
<1>3. /\ memory \in Seq(Made \cup {Junk})
      /\ \A i \in 1..top : memory[i] \in Made
  BY DEF IInv, MemoryOK
<1> QED BY <1>2, <1>3

(* So is the value on top.                                                 *)
LEMMA TopIsValue ==
  ASSUME IInv, Active
  PROVE  top \in DOMAIN memory /\ memory[top] \in Made
<1>1. 0 < frame.height /\ top \in Nat
  BY TopFrame
<1>2. top - 0 = top
  BY <1>1
<1> QED BY <1>1, <1>2, TopValue

(* A push on top of all that there is.                                     *)
LEMMA PushedOnTop ==
  ASSUME IInv, Active, NEW value \in Made, Push(top, value, "running"),
         HeightBecomes(frame.height + 1),
         UNCHANGED <<openUpvalues, heap, globals, history>>
  PROVE  IInv'
<1>1. /\ top \in 1..Len(memory) /\ Len(memory) \in Nat
      /\ frame.height \in Nat \ {0} /\ frame.slots.at \in Nat \ {0}
      /\ top = frame.slots.at + frame.height - 1
  BY TopFrame
<1>2. /\ frame.height + 1 \in Nat \ {0} /\ top \in Nat /\ top <= top
      /\ top + 1 = frame.slots.at + (frame.height + 1) - 1
  BY <1>1
<1>3. \A p \in Position : cellAt[p] # 0 => p <= top
  BY <1>1, Bounds DEF IInv, CellsOK, Position
<1>4. UNCHANGED <<upvalues, closures, contents>>
  BY DEF heap, history
<1>5. /\ ClosuresOK' /\ Pairs' = Pairs /\ Made' = Made
      /\ Len(closures) \in Nat /\ Len(closures') = Len(closures)
  BY <1>4, SameClosures DEF IInv
<1>6. /\ Made \cup {value} \subseteq Made' /\ Len(closures') \in Nat
      /\ Len(closures) <= Len(closures')
  BY <1>5
<1> QED BY <1>2, <1>3, <1>4, <1>5, <1>6, PushedStep

(* OP_CONSTANT and its kind push a constant.                               *)
LEMMA OpConstantStep == ASSUME IInv, OpConstant PROVE IInv'
<1>1. Active
  BY DEF OpConstant, Running, Active
<1>2. PICK c \in Constant : Push(top, Data(c), "running")
  BY DEF OpConstant
<1>3. Data(c) \in Made
  BY DEF Made
<1> QED BY <1>1, <1>2, <1>3, PushedOnTop DEF OpConstant

(* OP_POP drops a temporary.                                               *)
LEMMA OpPopStep == ASSUME IInv, OpPop PROVE IInv'
<1>1. Active
  BY DEF OpPop, Running, Active
<1>2. globals' \in [Name -> Made \cup {Absent}]
  BY DEF OpPop, IInv, HeapOK
<1> QED BY <1>1, <1>2, PoppedStep DEF OpPop

(* A frame that points into a block that was freed is the end.             *)
LEMMA StaleFrame ==
  ASSUME IInv, Active, IsStale(frame.slots), Undefined
  PROVE  IInv'
<1>1. Len(frames) \in DOMAIN frames
  BY TopFrame
<1> QED BY <1>1, UndefinedStep DEF PointsToFreed, frame

(* OP_GET_LOCAL pushes what is a value already.                            *)
LEMMA OpGetLocalStep == ASSUME IInv, OpGetLocal PROVE IInv'
<1>1. Active
  BY DEF OpGetLocal, Running, Active
<1>2. PICK i \in Locals : IF IsStale(frame.slots) THEN Undefined ELSE GetLocal(i)
  BY DEF OpGetLocal
<1>3. CASE IsStale(frame.slots)
  BY <1>1, <1>2, <1>3, StaleFrame
<1>4. CASE ~IsStale(frame.slots)
  <2>1. memory[frame.slots.at + i] \in Made
    BY <1>1, LocalAt
  <2> QED BY <1>1, <1>2, <1>4, <2>1, PushedOnTop DEF GetLocal
<1> QED BY <1>3, <1>4

(* OP_GET_GLOBAL pushes a global or fails.                                 *)
LEMMA OpGetGlobalStep == ASSUME IInv, OpGetGlobal PROVE IInv'
<1>1. Active
  BY DEF OpGetGlobal, Running, Active
<1>2. PICK name \in Name :
        IF globals[name] = Absent THEN RuntimeError
        ELSE /\ Push(top, globals[name], "running")
             /\ HeightBecomes(frame.height + 1)
             /\ UNCHANGED <<openUpvalues, heap, globals, history>>
  BY DEF OpGetGlobal
<1>3. CASE globals[name] = Absent
  BY <1>2, <1>3, ResetStep DEF RuntimeError
<1>4. CASE globals[name] # Absent
  <2>1. globals[name] \in Made
    BY <1>4 DEF IInv, HeapOK
  <2> QED BY <1>1, <1>2, <1>4, <2>1, PushedOnTop
<1> QED BY <1>3, <1>4

(* OP_DEFINE_GLOBAL pops a temporary.                                      *)
LEMMA OpDefineGlobalStep == ASSUME IInv, OpDefineGlobal PROVE IInv'
<1>1. Active
  BY DEF OpDefineGlobal, Running, Active
<1>2. PICK name \in Defined : globals' = [globals EXCEPT ![name] = memory[top]]
  BY DEF OpDefineGlobal
<1>3. memory[top] \in Made
  BY <1>1, TopIsValue
<1>4. globals' \in [Name -> Made \cup {Absent}]
  BY <1>2, <1>3 DEF IInv, HeapOK
<1>5. UNCHANGED <<openUpvalues, heap, history>>
  BY DEF OpDefineGlobal
<1> QED BY <1>1, <1>4, <1>5, PoppedStep DEF OpDefineGlobal

(* An assignment to a variable that is not a temporary: to a local of the  *)
(* running function, or through an upvalue that is open.  It reaches the   *)
(* upvalue of the variable, and no other one.                              *)
LEMMA AssignedStep ==
  ASSUME IInv, Active, NEW P \in DOMAIN memory, NEW v \in Made,
         NEW cell \in 0..Len(contents),
         memory' = [memory EXCEPT ![P] = v],
         contents' = Assigned(cell, v),
         UNCHANGED <<top, block, isFreed, state, frames, openUpvalues, heap,
                     globals, cellAt, leaked>>,
         \A u \in ToSet(openUpvalues) \ leaked :
           /\ upvalues[u].location.at = P => cellAt[P] = cell
           /\ cell # 0 /\ cellAt[upvalues[u].location.at] = cell =>
                upvalues[u].location.at = P,
         \A pair \in Pairs : upvalues[pair[1]].location = own => pair[2] # cell
  PROVE  IInv'
<1>1. /\ top' = top /\ block' = block /\ isFreed' = isFreed /\ state' = state
      /\ frames' = frames /\ openUpvalues' = openUpvalues
      /\ upvalues' = upvalues /\ closures' = closures /\ globals' = globals
      /\ cellAt' = cellAt /\ leaked' = leaked
  BY DEF heap
<1>2. /\ memory' \in Seq(Made \cup {Junk}) /\ Len(memory') = Len(memory)
      /\ memory'[P] = v /\ \A p \in DOMAIN memory : p # P => memory'[p] = memory[p]
      /\ DOMAIN memory' = DOMAIN memory
  <2>1. memory \in Seq(Made \cup {Junk}) /\ v \in Made \cup {Junk}
    BY DEF IInv, MemoryOK
  <2> QED BY <2>1, Updated
<1>3. /\ contents' \in Seq(Made) /\ Len(contents') = Len(contents)
      /\ DOMAIN contents' = DOMAIN contents
      /\ cell # 0 => contents'[cell] = v
      /\ \A c \in DOMAIN contents : c # cell => contents'[c] = contents[c]
  <2>1. contents \in Seq(Made) /\ Len(contents) \in Nat
          /\ DOMAIN contents = 1..Len(contents)
    BY DEF IInv, HeapOK
  <2>2. CASE cell = 0
    BY <2>1, <2>2 DEF Assigned
  <2>3. CASE cell # 0
    <3>1. contents' = [contents EXCEPT ![cell] = v] /\ cell \in DOMAIN contents
      BY <2>1, <2>3 DEF Assigned
    <3> QED BY <2>1, <2>3, <3>1, Updated
  <2> QED BY <2>2, <2>3
<1>4. Made' = Made /\ Pairs' = Pairs /\ \A u : IsOpen(u)' = IsOpen(u)
  BY <1>1 DEF Made, Pairs, IsOpen, own
<1>5. MemoryOK'
  <2>1. ASSUME NEW p \in DOMAIN memory, memory[p] \in Made
        PROVE  memory'[p] \in Made
    BY <1>2, <2>1
  <2>2. \A i \in 1..top : i \in DOMAIN memory /\ memory[i] \in Made
    BY DEF IInv, MemoryOK
  <2>3. \A u \in DOMAIN upvalues : IsOpen(u) =>
          upvalues[u].location.at \in DOMAIN memory
    BY OpenAt DEF IInv, MemoryOK
  <2> QED BY <1>1, <1>2, <1>4, <2>1, <2>2, <2>3 DEF IInv, MemoryOK
<1>6. FramesOK' /\ FramesAreStacked' /\ OnlyFreedStacksAreFatal'
  BY <1>1 DEF IInv, FramesOK, Frame, FramesAreStacked, FrameEnd,
              OnlyFreedStacksAreFatal, PointsToFreed, IsStale, own, Active
<1>7. UpvaluesOK'
  BY <1>1, <1>2, <1>4 DEF IInv, HeapOK, UpvaluesOK, Pointer, own
<1>8. ClosuresOK'
  BY <1>1, <1>3, SameClosures DEF IInv
<1>9. HeapOK' /\ ListOK'
  BY <1>1, <1>3, <1>4, <1>7, <1>8 DEF IInv, HeapOK, Position, ListOK
<1>10. CellsOK' /\ SharingOK'
  BY <1>1, <1>4 DEF IInv, CellsOK, SharingOK, Position
<1>11. ContentsOK'
  <2>1. ASSUME NEW u \in ToSet(openUpvalues) \ leaked,
               ~IsStale(upvalues[u].location)
        PROVE  memory'[upvalues[u].location.at]
                 = contents'[cellAt[upvalues[u].location.at]]
    <3> DEFINE at == upvalues[u].location.at
    <3>1. at \in DOMAIN memory /\ at \in Position
      BY OpenAt DEF IInv, ListOK, MemoryOK
    <3>2. cellAt[at] # 0 /\ memory[at] = contents[cellAt[at]]
      BY <2>1 DEF IInv, ContentsOK
    <3>3. cellAt[at] \in DOMAIN contents
      BY <3>1, <3>2 DEF IInv, HeapOK
    <3>4. CASE at = P
      BY <1>2, <1>3, <3>2, <3>4
    <3>5. CASE at # P
      <4>1. cellAt[at] # cell
        BY <3>2, <3>5
      <4> QED BY <1>2, <1>3, <3>1, <3>2, <3>3, <3>5, <4>1
    <3> QED BY <3>4, <3>5
  <2>2. ASSUME NEW pair \in Pairs, pair[1] \notin leaked,
               upvalues[pair[1]].location = own
        PROVE  upvalues[pair[1]].closed = contents'[pair[2]]
    <3>1. pair[2] \in DOMAIN contents /\ pair[2] # cell
      BY <2>2, CapturedPairs DEF IInv
    <3>2. upvalues[pair[1]].closed = contents[pair[2]]
      BY <2>2 DEF IInv, ContentsOK
    <3> QED BY <1>3, <3>1, <3>2
  <2>3. own' = own /\ \A u : IsStale(upvalues[u].location)'
                               = IsStale(upvalues[u].location)
    BY <1>1 DEF own, IsStale
  <2> QED BY <1>1, <1>4, <2>1, <2>2, <2>3 DEF IInv, ContentsOK
<1> QED BY <1>5, <1>6, <1>9, <1>10, <1>11 DEF IInv

(* Two upvalues of the list lie at two positions.                          *)
LEMMA OpenApart ==
  ASSUME IInv, NEW u \in ToSet(openUpvalues), NEW w \in ToSet(openUpvalues),
         upvalues[u].location.at = upvalues[w].location.at
  PROVE  u = w
<1>1. openUpvalues \in Seq(DOMAIN upvalues)
  BY DEF IInv, HeapOK, UpvaluesOK
<1>2. PICK m \in DOMAIN openUpvalues : openUpvalues[m] = u
  BY DEF ToSet
<1>3. PICK n \in DOMAIN openUpvalues : openUpvalues[n] = w
  BY DEF ToSet
<1>4. m \in Nat /\ n \in Nat
  BY <1>1
<1>5. upvalues[u].location.at \in Nat
  BY OpenAt DEF IInv, ListOK, MemoryOK
<1>6. ~(m < n) /\ ~(n < m)
  BY <1>2, <1>3, <1>5 DEF IInv, ListOK
<1> QED BY <1>2, <1>3, <1>4, <1>6

(* OP_SET_LOCAL writes to a local, captured or not.                        *)
LEMMA OpSetLocalStep == ASSUME IInv, OpSetLocal PROVE IInv'
<1>1. Active /\ HasTemporaries(1)
  BY DEF OpSetLocal, Running, Active
<1>2. PICK i \in Locals : IF IsStale(frame.slots) THEN Undefined ELSE SetLocal(i)
  BY DEF OpSetLocal
<1>3. CASE IsStale(frame.slots)
  BY <1>1, <1>2, <1>3, StaleFrame
<1>4. CASE ~IsStale(frame.slots)
  <2> DEFINE P == frame.slots.at + i
             v == memory[top]
             cell == cellAt[P]
  <2>1. P \in DOMAIN memory /\ P \in Position /\ P # 0
    BY <1>1, LocalAt, Bounds DEF Position
  <2>2. v \in Made
    BY <1>1, TopIsValue
  <2>3. cell \in 0..Len(contents)
    BY <2>1 DEF IInv, HeapOK
  <2>4. /\ memory' = [memory EXCEPT ![P] = v]
        /\ contents' = Assigned(cell, v)
        /\ UNCHANGED <<top, block, isFreed, state, frames, openUpvalues, heap,
                       globals, cellAt, leaked>>
    BY <1>2, <1>4 DEF SetLocal
  <2>5. ASSUME NEW u \in ToSet(openUpvalues) \ leaked, cell # 0,
               cellAt[upvalues[u].location.at] = cell
        PROVE  upvalues[u].location.at = P
    <3>1. upvalues[u].location.at \in Position
      BY OpenAt DEF IInv, ListOK, MemoryOK
    <3> QED BY <2>1, <2>5, <3>1 DEF IInv, CellsOK
  <2>6. ASSUME NEW pair \in Pairs, upvalues[pair[1]].location = own
        PROVE  pair[2] # cell
    <3>1. pair[2] \in DOMAIN contents /\ contents \in Seq(Made)
      BY CapturedPairs DEF IInv, HeapOK
    <3>2. ASSUME pair[2] = cell PROVE FALSE
      <4>1. cell # 0
        BY <3>1, <3>2
      <4>2. upvalues[pair[1]].location.at = P
        BY <2>1, <3>2, <4>1 DEF IInv, CellsOK
      <4> QED BY <2>1, <2>6, <4>2 DEF own
    <3> QED BY <3>2
  <2> HIDE DEF P, v, cell
  <2>7. \A u \in ToSet(openUpvalues) \ leaked :
          /\ upvalues[u].location.at = P => cellAt[P] = cell
          /\ cell # 0 /\ cellAt[upvalues[u].location.at] = cell =>
               upvalues[u].location.at = P
    BY <2>5 DEF cell
  <2> QED BY <1>1, <2>1, <2>2, <2>3, <2>4, <2>6, <2>7, AssignedStep
<1> QED BY <1>3, <1>4

(* OP_SET_GLOBAL changes nothing but the table, or fails.                  *)
LEMMA OpSetGlobalStep == ASSUME IInv, OpSetGlobal PROVE IInv'
<1>1. Active
  BY DEF OpSetGlobal, Running, Active
<1>2. PICK name \in Name :
        IF globals[name] = Absent THEN RuntimeError
        ELSE /\ globals' = [globals EXCEPT ![name] = memory[top]]
             /\ UNCHANGED <<machine, frames, openUpvalues, heap, history>>
  BY DEF OpSetGlobal
<1>3. CASE globals[name] = Absent
  BY <1>2, <1>3, ResetStep DEF RuntimeError
<1>4. CASE globals[name] # Absent
  <2>1. /\ top' = top /\ block' = block /\ isFreed' = isFreed
        /\ state' = state /\ memory' = memory
        /\ frames' = frames /\ openUpvalues' = openUpvalues
        /\ upvalues' = upvalues /\ closures' = closures
        /\ contents' = contents /\ cellAt' = cellAt /\ leaked' = leaked
    BY <1>2, <1>4 DEF machine, heap, history
  <2>2. memory[top] \in Made
    BY <1>1, TopIsValue
  <2>3. globals' \in [Name -> Made \cup {Absent}]
    BY <1>2, <1>4, <2>2 DEF IInv, HeapOK
  <2>4. Made' = Made /\ Pairs' = Pairs /\ ClosuresOK'
    BY <2>1, SameClosures DEF IInv
  <2>5. /\ top \in 1..Len(memory) /\ Len(memory) \in Nat
        /\ Len(memory) <= MaxCapacity /\ isFreed = FALSE
    BY <1>1, TopFrame
  <2>6. /\ memory' \in Seq(Made' \cup {Junk}) /\ Len(memory) <= Len(memory')
        /\ Len(memory') <= MaxCapacity /\ block' \in {block, block + 1}
        /\ top' \in 0..Len(memory') /\ \A i \in 1..top' : memory'[i] \in Made'
        /\ \A p \in DOMAIN memory : memory'[p] = memory[p]
        /\ isFreed' = FALSE
    BY <2>1, <2>4, <2>5 DEF IInv, MemoryOK
  <2>7. \A p \in Position : cellAt[p] # 0 => p <= top'
    BY <2>1, <2>5, Bounds DEF IInv, CellsOK, Position
  <2>8. state' \in {"idle", "running", "capturing"}
    BY <1>1, <2>1 DEF Active
  <2>9. /\ MemoryOK' /\ HeapOK' /\ ListOK' /\ CellsOK' /\ SharingOK'
        /\ ContentsOK'
    <3>1. /\ UNCHANGED <<upvalues, openUpvalues, history>>
          /\ Made \subseteq Made' /\ globals' \in [Name -> Made' \cup {Absent}]
      BY <2>1, <2>3, <2>4 DEF history
    <3> QED BY <2>4, <2>5, <2>6, <2>7, <2>8, <3>1, StackStep
  <2>10. FramesOK' /\ FramesAreStacked' /\ OnlyFreedStacksAreFatal'
    BY <1>1, <2>1 DEF IInv, FramesOK, Frame, Pointer, FramesAreStacked, FrameEnd,
                      OnlyFreedStacksAreFatal, Active
  <2> QED BY <2>9, <2>10 DEF IInv
<1> QED BY <1>3, <1>4

(* What the running function has captured.                                 *)
LEMMA CapturedAt ==
  ASSUME IInv, Active, NEW i \in Captured
  PROVE  /\ CapturedAs(i) \in DOMAIN upvalues
         /\ frame.closure \in DOMAIN closures
         /\ <<CapturedAs(i), closures[frame.closure].cells[i]>> \in Pairs
         /\ closures[frame.closure].cells[i] \in DOMAIN contents
         /\ Read(CapturedAs(i)) \in Made
<1>1. frame.closure \in DOMAIN closures
  <2>1. frame.closure \in 1..Len(closures)
    BY TopFrame DEF Frame
  <2> QED BY <2>1 DEF IInv, HeapOK, ClosuresOK
<1>2. <<CapturedAs(i), closures[frame.closure].cells[i]>> \in Pairs
  BY <1>1 DEF Pairs, Captured, CapturedAs
<1>3. /\ CapturedAs(i) \in DOMAIN upvalues
      /\ closures[frame.closure].cells[i] \in DOMAIN contents
  BY <1>2, CapturedPairs DEF IInv
<1>4. Read(CapturedAs(i)) \in Made
  <2>1. CASE upvalues[CapturedAs(i)].location = own
    <3>1. own.block \notin 1..block
      BY DEF own
    <3> QED BY <1>3, <2>1, <3>1 DEF IInv, HeapOK, UpvaluesOK, Read
  <2>2. CASE upvalues[CapturedAs(i)].location # own
    <3>1. IsOpen(CapturedAs(i)) /\ isFreed = FALSE
      BY <1>3, <2>2, TopFrame DEF IsOpen
    <3> QED BY <1>3, <2>2, <3>1 DEF IInv, MemoryOK, Read
  <2> QED BY <2>1, <2>2
<1> QED BY <1>1, <1>2, <1>3, <1>4

(* An upvalue that points into a block that was freed is the end.          *)
LEMMA StaleUpvalue ==
  ASSUME IInv, NEW u \in DOMAIN upvalues, IsStale(upvalues[u].location),
         Undefined
  PROVE  IInv'
  BY UndefinedStep DEF PointsToFreed

(* OP_GET_UPVALUE pushes the value of a captured variable.                 *)
LEMMA OpGetUpvalueStep == ASSUME IInv, OpGetUpvalue PROVE IInv'
<1>1. Active
  BY DEF OpGetUpvalue, Running, Active
<1>2. PICK i \in Captured :
        IF IsStale(Location(i)) THEN Undefined
        ELSE /\ Push(top, Read(CapturedAs(i)), "running")
             /\ HeightBecomes(frame.height + 1)
             /\ UNCHANGED <<openUpvalues, heap, globals, history>>
  BY DEF OpGetUpvalue
<1>3. CapturedAs(i) \in DOMAIN upvalues /\ Read(CapturedAs(i)) \in Made
  BY <1>1, CapturedAt
<1>4. CASE IsStale(Location(i))
  BY <1>2, <1>3, <1>4, StaleUpvalue DEF Location
<1>5. CASE ~IsStale(Location(i))
  BY <1>1, <1>2, <1>3, <1>5, PushedOnTop
<1> QED BY <1>4, <1>5

(* An assignment through an upvalue that is closed.                        *)
LEMMA AssignedClosed ==
  ASSUME IInv, Active, NEW u \in DOMAIN upvalues, NEW v \in Made,
         NEW cell \in DOMAIN contents, <<u, cell>> \in Pairs,
         upvalues[u].location = own,
         upvalues' = [upvalues EXCEPT ![u].closed = v],
         contents' = [contents EXCEPT ![cell] = v],
         UNCHANGED <<machine, frames, openUpvalues, closures, globals, cellAt,
                     leaked>>
  PROVE  IInv'
<1>1. /\ top' = top /\ block' = block /\ isFreed' = isFreed /\ state' = state
      /\ frames' = frames /\ openUpvalues' = openUpvalues
      /\ memory' = memory /\ closures' = closures /\ globals' = globals
      /\ cellAt' = cellAt /\ leaked' = leaked
  BY DEF machine
<1> DEFINE Upvalue == [location : Pointer, closed : Made \cup {Junk}]
           new == [upvalues[u] EXCEPT !.closed = v]
<1>2. upvalues \in Seq(Upvalue) /\ upvalues[u] \in Upvalue
  BY Elements DEF IInv, HeapOK, UpvaluesOK
<1>3. new \in Upvalue /\ new.location = own /\ new.closed = v
  BY <1>2
<1>4. /\ upvalues' \in Seq(Upvalue) /\ Len(upvalues') = Len(upvalues)
      /\ DOMAIN upvalues' = DOMAIN upvalues /\ upvalues'[u] = new
      /\ \A w \in DOMAIN upvalues : w # u => upvalues'[w] = upvalues[w]
  <2>1. upvalues' = [upvalues EXCEPT ![u] = new]
    OBVIOUS
  <2> HIDE DEF Upvalue, new
  <2> QED BY <1>2, <1>3, <2>1, Updated
<1>5. /\ contents' \in Seq(Made) /\ DOMAIN contents' = DOMAIN contents
      /\ Len(contents') = Len(contents) /\ contents'[cell] = v
      /\ \A c \in DOMAIN contents : c # cell => contents'[c] = contents[c]
  <2>1. contents \in Seq(Made)
    BY DEF IInv, HeapOK
  <2> QED BY <2>1, Updated
<1>6. \A w \in DOMAIN upvalues : upvalues'[w].location = upvalues[w].location
  BY <1>3, <1>4
<1>7. Made' = Made /\ Pairs' = Pairs /\ \A w : IsOpen(w)' = IsOpen(w)
  BY <1>1, <1>4, <1>6 DEF Made, Pairs, IsOpen, own
<1>8. MemoryOK'
  BY <1>1, <1>4, <1>6, <1>7 DEF IInv, MemoryOK
<1>9. FramesOK' /\ FramesAreStacked' /\ OnlyFreedStacksAreFatal'
  BY <1>1 DEF IInv, FramesOK, Frame, Pointer, FramesAreStacked, FrameEnd,
              OnlyFreedStacksAreFatal, Active
<1>10. UpvaluesOK'
  <2>1. ASSUME NEW w \in DOMAIN upvalues
        PROVE  \/ upvalues'[w].location = own /\ upvalues'[w].closed \in Made
               \/ /\ upvalues'[w].location.block \in 1..block
                  /\ upvalues'[w].location.at \in 1..Len(memory)
    <3>1. CASE w = u
      BY <1>3, <1>4, <3>1
    <3>2. CASE w # u
      BY <1>4, <3>2 DEF IInv, HeapOK, UpvaluesOK
    <3> QED BY <3>1, <3>2
  <2>2. openUpvalues' \in Seq(DOMAIN upvalues')
    BY <1>1, <1>4 DEF IInv, HeapOK, UpvaluesOK
  <2>3. upvalues' \in Seq(Upvalue')
    BY <1>4, <1>7 DEF Pointer
  <2>4. own' = own
    BY DEF own
  <2> QED BY <1>1, <1>4, <1>7, <2>1, <2>2, <2>3, <2>4 DEF UpvaluesOK
<1>11. HeapOK'
  <2>1. ClosuresOK'
    BY <1>1, <1>4, <1>5 DEF IInv, HeapOK, ClosuresOK
  <2> QED BY <1>1, <1>4, <1>5, <1>7, <1>10, <2>1 DEF IInv, HeapOK, Position
<1>12. openUpvalues \in Seq(DOMAIN upvalues)
         /\ \A w \in ToSet(openUpvalues) : w \in DOMAIN upvalues /\ w # u
  BY DEF IInv, HeapOK, UpvaluesOK, ListOK, IsOpen
<1>13. ListOK'
  <2>1. \A m \in DOMAIN openUpvalues : openUpvalues[m] \in DOMAIN upvalues
    BY <1>12
  <2> QED BY <1>1, <1>4, <1>6, <1>7, <2>1 DEF IInv, ListOK
<1>14. CellsOK' /\ SharingOK'
  <2>1. \A pair \in Pairs : pair[1] \in DOMAIN upvalues
    BY CapturedPairs DEF IInv
  <2> QED BY <1>1, <1>6, <1>7, <1>12, <2>1 DEF IInv, CellsOK, SharingOK, Position
<1>15. ContentsOK'
  <2>1. ASSUME NEW w \in ToSet(openUpvalues) \ leaked
        PROVE  /\ cellAt[upvalues[w].location.at] # 0
               /\ cellAt[upvalues[w].location.at] # cell
    <3>1. upvalues[w].location.at \in Position /\ upvalues[w].location.at # 0
      BY OpenAt, Bounds DEF IInv, ListOK, Position
    <3>2. cellAt[upvalues[w].location.at] # 0
      BY DEF IInv, ContentsOK
    <3>3. ASSUME cellAt[upvalues[w].location.at] = cell PROVE FALSE
      <4>1. upvalues[u].location.at = upvalues[w].location.at
        BY <3>1, <3>2, <3>3 DEF IInv, CellsOK
      <4> QED BY <3>1, <4>1 DEF own
    <3> QED BY <3>2, <3>3
  <2>2. ASSUME NEW w \in ToSet(openUpvalues) \ leaked,
               ~IsStale(upvalues[w].location)
        PROVE  memory[upvalues[w].location.at]
                 = contents'[cellAt[upvalues[w].location.at]]
    <3>1. cellAt[upvalues[w].location.at] \in DOMAIN contents
      <4>1. upvalues[w].location.at \in Position
        BY OpenAt DEF IInv, ListOK
      <4> QED BY <2>1, <4>1 DEF IInv, HeapOK
    <3>2. memory[upvalues[w].location.at]
                 = contents[cellAt[upvalues[w].location.at]]
      BY <2>2 DEF IInv, ContentsOK
    <3> QED BY <1>5, <2>1, <3>1, <3>2
  <2>3. ASSUME NEW pair \in Pairs, pair[1] \notin leaked,
               upvalues[pair[1]].location = own
        PROVE  upvalues'[pair[1]].closed = contents'[pair[2]]
    <3>1. pair[1] \in DOMAIN upvalues /\ pair[2] \in DOMAIN contents
      BY CapturedPairs DEF IInv
    <3>2. upvalues[pair[1]].closed = contents[pair[2]]
      BY <2>3 DEF IInv, ContentsOK
    <3>3. CASE pair[1] = u
      <4>1. pair[2] = cell
        BY <2>3, <3>3 DEF IInv, SharingOK
      <4> QED BY <1>3, <1>4, <1>5, <3>3, <4>1
    <3>4. CASE pair[1] # u
      <4>1. pair[2] # cell
        BY <3>4 DEF IInv, SharingOK
      <4> QED BY <1>4, <1>5, <3>1, <3>2, <3>4, <4>1
    <3> QED BY <3>3, <3>4
  <2>4. own' = own /\ \A w \in DOMAIN upvalues :
                         IsStale(upvalues[w].location)' = IsStale(upvalues[w].location)
    BY <1>1, <1>6 DEF own, IsStale
  <2>5. \A pair \in Pairs : pair[1] \in DOMAIN upvalues
    BY CapturedPairs DEF IInv
  <2> QED BY <1>1, <1>6, <1>7, <1>12, <2>1, <2>2, <2>3, <2>4, <2>5
          DEF IInv, ContentsOK
<1> QED BY <1>8, <1>9, <1>11, <1>13, <1>14, <1>15 DEF IInv

(* OP_SET_UPVALUE writes to a variable, closed or on the stack.            *)
LEMMA OpSetUpvalueStep == ASSUME IInv, OpSetUpvalue PROVE IInv'
<1>1. Active
  BY DEF OpSetUpvalue, Running, Active
<1>2. PICK i \in Captured :
        IF IsStale(Location(i)) THEN Undefined ELSE SetUpvalue(i)
  BY DEF OpSetUpvalue
<1> DEFINE u == CapturedAs(i)
           cell == closures[frame.closure].cells[i]
           v == memory[top]
           P == upvalues[u].location.at
<1>3. u \in DOMAIN upvalues /\ <<u, cell>> \in Pairs /\ cell \in DOMAIN contents
  BY <1>1, CapturedAt
<1>4. v \in Made
  BY <1>1, TopIsValue
<1>5. CASE IsStale(Location(i))
  BY <1>2, <1>3, <1>5, StaleUpvalue DEF Location
<1>6. cell # 0 /\ cell \in 0..Len(contents)
        /\ Assigned(cell, v) = [contents EXCEPT ![cell] = v]
  <2>1. contents \in Seq(Made)
    BY DEF IInv, HeapOK
  <2> QED BY <1>3, <2>1 DEF Assigned
<1>7. CASE ~IsStale(Location(i)) /\ upvalues[u].location = own
  <2>1. /\ upvalues' = [upvalues EXCEPT ![u].closed = v] /\ memory' = memory
        /\ contents' = Assigned(cell, v)
        /\ UNCHANGED <<machine, frames, openUpvalues, closures, globals, cellAt,
                       leaked>>
    BY <1>2, <1>7 DEF SetUpvalue, Location, machine
  <2> HIDE DEF u, cell, v
  <2> QED BY <1>1, <1>3, <1>4, <1>6, <1>7, <2>1, AssignedClosed
<1>8. CASE ~IsStale(Location(i)) /\ upvalues[u].location # own
  <2>1. /\ memory' = [memory EXCEPT ![P] = v] /\ upvalues' = upvalues
        /\ contents' = Assigned(cell, v)
        /\ UNCHANGED <<top, block, isFreed, state, frames, openUpvalues, heap,
                       globals, cellAt, leaked>>
    BY <1>2, <1>8 DEF SetUpvalue, Location, heap
  <2>2. IsOpen(u) /\ isFreed = FALSE
    BY <1>1, <1>3, <1>8, TopFrame DEF IsOpen
  <2>3. u \in ToSet(openUpvalues)
    BY <1>3, <2>2 DEF IInv, ListOK
  <2>4. P \in DOMAIN memory
    BY <2>2, OpenAt DEF IInv, MemoryOK
  <2> HIDE DEF u, cell, v
  <2>5. ASSUME NEW w \in ToSet(openUpvalues) \ leaked,
               upvalues[w].location.at = P
        PROVE  cellAt[P] = cell
    <3>1. w = u
      BY <2>3, <2>5, OpenApart
    <3> QED BY <1>3, <1>8, <2>2, <3>1 DEF IInv, ContentsOK
  <2>6. ASSUME NEW w \in ToSet(openUpvalues) \ leaked,
               cellAt[upvalues[w].location.at] = cell
        PROVE  upvalues[w].location.at = P
    <3>1. upvalues[w].location.at \in Position
      BY OpenAt DEF IInv, ListOK
    <3> QED BY <1>3, <1>6, <2>6, <3>1 DEF IInv, CellsOK
  <2>7. ASSUME NEW pair \in Pairs, upvalues[pair[1]].location = own
        PROVE  pair[2] # cell
    BY <1>3, <1>8, <2>7 DEF IInv, SharingOK
  <2> HIDE DEF P
  <2>8. \A w \in ToSet(openUpvalues) \ leaked :
          /\ upvalues[w].location.at = P => cellAt[P] = cell
          /\ cell # 0 /\ cellAt[upvalues[w].location.at] = cell =>
               upvalues[w].location.at = P
    BY <2>5, <2>6
  <2> QED BY <1>1, <1>4, <1>6, <2>1, <2>4, <2>7, <2>8, AssignedStep
<1> QED BY <1>5, <1>7, <1>8
-----------------------------------------------------------------------------
(* Calls. *)

LEMMA CallNativeStep ==
  ASSUME IInv, Active, NEW argCount \in Nat, HasTemporaries(argCount + 1),
         CallNative(argCount)
  PROVE  IInv'
<1>1. CASE argCount = 0
  <2>1. PICK c \in Constant :
          /\ Push(top - (argCount + 1), Data(c), "running")
          /\ HeightBecomes(frame.height - argCount)
          /\ UNCHANGED <<openUpvalues, heap, globals, history>>
    BY <1>1 DEF CallNative
  <2> DEFINE height == top - (argCount + 1)
             h == frame.height - argCount
  <2>2. /\ argCount + 1 < frame.height
        /\ \A p \in Position : cellAt[p] # 0 => p <= height
    BY Temporaries
  <2>3. /\ frame.height \in Nat \ {0} /\ frame.slots.at \in Nat \ {0}
        /\ top = frame.slots.at + frame.height - 1
    BY TopFrame
  <2>4. /\ height \in Nat /\ h \in Nat \ {0} /\ height <= top
        /\ height + 1 = frame.slots.at + h - 1
    BY <2>2, <2>3
  <2>5. UNCHANGED <<upvalues, closures, contents>>
    BY <2>1 DEF heap, history
  <2>6. /\ ClosuresOK' /\ Pairs' = Pairs /\ Made' = Made
        /\ Len(closures) \in Nat /\ Len(closures') = Len(closures)
    BY <2>5, SameClosures DEF IInv
  <2>7. Made \cup {Data(c)} \subseteq Made'
    BY <2>6 DEF Made
  <2>8. Len(closures') \in Nat /\ Len(closures) <= Len(closures')
    BY <2>6
  <2> HIDE DEF height, h
  <2>9. Push(height, Data(c), "running") /\ HeightBecomes(h)
    BY <2>1 DEF height, h
  <2> QED BY <2>1, <2>2, <2>4, <2>5, <2>6, <2>7, <2>8, <2>9, PushedStep
<1>2. CASE argCount # 0
  BY <1>2, ResetStep DEF CallNative
<1> QED BY <1>1, <1>2

(* What does not change when only the frames do.                           *)
LEMMA OnlyFrames ==
  ASSUME IInv, UNCHANGED <<machine, openUpvalues, heap, globals, history>>
  PROVE  /\ MemoryOK' /\ HeapOK' /\ ListOK' /\ CellsOK' /\ SharingOK'
         /\ ContentsOK' /\ top' = top /\ state' = state /\ isFreed' = isFreed
         /\ Frame' = Frame
<1>1. /\ memory' = memory /\ top' = top /\ block' = block
      /\ isFreed' = isFreed /\ state' = state
      /\ openUpvalues' = openUpvalues /\ upvalues' = upvalues
      /\ closures' = closures /\ globals' = globals
      /\ contents' = contents /\ cellAt' = cellAt /\ leaked' = leaked
  BY DEF machine, heap, history
<1>2. Made' = Made /\ Pairs' = Pairs /\ \A u : IsOpen(u)' = IsOpen(u)
  BY <1>1 DEF Made, Pairs, IsOpen, own
<1>3. MemoryOK'
  BY <1>1, <1>2 DEF IInv, MemoryOK
<1>4. ClosuresOK' /\ UpvaluesOK'
  BY <1>1, <1>2 DEF IInv, HeapOK, ClosuresOK, UpvaluesOK, Pointer, own
<1>5. HeapOK' /\ ListOK'
  BY <1>1, <1>2, <1>4 DEF IInv, HeapOK, Position, ListOK
<1>6. CellsOK' /\ SharingOK'
  BY <1>1, <1>2 DEF IInv, CellsOK, SharingOK, Position
<1>7. ContentsOK'
  BY <1>1, <1>2 DEF IInv, ContentsOK, IsStale, own
<1>8. Frame' = Frame
  BY <1>1 DEF Frame, Pointer
<1> QED BY <1>1, <1>3, <1>5, <1>6, <1>7, <1>8

(* call: the frame of the callee begins where its arguments are.           *)
LEMMA NewFrameStep ==
  ASSUME IInv, Active, state = "running", NEW argCount \in Nat,
         HasTemporaries(argCount + 1), NEW closure \in DOMAIN closures,
         Len(frames) # FRAMES_MAX, NewFrame(closure, argCount)
  PROVE  IInv'
<1>1. /\ MemoryOK' /\ HeapOK' /\ ListOK' /\ CellsOK' /\ SharingOK'
      /\ ContentsOK' /\ top' = top /\ state' = state /\ isFreed' = isFreed
      /\ Frame' = Frame
  BY OnlyFrames DEF NewFrame
<1> DEFINE n == Len(frames)
           caller == [frame EXCEPT !.height = @ - (argCount + 1)]
           callee == [closure |-> closure, height |-> argCount + 1,
                      slots |-> [block |-> block, at |-> top - argCount]]
           called == [frames EXCEPT ![n] = caller]
<1>2. /\ frames \in Seq(Frame) /\ n \in DOMAIN frames /\ n \in Nat \ {0}
      /\ frame \in Frame /\ frame.height \in Nat \ {0}
      /\ frame.slots.at \in Nat \ {0} /\ isFreed = FALSE
      /\ top = frame.slots.at + frame.height - 1 /\ frames # <<>>
  BY TopFrame DEF IInv, FramesOK, Active
<1>3. argCount + 1 < frame.height
  BY Temporaries
<1>4. /\ caller \in Frame /\ caller.height = frame.height - (argCount + 1)
      /\ caller.slots = frame.slots
  <2>1. frame.height - (argCount + 1) \in Nat \ {0}
    BY <1>2, <1>3
  <2> QED BY <1>2, <2>1 DEF Frame
<1>5. callee \in Frame /\ callee.slots.at = top - argCount
        /\ callee.height = argCount + 1
  <2>1. top - argCount \in Nat /\ argCount + 1 \in Nat \ {0}
    BY <1>2, <1>3
  <2>2. closure \in 1..Len(closures) /\ block \in Nat
    BY DEF IInv, HeapOK, ClosuresOK, MemoryOK
  <2> QED BY <2>1, <2>2 DEF Frame, Pointer
<1>6. frames' = Append(called, callee)
  BY DEF NewFrame, frame
<1> HIDE DEF caller, callee, n
<1>7. /\ called \in Seq(Frame) /\ Len(called) = n /\ called[n] = caller
      /\ \A i \in DOMAIN frames : i # n => called[i] = frames[i]
  BY <1>2, <1>4, Updated DEF n
<1> HIDE DEF called
<1>8. /\ frames' \in Seq(Frame) /\ Len(frames') = n + 1
      /\ frames'[n + 1] = callee /\ \A i \in 1..n : frames'[i] = called[i]
  BY <1>5, <1>6, <1>7, Appended
<1>9. frames' # <<>> /\ DOMAIN frames = 1..n
  BY <1>2, <1>8 DEF n
<1>10. FramesOK'
  <2>1. Len(frames') <= FRAMES_MAX
    <3>1. n <= FRAMES_MAX /\ n # FRAMES_MAX
      BY DEF IInv, FramesOK, n
    <3> QED BY <1>2, <1>8, <3>1, Bounds
  <2> QED BY <1>1, <1>2, <1>8, <1>9, <2>1 DEF FramesOK
<1>11. FramesAreStacked'
  <2>1. \A i \in 1..n : frames'[i].slots = frames[i].slots
    BY <1>2, <1>4, <1>7, <1>8, <1>9 DEF frame, n
  <2>2. frames'[1].slots.at = 1
    BY <1>2, <2>1 DEF IInv, FramesAreStacked
  <2>3. ASSUME NEW i \in 1..n PROVE frames'[i + 1].slots.at = FrameEnd(i)'
    <3>1. CASE i = n
      <4>1. FrameEnd(i)' = frame.slots.at + (frame.height - (argCount + 1))
        BY <1>2, <1>4, <1>7, <1>8, <3>1 DEF FrameEnd
      <4>2. frames'[i + 1].slots.at = top - argCount
        BY <1>5, <1>8, <3>1
      <4>3. /\ frame.height \in Nat /\ frame.slots.at \in Nat
            /\ top = frame.slots.at + frame.height - 1
        BY <1>2
      <4> QED BY <4>1, <4>2, <4>3
    <3>2. CASE i # n
      <4>1. i \in 1..(n - 1) /\ i \in DOMAIN frames /\ i + 1 \in 1..n
        BY <1>2, <1>9, <3>2
      <4>2. frames[i + 1].slots.at = FrameEnd(i)
        BY <1>2, <4>1 DEF IInv, FramesAreStacked, n
      <4>3. frames'[i] = frames[i]
        BY <1>7, <1>8, <3>2, <4>1
      <4> QED BY <2>1, <4>1, <4>2, <4>3 DEF FrameEnd
    <3> QED BY <3>1, <3>2
  <2>4. top' = FrameEnd(Len(frames))' - 1
    <3>1. FrameEnd(Len(frames))' = (top - argCount) + (argCount + 1)
      BY <1>5, <1>8 DEF FrameEnd
    <3> QED BY <1>1, <1>2, <3>1
  <2>5. Len(frames') - 1 = n
    BY <1>2, <1>8
  <2> QED BY <1>9, <2>2, <2>3, <2>4, <2>5 DEF FramesAreStacked
<1> QED BY <1>1, <1>10, <1>11 DEF IInv, OnlyFreedStacksAreFatal

(* OP_CALL of whatever is below the arguments.                             *)
LEMMA OpCallStep == ASSUME IInv, OpCall PROVE IInv'
<1>1. Active /\ state = "running"
  BY DEF OpCall, Running, Active
<1> DEFINE Callee(argCount) == memory[top - argCount]
<1>2. PICK argCount \in 0..(top - 1) :
        /\ HasTemporaries(argCount + 1)
        /\ \/ Callee(argCount) = Native /\ CallNative(argCount)
           \/ Callee(argCount)[1] = "closure" /\ Call(Callee(argCount)[2], argCount)
           \/ Callee(argCount)[1] = "constant" /\ RuntimeError
  BY DEF OpCall
<1> DEFINE callee == Callee(argCount)
<1>3. argCount \in Nat
  BY <1>1, <1>2, TopFrame
<1>4. callee \in Made
  <2>1. HasTemporaries(argCount + 1)
    BY <1>2
  <2>2. argCount + 1 < frame.height
    BY <2>1 DEF HasTemporaries
  <2>3. frame.height \in Nat
    BY <1>1, TopFrame
  <2>4. argCount < frame.height
    BY <1>3, <2>2, <2>3
  <2> QED BY <1>1, <1>3, <2>4, TopValue
<1>5. CASE callee = Native /\ CallNative(argCount)
  BY <1>1, <1>2, <1>3, <1>5, CallNativeStep
<1>6. CASE callee[1] = "closure" /\ Call(callee[2], argCount)
  <2>1. callee[2] \in DOMAIN closures
    BY <1>4, <1>6 DEF Made, Data, Native, Closure
  <2>2. CASE argCount # Arity[callee[2]] \/ Len(frames) = FRAMES_MAX
    BY <1>6, <2>2, ResetStep DEF Call, RuntimeError
  <2>3. CASE ~(argCount # Arity[callee[2]] \/ Len(frames) = FRAMES_MAX)
    BY <1>1, <1>2, <1>3, <1>6, <2>1, <2>3, NewFrameStep DEF Call
  <2> QED BY <2>2, <2>3
<1>7. CASE callee[1] = "constant" /\ RuntimeError
  BY <1>7, ResetStep DEF RuntimeError
<1> QED BY <1>2, <1>5, <1>6, <1>7

(* interpret pushes the script and gives it a frame.                       *)
LEMMA InterpretStep == ASSUME IInv, Interpret PROVE IInv'
<1>1. /\ state = "idle" /\ isFreed = FALSE /\ frames = <<>> /\ top = 0
      /\ Push(top, Closure(1), "running")
      /\ frames' = <<[closure |-> 1, height |-> 1,
                      slots |-> [block |-> block', at |-> top + 1]]>>
      /\ UNCHANGED <<openUpvalues, heap, globals, history>>
  BY DEF Interpret, IInv, FramesOK, FramesAreStacked, MemoryOK
<1>2. UNCHANGED <<upvalues, closures, contents>>
  BY <1>1 DEF heap, history
<1>3. /\ ClosuresOK' /\ Pairs' = Pairs /\ Made' = Made /\ closures' = closures
      /\ Len(closures) \in Nat \ {0} /\ 1 \in DOMAIN closures
  BY <1>2, SameClosures DEF IInv, HeapOK, ClosuresOK
<1>4. Closure(1) \in Made
  BY <1>3 DEF Made
<1>5. Len(memory) \in Nat /\ 0 \in 0..Len(memory)
  BY DEF IInv, MemoryOK
<1>6. /\ memory' \in Seq(Made \cup {Junk, Closure(1)})
      /\ Len(memory') <= MaxCapacity /\ Len(memory) <= Len(memory')
      /\ top' = 1 /\ top' \in 1..Len(memory') /\ memory'[1] = Closure(1)
      /\ \A i \in DOMAIN memory : i # 1 => memory'[i] = memory[i]
      /\ block' \in {block, block + 1} /\ block' \in Nat \ {0}
      /\ state' = "running" /\ isFreed' = FALSE
  <2>1. Push(0, Closure(1), "running") /\ 0 + 1 = 1
    BY <1>1
  <2>2. /\ memory' \in Seq(Made \cup {Junk, Closure(1)})
        /\ Len(memory') <= MaxCapacity /\ Len(memory) <= Len(memory')
        /\ top' = 0 + 1 /\ top' \in 1..Len(memory')
        /\ memory'[0 + 1] = Closure(1)
        /\ \A i \in DOMAIN memory : i # 0 + 1 => memory'[i] = memory[i]
        /\ block' \in {block, block + 1} /\ block' \in Nat \ {0}
        /\ state' = "running" /\ isFreed' = isFreed
    BY <1>5, <2>1, PushStep DEF IInv
  <2> QED BY <1>1, <2>1, <2>2
<1>7. \A p \in Position : cellAt[p] = 0
  <2>1. 2..top = {}
    BY <1>1
  <2> QED BY <2>1 DEF IInv, CellsOK
<1>8. /\ MemoryOK' /\ HeapOK' /\ ListOK' /\ CellsOK' /\ SharingOK'
      /\ ContentsOK'
  <2>1. memory' \in Seq(Made' \cup {Junk})
    BY <1>3, <1>4, <1>6, Wider
  <2>2. \A i \in 1..top' : memory'[i] \in Made'
    BY <1>3, <1>4, <1>6
  <2>3. \A p \in DOMAIN memory :
          memory'[p] = memory[p] \/ (memory'[p] \in Made' /\ cellAt[p] = 0)
    <3>1. 1 \in Position
      BY Bounds DEF Position
    <3> QED BY <1>3, <1>4, <1>6, <1>7, <3>1
  <2>4. /\ top' \in 0..Len(memory')
        /\ \A p \in Position : cellAt[p] # 0 => p <= top'
    BY <1>6, <1>7
  <2>5. globals' \in [Name -> Made' \cup {Absent}]
    BY <1>1, <1>3 DEF IInv, HeapOK
  <2> QED BY <1>1, <1>2, <1>3, <1>6, <2>1, <2>2, <2>3, <2>4, <2>5, StackStep
<1>9. FramesOK' /\ FramesAreStacked'
  <2> DEFINE f == [closure |-> 1, height |-> 1,
                   slots |-> [block |-> block', at |-> top + 1]]
  <2>1. f \in Frame' /\ f.slots.at = 1 /\ f.height = 1
    BY <1>1, <1>3, <1>6 DEF Frame, Pointer
  <2>2. frames' = <<f>>
    BY <1>1
  <2> HIDE DEF f
  <2>3. Len(frames') = 1 /\ frames'[1] = f /\ frames' # <<>>
    BY <2>2
  <2>4. frames' \in Seq(Frame')
    <3>1. frames' \in [1..1 -> Frame']
      BY <2>1, <2>2
    <3> QED BY <3>1, IsASequence
  <2>5. FramesOK'
    BY <1>6, <2>3, <2>4, Bounds DEF FramesOK
  <2>6. FrameEnd(1)' = 2
    BY <2>1, <2>3 DEF FrameEnd
  <2>7. top' = FrameEnd(Len(frames))' - 1
    BY <1>6, <2>1, <2>3 DEF FrameEnd
  <2> QED BY <2>1, <2>3, <2>5, <2>7 DEF FramesAreStacked
<1> QED BY <1>6, <1>8, <1>9 DEF IInv, OnlyFreedStacksAreFatal

(* After a runtime error there is no stack to push to.                     *)
LEMMA InterpretAfterErrorStep == ASSUME IInv, InterpretAfterError PROVE IInv'
  BY UndefinedStep DEF InterpretAfterError, PointsToFreed

(* freeVM resets the stack.                                                *)
LEMMA FreeVMStep == ASSUME IInv, FreeVM PROVE IInv'
<1>1. state' \in {"idle", "undefined", "aborted", "ended"}
  BY DEF FreeVM
<1> QED BY <1>1, ResetStep DEF FreeVM

(* OP_RETURN of a script: nothing is left on the stack.                    *)
LEMMA ReturnFromScriptStep ==
  ASSUME IInv, Active, HasTemporaries(1), Len(frames) = 1, ReturnFromScript
  PROVE  IInv'
<1>1. /\ isFreed = FALSE /\ top \in 1..Len(memory) /\ Len(memory) \in Nat
      /\ Len(memory) <= MaxCapacity /\ frame.height = 2
      /\ top = frame.slots.at + frame.height - 1
  BY TopFrame DEF ReturnFromScript
<1>2. frame.slots.at = 1
  BY TopFrame DEF IInv, FramesAreStacked, frame
<1>3. top = 2
  BY <1>1, <1>2
<1>4. \A p \in Position : cellAt[p] = 0
  <2> TAKE p \in Position
  <2>1. ASSUME cellAt[p] # 0 PROVE FALSE
    <3>1. p \in 2..top /\ 1 \in Nat
      BY <2>1 DEF IInv, CellsOK
    <3>2. p = top /\ p \in (top - 1 + 1)..top
      BY <1>3, <3>1
    <3> QED BY <2>1, <3>2 DEF HasTemporaries
  <2> QED BY <2>1
<1>5. /\ top' = 0 /\ state' = "idle" /\ memory' = memory /\ block' = block
      /\ isFreed' = FALSE /\ frames' = <<>>
  BY <1>1, <1>3 DEF ReturnFromScript, Pop
<1>6. UNCHANGED <<openUpvalues, upvalues, closures, globals, contents, history>>
  BY DEF ReturnFromScript, heap, history
<1>7. /\ ClosuresOK' /\ Pairs' = Pairs /\ Made' = Made
  BY <1>6, SameClosures DEF IInv
<1>8. /\ MemoryOK' /\ HeapOK' /\ ListOK' /\ CellsOK' /\ SharingOK'
      /\ ContentsOK'
  <2>1. /\ memory' \in Seq(Made' \cup {Junk}) /\ Len(memory) <= Len(memory')
        /\ Len(memory') <= MaxCapacity /\ block' \in {block, block + 1}
        /\ top' \in 0..Len(memory') /\ 1..top' = {}
        /\ \A p \in DOMAIN memory : memory'[p] = memory[p]
        /\ globals' \in [Name -> Made' \cup {Absent}]
        /\ Made \subseteq Made'
    BY <1>1, <1>5, <1>6, <1>7 DEF IInv, MemoryOK, HeapOK
  <2> QED BY <1>1, <1>4, <1>5, <1>6, <1>7, <2>1, StackStep
<1>9. FramesOK' /\ FramesAreStacked' /\ OnlyFreedStacksAreFatal'
  <2>1. <<>> \in Seq(Frame') /\ Len(<<>>) = 0
    OBVIOUS
  <2>2. Len(frames') <= FRAMES_MAX
    BY <1>5, <2>1, Bounds
  <2> QED BY <1>5, <2>1, <2>2 DEF FramesOK, FramesAreStacked,
                                  OnlyFreedStacksAreFatal
<1> QED BY <1>8, <1>9 DEF IInv

(* OP_RETURN to a caller: what was captured in the frame that ends is no   *)
(* longer a variable, and its upvalues, which stay open, are leaked.       *)
LEMMA ReturnToCallerStep ==
  ASSUME IInv, Active, Len(frames) # 1, ReturnToCaller
  PROVE  IInv'
<1> DEFINE base == frame.slots.at
           n == Len(frames) - 1
           caller == frames[n]
           value == memory[top]
<1>1. /\ Push(base - 1, value, "running")
      /\ frames' = [Front(frames) EXCEPT ![n].height = @ + 1]
      /\ cellAt' = [q \in Position |-> IF q >= base THEN 0 ELSE cellAt[q]]
      /\ leaked' = leaked \cup OpenFrom(base)
      /\ openUpvalues' = openUpvalues /\ upvalues' = upvalues
      /\ closures' = closures /\ globals' = globals /\ contents' = contents
  BY DEF ReturnToCaller, EndScope, heap
<1>2. /\ Len(frames) \in Nat \ {0} /\ frame.height \in Nat \ {0}
      /\ base \in Nat \ {0} /\ top = base + frame.height - 1
      /\ top \in 1..Len(memory) /\ Len(memory) \in Nat
      /\ Len(memory) <= MaxCapacity /\ isFreed = FALSE
  BY TopFrame
<1>3. /\ n \in Nat \ {0} /\ n + 1 = Len(frames) /\ base <= top
      /\ base - 1 \in 0..Len(memory) /\ (base - 1) + 1 = base
      /\ base \in 1..Len(memory)
  BY <1>2
<1>4. value \in Made
  BY TopIsValue
<1> HIDE DEF base, value
<1>5. /\ memory' \in Seq(Made \cup {Junk, value})
      /\ Len(memory') <= MaxCapacity /\ Len(memory) <= Len(memory')
      /\ top' = base /\ top' \in 1..Len(memory') /\ memory'[base] = value
      /\ \A i \in DOMAIN memory : i # base => memory'[i] = memory[i]
      /\ block' \in {block, block + 1} /\ block' \in Nat \ {0}
      /\ state' = "running" /\ isFreed' = FALSE
  <2>1. /\ memory' \in Seq(Made \cup {Junk, value})
        /\ Len(memory') <= MaxCapacity /\ Len(memory) <= Len(memory')
        /\ top' = (base - 1) + 1 /\ top' \in 1..Len(memory')
        /\ memory'[(base - 1) + 1] = value
        /\ \A i \in DOMAIN memory : i # (base - 1) + 1 => memory'[i] = memory[i]
        /\ block' \in {block, block + 1} /\ block' \in Nat \ {0}
        /\ state' = "running" /\ isFreed' = isFreed
    BY <1>1, <1>3, PushStep DEF IInv
  <2> QED BY <1>2, <1>3, <2>1
<1>6. /\ Made' = Made /\ Pairs' = Pairs /\ ClosuresOK' /\ own' = own
      /\ \A u : IsOpen(u)' = IsOpen(u)
  BY <1>1, SameClosures DEF IInv, IsOpen, own
<1>7. memory \in Seq(Made \cup {Junk}) /\ \A i \in 1..top : memory[i] \in Made
        /\ block \in Nat \ {0}
  BY DEF IInv, MemoryOK
<1>8. \A i \in DOMAIN memory : memory[i] \in Made => memory'[i] \in Made
  BY <1>4, <1>5
<1>9. MemoryOK'
  <2>1. memory' \in Seq(Made \cup {Junk})
    BY <1>4, <1>5, Wider
  <2>2. top' \in 0..Len(memory') /\ \A i \in 1..top' : memory'[i] \in Made
    <3>1. top' \in 0..Len(memory')
      BY <1>5
    <3>2. ASSUME NEW i \in 1..top' PROVE memory'[i] \in Made
      <4>1. top' \in Nat /\ top' <= top /\ top \in Nat
        BY <1>2, <1>3, <1>5
      <4>2. i \in 1..top /\ i \in DOMAIN memory
        BY <1>2, <1>7, <4>1
      <4> QED BY <1>7, <1>8, <4>2
    <3> QED BY <3>1, <3>2
  <2>3. ASSUME NEW u, IsOpen(u) PROVE memory'[upvalues[u].location.at] \in Made
    <3>1. /\ upvalues[u].location.at \in DOMAIN memory
          /\ memory[upvalues[u].location.at] \in Made
      BY <1>2, <2>3, OpenAt DEF IInv, MemoryOK, IsOpen
    <3> QED BY <1>8, <3>1
  <2> QED BY <1>1, <1>5, <1>6, <2>1, <2>2, <2>3 DEF MemoryOK
<1>10. UpvaluesOK'
  <2>1. ASSUME NEW u \in DOMAIN upvalues
        PROVE  \/ upvalues[u].location = own /\ upvalues[u].closed \in Made
               \/ /\ upvalues[u].location.block \in 1..block'
                  /\ upvalues[u].location.at \in 1..Len(memory')
    <3>1. CASE upvalues[u].location = own /\ upvalues[u].closed \in Made
      BY <3>1
    <3>2. CASE /\ upvalues[u].location.block \in 1..block
               /\ upvalues[u].location.at \in 1..Len(memory)
      <4>1. block <= block' /\ Len(memory') \in Nat
        BY <1>5, <1>7
      <4> QED BY <1>2, <1>5, <1>7, <3>2, <4>1
    <3> QED BY <3>1, <3>2 DEF IInv, HeapOK, UpvaluesOK
  <2> QED BY <1>1, <1>6, <2>1 DEF IInv, HeapOK, UpvaluesOK, Pointer
<1>11. Position' = Position /\ \A p \in Position :
         /\ cellAt'[p] = IF p >= base THEN 0 ELSE cellAt[p]
         /\ p \in Nat
  BY <1>1, Bounds DEF Position
<1>12. HeapOK'
  <2>1. cellAt' \in [Position -> 0..Len(contents)]
    <3>1. cellAt \in [Position -> 0..Len(contents)] /\ Len(contents) \in Nat
      BY DEF IInv, HeapOK
    <3> QED BY <1>1, <3>1
  <2>2. leaked' \subseteq DOMAIN upvalues
    BY <1>1 DEF IInv, HeapOK, ListOK, OpenFrom, IsOpen
  <2> QED BY <1>1, <1>6, <1>10, <1>11, <2>1, <2>2 DEF IInv, HeapOK
<1>13. ListOK'
  BY <1>1, <1>2, <1>5, <1>6 DEF IInv, ListOK
<1>14. CellsOK'
  <2>1. \A p \in Position : cellAt'[p] # 0 =>
          cellAt'[p] = cellAt[p] /\ cellAt[p] # 0 /\ p < base
    BY <1>2, <1>3, <1>11 DEF base
  <2>2. ASSUME NEW p \in Position, cellAt'[p] # 0 PROVE p \in 2..top'
    <3>1. p \in 2..top /\ p < base
      BY <2>1, <2>2 DEF IInv, CellsOK
    <3> QED BY <1>2, <1>3, <1>5, <3>1
  <2> QED BY <1>1, <1>5, <1>6, <1>11, <2>1, <2>2 DEF IInv, CellsOK
<1>15. SharingOK'
  BY <1>1, <1>6 DEF IInv, SharingOK
<1>16. \A u \in ToSet(openUpvalues) \ leaked' :
         /\ upvalues[u].location.at \in DOMAIN memory
         /\ upvalues[u].location.at \in Position
         /\ upvalues[u].location.at < base
         /\ cellAt'[upvalues[u].location.at] = cellAt[upvalues[u].location.at]
  <2> TAKE u \in ToSet(openUpvalues) \ leaked'
  <2>1. upvalues[u].location.at \in DOMAIN memory
          /\ upvalues[u].location.at \in Position
    BY OpenAt DEF IInv, ListOK, MemoryOK
  <2>2. ~(upvalues[u].location.at >= base)
    BY <1>1 DEF OpenFrom
  <2>3. upvalues[u].location.at \in Nat /\ base \in Nat
    BY <1>3, <1>11, <2>1 DEF base
  <2> QED BY <1>11, <2>1, <2>2, <2>3
<1>17. ContentsOK'
  <2>1. ASSUME NEW u \in ToSet(openUpvalues) \ leaked'
        PROVE  /\ cellAt'[upvalues[u].location.at] # 0
               /\ ~IsStale(upvalues[u].location)' =>
                    memory'[upvalues[u].location.at]
                      = contents[cellAt'[upvalues[u].location.at]]
    <3>1. u \in ToSet(openUpvalues) \ leaked /\ IsOpen(u)
      BY <1>1 DEF IInv, ListOK
    <3>2. memory'[upvalues[u].location.at] = memory[upvalues[u].location.at]
      BY <1>3, <1>5, <1>16 DEF base
    <3>3. ASSUME ~IsStale(upvalues[u].location)'
          PROVE  ~IsStale(upvalues[u].location)
      <4>1. upvalues[u].location.block = block'
        BY <1>1, <1>6, <3>1, <3>3 DEF IsStale, IsOpen
      <4>2. upvalues[u].location.block \in 1..block
        BY <3>1, OpenAt DEF IInv
      <4>3. upvalues[u].location.block = block
        BY <1>5, <1>7, <4>1, <4>2
      <4> QED BY <4>3 DEF IsStale
    <3> QED BY <1>16, <3>1, <3>2, <3>3 DEF IInv, ContentsOK
  <2>2. ASSUME NEW pair \in Pairs, pair[1] \notin leaked'
        PROVE  IF upvalues[pair[1]].location = own
               THEN upvalues[pair[1]].closed = contents[pair[2]]
               ELSE cellAt'[upvalues[pair[1]].location.at] = pair[2]
    <3>1. pair[1] \notin leaked /\ pair[1] \in DOMAIN upvalues
      BY <1>1, <2>2, CapturedPairs DEF IInv
    <3>2. CASE upvalues[pair[1]].location = own
      BY <3>1, <3>2 DEF IInv, ContentsOK
    <3>3. CASE upvalues[pair[1]].location # own
      <4>1. pair[1] \in ToSet(openUpvalues) \ leaked'
        BY <1>2, <2>2, <3>1, <3>3 DEF IInv, ListOK, IsOpen
      <4>2. cellAt[upvalues[pair[1]].location.at] = pair[2]
        BY <1>2, <3>1, <3>3 DEF IInv, ContentsOK
      <4> QED BY <1>16, <3>3, <4>1, <4>2
    <3> QED BY <3>2, <3>3
  <2> QED BY <1>1, <1>5, <1>6, <2>1, <2>2 DEF ContentsOK
<1>18. FramesOK' /\ FramesAreStacked'
  <2>1. /\ frames \in Seq(Frame) /\ frames # <<>> /\ Frame' = Frame
        /\ Len(frames) <= FRAMES_MAX
    BY <1>1, <1>2 DEF IInv, FramesOK, Frame, Pointer
  <2> DEFINE below == Front(frames)
             new == [caller EXCEPT !.height = @ + 1]
  <2>2. /\ below \in Seq(Frame) /\ Len(below) = n
        /\ \A i \in 1..n : below[i] = frames[i]
    BY <2>1, Shortened
  <2>3. n \in DOMAIN below /\ caller \in Frame /\ caller.height \in Nat \ {0}
          /\ caller.slots.at \in Nat /\ below[n] = caller
    <3>1. n \in DOMAIN below /\ n \in DOMAIN frames /\ n \in 1..n
      BY <1>3, <2>1, <2>2
    <3>2. caller \in Frame
      BY <2>1, <3>1, Elements
    <3> QED BY <2>2, <3>1, <3>2 DEF Frame, Pointer
  <2>4. new \in Frame /\ new.slots = caller.slots
          /\ new.height = caller.height + 1
    BY <2>3 DEF Frame
  <2>5. frames' = [below EXCEPT ![n] = new]
    BY <1>1, <2>2, <2>3
  <2> HIDE DEF below, new, caller, n
  <2>6. /\ frames' \in Seq(Frame) /\ Len(frames') = n /\ frames'[n] = new
        /\ \A i \in DOMAIN below : i # n => frames'[i] = below[i]
    BY <2>2, <2>3, <2>4, <2>5, Updated
  <2>7. DOMAIN below = 1..n /\ frames' # <<>>
    BY <1>3, <2>2, <2>6
  <2>8. FramesOK'
    BY <1>3, <1>5, <2>1, <2>6, <2>7, Bounds DEF FramesOK
  <2>9. \A i \in 1..n : frames'[i].slots = frames[i].slots
    BY <1>3, <2>2, <2>3, <2>4, <2>6, <2>7 DEF caller
  <2>10. \A i \in 1..n : frames[i + 1].slots.at = frames[i].slots.at + frames[i].height
    BY <1>3, <2>1 DEF IInv, FramesAreStacked, FrameEnd
  <2>11. frames'[1].slots.at = 1
    BY <1>3, <2>1, <2>9 DEF IInv, FramesAreStacked
  <2>12. ASSUME NEW i \in 1..(n - 1)
         PROVE  frames'[i + 1].slots.at = frames'[i].slots.at + frames'[i].height
    <3>1. i \in 1..n /\ i + 1 \in 1..n /\ i # n
      BY <1>3
    <3>2. frames'[i] = frames[i]
      BY <2>2, <2>6, <2>7, <3>1
    <3> QED BY <2>9, <2>10, <3>1, <3>2
  <2>13. top' = (frames'[n].slots.at + frames'[n].height) - 1
    <3>1. base = caller.slots.at + caller.height
      <4>1. n \in 1..n
        BY <1>3
      <4> QED BY <1>3, <2>10, <4>1 DEF base, frame, caller
    <3>2. frames'[n].slots.at + frames'[n].height
            = caller.slots.at + (caller.height + 1)
      BY <2>4, <2>6
    <3> QED BY <1>5, <2>3, <3>1, <3>2
  <2> QED BY <2>6, <2>7, <2>8, <2>11, <2>12, <2>13
          DEF FramesAreStacked, FrameEnd
<1> QED BY <1>5, <1>9, <1>12, <1>13, <1>14, <1>15, <1>17, <1>18
        DEF IInv, OnlyFreedStacksAreFatal

(* OP_RETURN of a script or of a function.                                 *)
LEMMA OpReturnStep == ASSUME IInv, OpReturn PROVE IInv'
<1>1. Active /\ HasTemporaries(1)
  BY DEF OpReturn, Running, Active
<1>2. CASE Len(frames) = 1
  BY <1>1, <1>2, ReturnFromScriptStep DEF OpReturn
<1>3. CASE Len(frames) # 1 /\ IsStale(frame.slots)
  BY <1>1, <1>3, StaleFrame DEF OpReturn
<1>4. CASE Len(frames) # 1 /\ ~IsStale(frame.slots)
  BY <1>1, <1>4, ReturnToCallerStep DEF OpReturn
<1> QED BY <1>2, <1>3, <1>4
-----------------------------------------------------------------------------
(* Closures. *)

LEMMA OpClosureStep == ASSUME IInv, OpClosure PROVE IInv'
<1>1. Active
  BY DEF OpClosure, Running, Active
<1> DEFINE n == Len(closures)
           empty == [upvalues |-> <<>>, cells |-> <<>>]
           S == [upvalues : Seq(DOMAIN upvalues), cells : Seq(DOMAIN contents)]
<1>2. /\ n < MaxClosures /\ closures' = Append(closures, empty)
      /\ Push(top, Closure(n + 1), "capturing")
      /\ HeightBecomes(frame.height + 1)
      /\ UNCHANGED <<openUpvalues, upvalues, globals, history>>
      /\ UNCHANGED contents
  BY DEF OpClosure, history
<1>3. /\ closures \in Seq(S) /\ empty \in S /\ n \in Nat \ {0}
      /\ DOMAIN closures = 1..n
      /\ \A c \in DOMAIN closures :
           DOMAIN closures[c].upvalues = DOMAIN closures[c].cells
  BY DEF IInv, HeapOK, ClosuresOK
<1>4. empty.upvalues = <<>> /\ DOMAIN empty.upvalues = DOMAIN empty.cells
        /\ DOMAIN empty.upvalues = {}
  OBVIOUS
<1> HIDE DEF empty, S
<1>5. /\ closures' \in Seq(S) /\ Len(closures') = n + 1
      /\ DOMAIN closures' = 1..(n + 1) /\ closures'[n + 1] = empty
      /\ \A c \in 1..n : closures'[c] = closures[c]
  BY <1>2, <1>3, Appended
<1> HIDE DEF n
<1>6. \A c \in 1..(n + 1) : c = n + 1 \/ c \in 1..n
  BY <1>3
<1>7. ClosuresOK'
  <2>1. S' = S
    BY <1>2 DEF S
  <2>2. n + 1 <= MaxClosures /\ closures' # <<>>
    BY <1>2, <1>3, <1>5, Bounds
  <2>3. ASSUME NEW c \in DOMAIN closures'
        PROVE  DOMAIN closures'[c].upvalues = DOMAIN closures'[c].cells
    BY <1>3, <1>4, <1>5, <1>6
  <2> QED BY <1>5, <2>1, <2>2, <2>3 DEF ClosuresOK, S
<1>8. Pairs' = Pairs
  <2> DEFINE Of(c) == {<<closures[c].upvalues[i], closures[c].cells[i]>> :
                         i \in DOMAIN closures[c].upvalues}
             After(c) == {<<closures'[c].upvalues[i], closures'[c].cells[i]>> :
                            i \in DOMAIN closures'[c].upvalues}
  <2>1. \A c \in 1..n : After(c) = Of(c)
    BY <1>5
  <2>2. After(n + 1) = {}
    BY <1>4, <1>5
  <2>3. /\ Pairs = UNION {Of(c) : c \in 1..n}
        /\ Pairs' = UNION {After(c) : c \in 1..(n + 1)}
    BY <1>3, <1>5 DEF Pairs
  <2>4. 1..n \subseteq 1..(n + 1)
    BY <1>3
  <2> HIDE DEF Of, After
  <2> QED BY <1>6, <2>1, <2>2, <2>3, <2>4
<1>9. Made \cup {Closure(n + 1)} \subseteq Made'
  <2>1. n + 1 \in DOMAIN closures' /\ DOMAIN closures \subseteq DOMAIN closures'
    BY <1>3, <1>5
  <2> QED BY <2>1 DEF Made
<1>10. /\ top \in Nat /\ top <= top /\ frame.height + 1 \in Nat \ {0}
       /\ top + 1 = frame.slots.at + (frame.height + 1) - 1
       /\ \A p \in Position : cellAt[p] # 0 => p <= top
  <2>1. /\ top \in 1..Len(memory) /\ Len(memory) \in Nat
        /\ frame.height \in Nat \ {0} /\ frame.slots.at \in Nat \ {0}
        /\ top = frame.slots.at + frame.height - 1
    BY <1>1, TopFrame
  <2>2. \A p \in Position : cellAt[p] # 0 => p <= top
    BY <2>1, Bounds DEF IInv, CellsOK, Position
  <2> QED BY <2>1, <2>2
<1>11. Len(closures') \in Nat /\ Len(closures) \in Nat
         /\ Len(closures) <= Len(closures')
  BY <1>3, <1>5 DEF n
<1>12. UNCHANGED <<openUpvalues, upvalues, globals, history>>
         /\ Push(top, Closure(n + 1), "capturing")
  BY <1>2 DEF n
<1> QED BY <1>1, <1>2, <1>7, <1>8, <1>9, <1>10, <1>11, <1>12, PushedStep

(* A closure captures one more upvalue, for a variable.                    *)
LEMMA CapturesStep ==
  ASSUME HeapOK, NEW u \in DOMAIN upvalues', NEW cell \in DOMAIN contents',
         DOMAIN upvalues \subseteq DOMAIN upvalues',
         DOMAIN contents \subseteq DOMAIN contents', Captures(u, cell)
  PROVE  /\ ClosuresOK' /\ Pairs' = Pairs \cup {<<u, cell>>}
         /\ Made' = Made /\ Len(closures') = Len(closures)
         /\ Len(closures) \in Nat
<1> DEFINE n == Len(closures)
           S == [upvalues : Seq(DOMAIN upvalues), cells : Seq(DOMAIN contents)]
           T == [upvalues : Seq(DOMAIN upvalues'), cells : Seq(DOMAIN contents')]
           last == closures[n]
           new == [last EXCEPT !.upvalues = Append(@, u),
                               !.cells = Append(@, cell)]
<1>1. /\ closures \in Seq(S) /\ n \in Nat \ {0} /\ n \in DOMAIN closures
      /\ n <= MaxClosures
      /\ \A c \in DOMAIN closures :
           DOMAIN closures[c].upvalues = DOMAIN closures[c].cells
  BY DEF HeapOK, ClosuresOK
<1>2. closures \in Seq(T) /\ last \in T /\ last \in S
  <2>1. S \subseteq T
    OBVIOUS
  <2> HIDE DEF S, T
  <2>2. \A c \in DOMAIN closures : closures[c] \in S
    BY <1>1, Elements
  <2> QED BY <1>1, <2>1, <2>2, Wider
<1>3. /\ new.upvalues = Append(last.upvalues, u)
      /\ new.cells = Append(last.cells, cell) /\ new \in T
  <2>1. /\ last \in [upvalues : Seq(DOMAIN upvalues'),
                     cells : Seq(DOMAIN contents')]
    BY <1>2
  <2> HIDE DEF last
  <2>2. /\ last.upvalues \in Seq(DOMAIN upvalues')
        /\ last.cells \in Seq(DOMAIN contents')
    BY <2>1
  <2>3. /\ Append(last.upvalues, u) \in Seq(DOMAIN upvalues')
        /\ Append(last.cells, cell) \in Seq(DOMAIN contents')
    BY <2>2, Appended
  <2> DEFINE first == Append(last.upvalues, u)
             second == Append(last.cells, cell)
  <2>4. new = [last EXCEPT !.upvalues = first, !.cells = second]
    OBVIOUS
  <2> HIDE DEF first, second, new
  <2>5. /\ new \in [upvalues : Seq(DOMAIN upvalues'), cells : Seq(DOMAIN contents')]
        /\ new.upvalues = first /\ new.cells = second
    <3>1. /\ first \in Seq(DOMAIN upvalues')
          /\ second \in Seq(DOMAIN contents')
      BY <2>3 DEF first, second
    <3> QED BY <2>1, <2>4, <3>1
  <2> QED BY <2>5 DEF first, second
<1>4. closures' = [closures EXCEPT ![n] = new]
  BY <1>1, <1>2 DEF Captures
<1>5. DOMAIN last.upvalues = DOMAIN last.cells
        /\ last.upvalues \in Seq(DOMAIN upvalues')
        /\ last.cells \in Seq(DOMAIN contents')
  BY <1>1, <1>2
<1>6. Len(last.upvalues) = Len(last.cells) /\ Len(last.cells) \in Nat
  BY <1>5
<1> DEFINE k == Len(last.cells)
<1> HIDE DEF S, T, new
<1>7. /\ closures' \in Seq(T) /\ Len(closures') = n
      /\ DOMAIN closures' = DOMAIN closures /\ closures'[n] = new
      /\ \A c \in DOMAIN closures : c # n => closures'[c] = closures[c]
  BY <1>1, <1>2, <1>3, <1>4, Updated
<1>8. /\ DOMAIN new.upvalues = 1..(k + 1) /\ DOMAIN new.cells = 1..(k + 1)
      /\ new.upvalues[k + 1] = u /\ new.cells[k + 1] = cell
      /\ \A j \in 1..k : /\ new.upvalues[j] = last.upvalues[j]
                         /\ new.cells[j] = last.cells[j]
  BY <1>3, <1>5, <1>6, Appended
<1>9. DOMAIN last.upvalues = 1..k
  BY <1>5, <1>6
<1> HIDE DEF k, last, n
<1>10. ClosuresOK'
  <2>1. closures' # <<>> /\ Len(closures') <= MaxClosures
    BY <1>1, <1>7 DEF n
  <2>2. ASSUME NEW c \in DOMAIN closures'
        PROVE  DOMAIN closures'[c].upvalues = DOMAIN closures'[c].cells
    BY <1>1, <1>7, <1>8
  <2> QED BY <1>7, <2>1, <2>2 DEF ClosuresOK, T
<1>11. Pairs' = Pairs \cup {<<u, cell>>}
  <2> DEFINE Of(c) == {<<closures[c].upvalues[i], closures[c].cells[i]>> :
                         i \in DOMAIN closures[c].upvalues}
             After(c) == {<<closures'[c].upvalues[i], closures'[c].cells[i]>> :
                            i \in DOMAIN closures'[c].upvalues}
  <2>1. \A c \in DOMAIN closures : c # n => After(c) = Of(c)
    BY <1>7
  <2>2. After(n) = Of(n) \cup {<<u, cell>>}
    <3>1. Of(n) = {<<last.upvalues[i], last.cells[i]>> : i \in 1..k}
      BY <1>9 DEF last
    <3>2. After(n) = {<<new.upvalues[i], new.cells[i]>> : i \in 1..(k + 1)}
      BY <1>7, <1>8
    <3>3. 1..(k + 1) = 1..k \cup {k + 1}
      BY <1>6 DEF k
    <3> HIDE DEF Of, After
    <3>4. \A x : x \in After(n) <=> x \in Of(n) \/ x = <<u, cell>>
      BY <1>8, <3>1, <3>2, <3>3
    <3> QED BY <3>4
  <2>3. /\ Pairs = UNION {Of(c) : c \in DOMAIN closures}
        /\ Pairs' = UNION {After(c) : c \in DOMAIN closures}
    BY <1>7 DEF Pairs
  <2> HIDE DEF Of, After
  <2>4. \A x : x \in Pairs' <=> x \in Pairs \/ x = <<u, cell>>
    BY <1>1, <2>1, <2>2, <2>3
  <2> QED BY <2>4
<1>12. Made' = Made
  BY <1>7 DEF Made
<1> QED BY <1>1, <1>7, <1>10, <1>11, <1>12 DEF n

(* Nothing but what closures have captured changes, and of that no more    *)
(* than another closure's.                                                 *)
LEMMA OnlyClosures ==
  ASSUME IInv, Active, UNCHANGED <<memory, top, block, isFreed, frames,
                                   openUpvalues, upvalues, globals, history>>,
         ClosuresOK', Pairs' = Pairs, Made' = Made,
         Len(closures') = Len(closures), state' \in {"running", "capturing"}
  PROVE  IInv'
<1>1. /\ top \in 1..Len(memory) /\ Len(memory) \in Nat
      /\ Len(memory) <= MaxCapacity /\ isFreed = FALSE
  BY TopFrame
<1>2. /\ memory' \in Seq(Made' \cup {Junk}) /\ Len(memory) <= Len(memory')
      /\ Len(memory') <= MaxCapacity /\ block' \in {block, block + 1}
      /\ top' \in 0..Len(memory') /\ \A i \in 1..top' : memory'[i] \in Made'
      /\ \A p \in DOMAIN memory : memory'[p] = memory[p]
      /\ isFreed' = FALSE /\ Made \subseteq Made'
      /\ globals' \in [Name -> Made' \cup {Absent}]
  BY <1>1 DEF IInv, MemoryOK, HeapOK
<1>3. \A p \in Position : cellAt[p] # 0 => p <= top'
  BY <1>1, Bounds DEF IInv, CellsOK, Position
<1>4. /\ MemoryOK' /\ HeapOK' /\ ListOK' /\ CellsOK' /\ SharingOK'
      /\ ContentsOK'
  BY <1>1, <1>2, <1>3, StackStep
<1>5. FramesOK' /\ FramesAreStacked' /\ OnlyFreedStacksAreFatal'
  BY <1>1 DEF IInv, FramesOK, Frame, Pointer, FramesAreStacked, FrameEnd,
              OnlyFreedStacksAreFatal, Active
<1> QED BY <1>4, <1>5 DEF IInv

(* A closure has captured all that it captures.                            *)
LEMMA CapturedAllStep == ASSUME IInv, CapturedAll PROVE IInv'
<1>1. Active
  BY DEF CapturedAll, Capturing, Active
<1>2. UNCHANGED <<memory, top, block, isFreed, frames, openUpvalues, upvalues,
                  globals, history, closures, contents>> /\ state' = "running"
  BY DEF CapturedAll, heap, history
<1>3. ClosuresOK' /\ Pairs' = Pairs /\ Made' = Made
        /\ Len(closures') = Len(closures)
  BY <1>2, SameClosures DEF IInv
<1> QED BY <1>1, <1>2, <1>3, OnlyClosures

(* A closure captures what the running function has captured.              *)
LEMMA CaptureCapturedStep == ASSUME IInv, CaptureCaptured PROVE IInv'
<1>1. Active /\ state = "capturing"
  BY DEF CaptureCaptured, Capturing, Active
<1>2. PICK i \in Captured :
        Captures(CapturedAs(i), closures[frame.closure].cells[i])
  BY DEF CaptureCaptured
<1> DEFINE u == CapturedAs(i)
           cell == closures[frame.closure].cells[i]
<1>3. UNCHANGED <<memory, top, block, isFreed, frames, openUpvalues, upvalues,
                  globals, history, contents, state>>
  BY DEF CaptureCaptured, machine, history
<1>4. u \in DOMAIN upvalues /\ <<u, cell>> \in Pairs /\ cell \in DOMAIN contents
  BY <1>1, CapturedAt
<1> HIDE DEF u, cell
<1>5. Captures(u, cell)
  BY <1>2 DEF u, cell
<1>6. /\ ClosuresOK' /\ Pairs' = Pairs \cup {<<u, cell>>}
      /\ Made' = Made /\ Len(closures') = Len(closures)
  BY <1>3, <1>4, <1>5, CapturesStep DEF IInv
<1>7. Pairs' = Pairs
  BY <1>4, <1>6
<1> QED BY <1>1, <1>3, <1>6, <1>7, OnlyClosures

(* The upvalue of a variable that some closure has captured is captured    *)
(* by another one.                                                         *)
LEMMA SameVariableStep ==
  ASSUME IInv, Active, NEW P \in Position, cellAt[P] # 0,
         NEW w \in ToSet(openUpvalues), upvalues[w].location.at = P,
         Captures(w, cellAt[P]),
         UNCHANGED <<machine, frames, openUpvalues, upvalues, globals, history>>
  PROVE  IInv'
<1> DEFINE cell == cellAt[P]
<1>1. /\ memory' = memory /\ top' = top /\ block' = block
      /\ isFreed' = isFreed /\ state' = state /\ frames' = frames
      /\ openUpvalues' = openUpvalues /\ upvalues' = upvalues
      /\ globals' = globals /\ contents' = contents
      /\ cellAt' = cellAt /\ leaked' = leaked
  BY DEF machine, history
<1>2. /\ cell \in DOMAIN contents /\ w \in DOMAIN upvalues
      /\ isFreed = FALSE /\ P # 0 /\ upvalues[w].location # own
  <2>1. cell \in 0..Len(contents) /\ contents \in Seq(Made) /\ P # 0
    BY Bounds DEF IInv, HeapOK, Position
  <2>2. w \in DOMAIN upvalues /\ IsOpen(w)
    BY DEF IInv, ListOK
  <2> QED BY <2>1, <2>2, TopFrame DEF IsOpen
<1> HIDE DEF cell
<1>3. /\ ClosuresOK' /\ Pairs' = Pairs \cup {<<w, cell>>}
      /\ Made' = Made /\ Len(closures') = Len(closures)
  <2>1. Captures(w, cell)
    BY DEF cell
  <2> QED BY <1>1, <1>2, <2>1, CapturesStep DEF IInv
<1>4. own' = own /\ \A u : IsOpen(u)' = IsOpen(u)
  BY <1>1 DEF IsOpen, own
<1>5. MemoryOK'
  BY <1>1, <1>3, <1>4 DEF IInv, MemoryOK
<1>6. FramesOK' /\ FramesAreStacked' /\ OnlyFreedStacksAreFatal'
  BY <1>1, <1>3 DEF IInv, FramesOK, Frame, Pointer, FramesAreStacked, FrameEnd,
                    OnlyFreedStacksAreFatal, Active
<1>7. UpvaluesOK'
  BY <1>1, <1>3, <1>4 DEF IInv, HeapOK, UpvaluesOK, Pointer
<1>8. HeapOK' /\ ListOK'
  BY <1>1, <1>3, <1>4, <1>7 DEF IInv, HeapOK, Position, ListOK
<1>9. \A pair \in Pairs : pair[2] = cell => pair[1] = w
  <2> TAKE pair \in Pairs
  <2>1. ASSUME pair[2] = cell PROVE pair[1] = w
    <3>1. upvalues[pair[1]].location.at = P
      BY <2>1 DEF IInv, CellsOK, cell
    <3>2. pair[1] \in DOMAIN upvalues
      BY CapturedPairs DEF IInv
    <3>3. IsOpen(pair[1])
      BY <1>2, <3>1, <3>2 DEF IsOpen, own
    <3>4. pair[1] \in ToSet(openUpvalues)
      BY <1>2, <3>2, <3>3 DEF IInv, ListOK
    <3> QED BY <3>1, <3>4, OpenApart
  <2> QED BY <2>1
<1>10. \A pair \in Pairs : pair[1] = w /\ w \notin leaked => pair[2] = cell
  BY <1>2 DEF IInv, ContentsOK, cell
<1>11. \A pair \in Pairs' : pair \in Pairs \/ pair = <<w, cell>>
  BY <1>3
<1>12. CellsOK'
  <2>1. ASSUME NEW p \in Position, cellAt[p] # 0, NEW pair \in Pairs',
               pair[2] = cellAt[p]
        PROVE  upvalues[pair[1]].location.at = p
    <3>1. CASE pair \in Pairs
      BY <2>1, <3>1 DEF IInv, CellsOK
    <3>2. CASE pair = <<w, cell>>
      <4>1. p = P
        BY <2>1, <3>2 DEF IInv, CellsOK, cell
      <4> QED BY <3>2, <4>1
    <3> QED BY <1>11, <3>1, <3>2
  <2> QED BY <1>1, <2>1 DEF IInv, CellsOK, Position
<1>13. SharingOK'
  <2>1. ASSUME NEW p \in Pairs', NEW q \in Pairs'
        PROVE  /\ p[2] = q[2] => p[1] = q[1]
               /\ p[1] = q[1] /\ p[1] \notin leaked => p[2] = q[2]
    <3>1. CASE p \in Pairs /\ q \in Pairs
      BY <3>1 DEF IInv, SharingOK
    <3>2. CASE p = <<w, cell>>
      BY <1>9, <1>10, <1>11, <3>2
    <3>3. CASE q = <<w, cell>>
      BY <1>9, <1>10, <1>11, <3>3
    <3> QED BY <1>11, <3>1, <3>2, <3>3
  <2> QED BY <1>1, <2>1 DEF SharingOK
<1>14. ContentsOK'
  <2>1. ASSUME NEW pair \in Pairs', pair[1] \notin leaked
        PROVE  IF upvalues[pair[1]].location = own
               THEN upvalues[pair[1]].closed = contents[pair[2]]
               ELSE ~isFreed => cellAt[upvalues[pair[1]].location.at] = pair[2]
    <3>1. CASE pair \in Pairs
      BY <2>1, <3>1 DEF IInv, ContentsOK
    <3>2. CASE pair = <<w, cell>>
      BY <1>2, <3>2 DEF cell
    <3> QED BY <1>11, <3>1, <3>2
  <2> QED BY <1>1, <1>4, <2>1 DEF IInv, ContentsOK, IsStale
<1> QED BY <1>5, <1>6, <1>8, <1>12, <1>13, <1>14 DEF IInv

(* A variable is captured for the first time: by a new upvalue, or by one  *)
(* that a frame which was there before has left open.                      *)
LEMMA NewVariableStep ==
  ASSUME IInv, Active, NEW P \in 2..top, P \in Position, cellAt[P] = 0,
         NEW w \in DOMAIN upvalues', DOMAIN upvalues \subseteq DOMAIN upvalues',
         UpvaluesOK', DOMAIN upvalues' = DOMAIN upvalues \cup {w},
         \A u \in DOMAIN upvalues : upvalues'[u] = upvalues[u],
         upvalues'[w].location # own, upvalues'[w].location.at = P,
         w \in DOMAIN upvalues => w \in leaked,
         ToSet(openUpvalues)' = ToSet(openUpvalues) \cup {w},
         \A u \in ToSet(openUpvalues) : u # w => upvalues[u].location.at # P,
         \A m, n \in DOMAIN openUpvalues' : m < n =>
           upvalues'[openUpvalues'[m]].location.at
             > upvalues'[openUpvalues'[n]].location.at,
         Captures(w, Len(contents) + 1),
         contents' = Append(contents, memory[P]),
         cellAt' = [cellAt EXCEPT ![P] = Len(contents) + 1],
         UNCHANGED <<machine, frames, globals, leaked>>
  PROVE  IInv'
<1> DEFINE cell == Len(contents) + 1
<1>1. /\ memory' = memory /\ top' = top /\ block' = block
      /\ isFreed' = isFreed /\ state' = state /\ frames' = frames
      /\ globals' = globals /\ leaked' = leaked
  BY DEF machine
<1>2. /\ top \in 1..Len(memory) /\ Len(memory) \in Nat /\ isFreed = FALSE
  BY TopFrame
<1>3. P \in 1..top /\ P \in DOMAIN memory /\ memory[P] \in Made /\ P # 0
  <2>1. P \in 1..top /\ P \in 1..Len(memory) /\ P # 0
    BY <1>2
  <2> QED BY <2>1 DEF IInv, MemoryOK
<1>4. /\ contents' \in Seq(Made) /\ Len(contents') = cell
      /\ DOMAIN contents' = 1..cell /\ contents'[cell] = memory[P]
      /\ \A c \in DOMAIN contents : contents'[c] = contents[c]
      /\ DOMAIN contents = 1..Len(contents) /\ Len(contents) \in Nat
  <2>1. contents \in Seq(Made)
    BY DEF IInv, HeapOK
  <2> QED BY <1>3, <2>1, Appended
<1>5. cell \in DOMAIN contents' /\ cell \notin DOMAIN contents /\ cell # 0
        /\ DOMAIN contents \subseteq DOMAIN contents'
  BY <1>4
<1>6. /\ Position' = Position
      /\ cellAt'[P] = cell
      /\ \A p \in Position : p # P => cellAt'[p] = cellAt[p]
      /\ \A p \in Position : cellAt[p] # 0 => cellAt[p] \in DOMAIN contents
      /\ cellAt' \in [Position -> 0..cell]
  <2>1. cellAt \in [Position -> 0..Len(contents)]
    BY DEF IInv, HeapOK
  <2>2. cell \in 0..cell /\ 0..Len(contents) \subseteq 0..cell
    BY <1>4
  <2>3. cellAt' = [cellAt EXCEPT ![P] = cell]
    OBVIOUS
  <2> HIDE DEF cell
  <2> QED BY <1>4, <2>1, <2>2, <2>3 DEF Position
<1>7. Captures(w, cell)
  OBVIOUS
<1> HIDE DEF cell
<1>8. /\ ClosuresOK' /\ Pairs' = Pairs \cup {<<w, cell>>}
      /\ Made' = Made /\ Len(closures') = Len(closures)
  BY <1>5, <1>7, CapturesStep DEF IInv
<1>9. own' = own /\ \A u : IsOpen(u)' <=> IsOpen(u) \/ u = w
  BY DEF IsOpen, own
<1>10. MemoryOK'
  <2>1. ASSUME NEW u \in DOMAIN upvalues', IsOpen(u)'
        PROVE  memory[upvalues'[u].location.at] \in Made
    <3>1. CASE u = w
      BY <1>3, <3>1
    <3>2. CASE u # w
      BY <1>2, <1>9, <2>1, <3>2 DEF IInv, MemoryOK, IsOpen
    <3> QED BY <3>1, <3>2
  <2> QED BY <1>1, <1>8, <2>1 DEF IInv, MemoryOK
<1>11. FramesOK' /\ FramesAreStacked' /\ OnlyFreedStacksAreFatal'
  BY <1>1, <1>8 DEF IInv, FramesOK, Frame, Pointer, FramesAreStacked, FrameEnd,
                    OnlyFreedStacksAreFatal, Active
<1>12. HeapOK'
  BY <1>1, <1>4, <1>6, <1>8 DEF IInv, HeapOK
<1>13. \A u \in ToSet(openUpvalues) :
         /\ u \in DOMAIN upvalues /\ IsOpen(u)
         /\ upvalues[u].location.at \in Position
         /\ u # w => upvalues[u].location.at # P
  BY OpenAt DEF IInv, ListOK
<1>14. ListOK'
  <2>1. {u \in DOMAIN upvalues' : IsOpen(u)'} = ToSet(openUpvalues) \cup {w}
    BY <1>2, <1>9, <1>13 DEF IInv, ListOK
  <2> QED BY <2>1 DEF ListOK
<1>15. \A pair \in Pairs' : pair \in Pairs \/ pair = <<w, cell>>
  BY <1>8
<1>16. \A pair \in Pairs : /\ pair[2] \in DOMAIN contents /\ pair[2] # cell
                           /\ pair[2] # 0 /\ pair[1] \in DOMAIN upvalues
  BY <1>4, <1>5, CapturedPairs DEF IInv
<1>17. CellsOK'
  <2>1. ASSUME NEW p \in Position, cellAt'[p] # 0 PROVE p \in 2..top
    BY <1>6, <2>1 DEF IInv, CellsOK
  <2>2. ASSUME NEW p \in Position, NEW q \in Position, cellAt'[p] # 0,
               cellAt'[p] = cellAt'[q]
        PROVE  p = q
    BY <1>5, <1>6, <2>2 DEF IInv, CellsOK
  <2>3. ASSUME NEW p \in Position, cellAt'[p] # 0
        PROVE  \E u \in ToSet(openUpvalues)' : upvalues'[u].location.at = p
    <3>1. CASE p = P
      BY <3>1
    <3>2. CASE p # P
      <4>1. PICK u \in ToSet(openUpvalues) : upvalues[u].location.at = p
        BY <1>6, <2>3, <3>2 DEF IInv, CellsOK
      <4> QED BY <1>13, <4>1
    <3> QED BY <3>1, <3>2
  <2>4. ASSUME NEW p \in Position, cellAt'[p] # 0, NEW pair \in Pairs',
               pair[2] = cellAt'[p]
        PROVE  upvalues'[pair[1]].location.at = p
    <3>1. CASE p = P
      BY <1>6, <1>15, <1>16, <2>4, <3>1
    <3>2. CASE p # P
      <4>1. cellAt[p] # 0 /\ pair[2] = cellAt[p] /\ pair[2] # cell
        BY <1>5, <1>6, <2>4, <3>2
      <4>2. pair \in Pairs
        BY <1>15, <4>1
      <4> QED BY <1>16, <4>1, <4>2 DEF IInv, CellsOK
    <3> QED BY <3>1, <3>2
  <2> QED BY <1>1, <1>2, <1>6, <2>1, <2>2, <2>3, <2>4 DEF CellsOK
<1>18. SharingOK'
  <2>1. ASSUME NEW p \in Pairs', NEW q \in Pairs'
        PROVE  /\ p[2] = q[2] => p[1] = q[1]
               /\ p[1] = q[1] /\ p[1] \notin leaked => p[2] = q[2]
    <3>1. CASE p \in Pairs /\ q \in Pairs
      BY <3>1 DEF IInv, SharingOK
    <3>2. CASE p = <<w, cell>>
      BY <1>15, <1>16, <3>2
    <3>3. CASE q = <<w, cell>>
      BY <1>15, <1>16, <3>3
    <3> QED BY <1>15, <3>1, <3>2, <3>3
  <2> QED BY <1>1, <2>1 DEF SharingOK
<1>19. ContentsOK'
  <2>1. ASSUME NEW u \in ToSet(openUpvalues)', u \notin leaked
        PROVE  /\ cellAt'[upvalues'[u].location.at] # 0
               /\ ~IsStale(upvalues[u].location)' =>
                    memory[upvalues'[u].location.at]
                      = contents'[cellAt'[upvalues'[u].location.at]]
    <3>1. CASE u = w
      BY <1>4, <1>5, <1>6, <3>1
    <3>2. CASE u # w
      <4> DEFINE at == upvalues[u].location.at
      <4>1. /\ u \in ToSet(openUpvalues) \ leaked /\ at \in Position /\ at # P
            /\ upvalues'[u] = upvalues[u]
        BY <1>13, <2>1, <3>2
      <4>2. cellAt'[at] = cellAt[at] /\ cellAt[at] # 0
              /\ cellAt[at] \in DOMAIN contents
        BY <1>6, <4>1 DEF IInv, ContentsOK
      <4>3. IsStale(upvalues[u].location)' = IsStale(upvalues[u].location)
        BY <1>1, <4>1 DEF IsStale, own
      <4>4. ~IsStale(upvalues[u].location) => memory[at] = contents[cellAt[at]]
        BY <4>1 DEF IInv, ContentsOK
      <4> QED BY <1>4, <4>1, <4>2, <4>3, <4>4
    <3> QED BY <3>1, <3>2
  <2>2. ASSUME NEW pair \in Pairs', pair[1] \notin leaked
        PROVE  IF upvalues'[pair[1]].location = own
               THEN upvalues'[pair[1]].closed = contents'[pair[2]]
               ELSE cellAt'[upvalues'[pair[1]].location.at] = pair[2]
    <3>1. CASE pair \in Pairs
      <4>1. /\ pair[1] \in DOMAIN upvalues
            /\ upvalues'[pair[1]] = upvalues[pair[1]]
        BY <1>16, <3>1
      <4>2. CASE upvalues[pair[1]].location = own
        <5>1. upvalues[pair[1]].closed = contents[pair[2]]
          BY <2>2, <3>1, <4>2 DEF IInv, ContentsOK
        <5> QED BY <1>4, <1>16, <3>1, <4>1, <4>2, <5>1
      <4>3. CASE upvalues[pair[1]].location # own
        <5>1. cellAt[upvalues[pair[1]].location.at] = pair[2]
          BY <1>2, <2>2, <3>1, <4>3 DEF IInv, ContentsOK
        <5>2. upvalues[pair[1]].location.at \in Position
          BY <4>1, <4>3, OpenAt DEF IInv, IsOpen
        <5>3. upvalues[pair[1]].location.at # P
          BY <1>16, <3>1, <5>1
        <5> QED BY <1>6, <4>1, <4>3, <5>1, <5>2, <5>3
      <4> QED BY <4>2, <4>3
    <3>2. CASE pair = <<w, cell>>
      BY <1>6, <3>2
    <3> QED BY <1>15, <3>1, <3>2
  <2> QED BY <1>1, <1>9, <2>1, <2>2 DEF ContentsOK
<1> QED BY <1>10, <1>11, <1>12, <1>14, <1>17, <1>18, <1>19 DEF IInv

(* The list is in order: the walk down to a position passes all that lies  *)
(* above it, and no more.                                                  *)
LEMMA ListSplit ==
  ASSUME IInv, NEW n \in 0..Len(openUpvalues), NEW position \in Nat,
         StopsAfter(n, position)
  PROVE  /\ openUpvalues \in Seq(DOMAIN upvalues) /\ Len(openUpvalues) \in Nat
         /\ DOMAIN openUpvalues = 1..Len(openUpvalues)
         /\ \A i \in DOMAIN openUpvalues :
              /\ upvalues[openUpvalues[i]].location.at \in Nat
              /\ openUpvalues[i] \in ToSet(openUpvalues)
              /\ i <= n <=> upvalues[openUpvalues[i]].location.at > position
              /\ i > n + 1 => upvalues[openUpvalues[i]].location.at < position
<1> DEFINE at(i) == upvalues[openUpvalues[i]].location.at
<1>1. openUpvalues \in Seq(DOMAIN upvalues) /\ Len(openUpvalues) \in Nat
        /\ DOMAIN openUpvalues = 1..Len(openUpvalues)
  BY DEF IInv, HeapOK, UpvaluesOK
<1>2. ASSUME NEW i \in DOMAIN openUpvalues
      PROVE  at(i) \in Nat /\ openUpvalues[i] \in ToSet(openUpvalues)
  <2>1. openUpvalues[i] \in ToSet(openUpvalues)
    BY DEF ToSet
  <2>2. at(i) \in 1..Len(memory)
    BY <2>1, OpenAt DEF IInv, ListOK
  <2> QED BY <2>1, <2>2
<1>3. \A i, j \in DOMAIN openUpvalues : i < j => at(i) > at(j)
  BY DEF IInv, ListOK
<1>4. /\ \A i \in 1..n : at(i) > position
      /\ n < Len(openUpvalues) => at(n + 1) <= position
  BY DEF StopsAfter
<1> HIDE DEF at
<1>5. ASSUME NEW i \in DOMAIN openUpvalues
      PROVE  /\ i <= n <=> at(i) > position
             /\ i > n + 1 => at(i) < position
  <2>1. CASE i <= n
    <3>1. i \in 1..n
      BY <1>1, <2>1
    <3> QED BY <1>1, <1>4, <2>1, <3>1
  <2>2. CASE i = n + 1
    <3>1. n < Len(openUpvalues)
      BY <1>1, <2>2
    <3> QED BY <1>1, <1>2, <1>4, <2>2, <3>1
  <2>3. CASE i > n + 1
    <3>1. n + 1 \in DOMAIN openUpvalues /\ n < Len(openUpvalues) /\ n + 1 < i
      BY <1>1, <2>3
    <3>2. at(n + 1) > at(i) /\ at(n + 1) <= position /\ at(n + 1) \in Nat
            /\ at(i) \in Nat
      BY <1>2, <1>3, <1>4, <3>1
    <3> QED BY <1>1, <2>3, <3>2
  <2> QED BY <1>1, <2>1, <2>2, <2>3
<1> QED BY <1>1, <1>2, <1>5 DEF at

(* captureUpvalue finds no upvalue of the variable and puts a new one in   *)
(* its place in the list.                                                  *)
LEMMA NewUpvalueStep ==
  ASSUME IInv, Active, NEW P \in 2..top, P \in Position,
         NEW n \in 0..Len(openUpvalues), StopsAfter(n, P),
         ~IsOpenAt(n + 1, P), NewUpvalue(n + 1, P),
         Captures(Len(upvalues) + 1, CellOf(P)), RecordCapture(P),
         UNCHANGED <<machine, frames, globals>>
  PROVE  IInv'
<1> DEFINE w == Len(upvalues) + 1
           new == [location |-> [block |-> block, at |-> P], closed |-> Junk]
           S == [location : Pointer, closed : Made \cup {Junk}]
           at(u) == upvalues[u].location.at
           k == Len(openUpvalues)
<1>1. /\ upvalues' = Append(upvalues, new)
      /\ openUpvalues' = InsertAt(openUpvalues, n + 1, w)
  BY DEF NewUpvalue
<1>2. /\ openUpvalues \in Seq(DOMAIN upvalues) /\ k \in Nat
      /\ DOMAIN openUpvalues = 1..k /\ n \in Nat /\ n <= k
      /\ \A i \in 1..k : /\ at(openUpvalues[i]) \in Nat
                         /\ i <= n <=> at(openUpvalues[i]) > P
                         /\ i > n + 1 => at(openUpvalues[i]) < P
  <2>1. P \in Nat
    BY TopFrame
  <2> QED BY <2>1, ListSplit
<1>3. \A i \in 1..k : at(openUpvalues[i]) # P
  <2> TAKE i \in 1..k
  <2>1. CASE i = n + 1
    BY <1>2, <2>1 DEF IsOpenAt
  <2>2. CASE i <= n \/ i > n + 1
    <3>1. at(openUpvalues[i]) > P \/ at(openUpvalues[i]) < P
      BY <1>2, <2>2
    <3> QED BY <1>2, <3>1
  <2> QED BY <1>2, <2>1, <2>2
<1>4. cellAt[P] = 0
  <2>1. ASSUME cellAt[P] # 0 PROVE FALSE
    <3>1. PICK u \in ToSet(openUpvalues) : at(u) = P
      BY <2>1 DEF IInv, CellsOK
    <3>2. PICK i \in DOMAIN openUpvalues : openUpvalues[i] = u
      BY DEF ToSet
    <3> QED BY <1>2, <1>3, <3>1, <3>2
  <2> QED BY <2>1
<1>5. upvalues \in Seq(S) /\ new \in S /\ Len(upvalues) \in Nat
        /\ DOMAIN upvalues = 1..Len(upvalues)
  <2>1. P \in Nat /\ block \in Nat
    BY TopFrame DEF IInv, MemoryOK
  <2> QED BY <2>1 DEF IInv, HeapOK, UpvaluesOK, Pointer
<1>6. new.location.at = P /\ new.location.block = block /\ new.location # own
  <2>1. block # 0
    BY DEF IInv, MemoryOK
  <2> QED BY <2>1 DEF own
<1> HIDE DEF S, new, k
<1>7. /\ upvalues' \in Seq(S) /\ DOMAIN upvalues' = 1..w /\ upvalues'[w] = new
      /\ \A u \in DOMAIN upvalues : upvalues'[u] = upvalues[u]
  BY <1>1, <1>5, Appended
<1>8. /\ DOMAIN upvalues' = DOMAIN upvalues \cup {w}
      /\ w \notin DOMAIN upvalues /\ w \in DOMAIN upvalues'
  BY <1>5, <1>7
<1> HIDE DEF w
<1>9. /\ openUpvalues' \in Seq(DOMAIN upvalues')
      /\ DOMAIN openUpvalues' = 1..(k + 1)
      /\ openUpvalues'[n + 1] = w
      /\ \A i \in 1..n : openUpvalues'[i] = openUpvalues[i]
      /\ \A i \in (n + 2)..(k + 1) : openUpvalues'[i] = openUpvalues[i - 1]
  <2>1. openUpvalues \in Seq(DOMAIN upvalues')
    BY <1>2, <1>8, SeqMonotonic
  <2>2. n \in 0..Len(openUpvalues)
    OBVIOUS
  <2> DEFINE T == DOMAIN upvalues'
  <2>3. openUpvalues \in Seq(T) /\ w \in T
    BY <1>8, <2>1
  <2> HIDE DEF T
  <2> DEFINE m == n + 1
  <2>4. /\ m \in 1..(Len(openUpvalues) + 1) /\ m - 1 = n /\ m + 1 = n + 2
    <3>1. n \in Nat /\ Len(openUpvalues) \in Nat /\ n <= Len(openUpvalues)
      BY <1>2 DEF k
    <3> QED BY <3>1
  <2> HIDE DEF m
  <2>5. /\ InsertAt(openUpvalues, m, w) \in Seq(T)
        /\ IsInsertion(InsertAt(openUpvalues, m, w), openUpvalues, m, w)
    BY <2>3, <2>4, Inserted
  <2>6. openUpvalues' = InsertAt(openUpvalues, m, w)
    BY <1>1 DEF m
  <2>7. /\ openUpvalues' \in Seq(T)
        /\ IsInsertion(openUpvalues', openUpvalues, m, w)
    BY <2>5, <2>6
  <2>8. /\ DOMAIN openUpvalues' = 1..(Len(openUpvalues) + 1)
        /\ openUpvalues'[m] = w
        /\ \A i \in 1..(m - 1) : openUpvalues'[i] = openUpvalues[i]
        /\ \A i \in (m + 1)..(Len(openUpvalues) + 1) :
             openUpvalues'[i] = openUpvalues[i - 1]
    BY <2>7 DEF IsInsertion
  <2> QED BY <2>4, <2>7, <2>8 DEF k, T, m
<1>10. \A i \in 1..k : openUpvalues[i] \in DOMAIN upvalues
  BY <1>2, Elements
<1>11. \A i \in 1..(k + 1) : i \in 1..n \/ i = n + 1 \/ i \in (n + 2)..(k + 1)
  BY <1>2
<1>12. \A i \in (n + 2)..(k + 1) : /\ i - 1 \in 1..k /\ i - 1 > n
                                   /\ i - 1 \in (n + 1)..k
  BY <1>2
<1>13. \A i \in 1..n : i \in 1..k /\ i <= n
  BY <1>2
<1>14. ToSet(openUpvalues)' = ToSet(openUpvalues) \cup {w}
  <2>1. /\ ToSet(openUpvalues)' = {openUpvalues'[i] : i \in 1..(k + 1)}
        /\ ToSet(openUpvalues) = {openUpvalues[i] : i \in 1..k}
    BY <1>2, <1>9 DEF ToSet
  <2>2. ASSUME NEW i \in 1..(k + 1)
        PROVE  openUpvalues'[i] \in ToSet(openUpvalues) \cup {w}
    BY <1>9, <1>11, <1>12, <1>13, <2>1
  <2>3. ASSUME NEW i \in 1..k PROVE openUpvalues[i] \in ToSet(openUpvalues)'
    <3>1. CASE i <= n
      <4>1. i \in 1..n /\ i \in 1..(k + 1)
        BY <1>2, <3>1
      <4> QED BY <1>9, <2>1, <4>1
    <3>2. CASE i > n
      <4>1. i + 1 \in (n + 2)..(k + 1) /\ i + 1 \in 1..(k + 1) /\ (i + 1) - 1 = i
        BY <1>2, <3>2
      <4>2. openUpvalues'[i + 1] = openUpvalues[(i + 1) - 1]
        BY <1>9, <4>1
      <4> QED BY <2>1, <4>1, <4>2
    <3> QED BY <1>2, <3>1, <3>2
  <2>4. w \in ToSet(openUpvalues)'
    <3>1. n + 1 \in 1..(k + 1)
      BY <1>2
    <3> QED BY <1>9, <2>1, <3>1
  <2> QED BY <2>1, <2>2, <2>3, <2>4
<1>15. ASSUME NEW i \in DOMAIN openUpvalues', NEW j \in DOMAIN openUpvalues', i < j
       PROVE  upvalues'[openUpvalues'[i]].location.at
                > upvalues'[openUpvalues'[j]].location.at
  <2> DEFINE after(m) == upvalues'[openUpvalues'[m]].location.at
  <2>1. /\ after(n + 1) = P
        /\ \A m \in 1..n : after(m) = at(openUpvalues[m])
        /\ \A m \in (n + 2)..(k + 1) : after(m) = at(openUpvalues[m - 1])
    BY <1>6, <1>7, <1>9, <1>10, <1>12, <1>13
  <2>2. \A m, l \in 1..k : m < l => at(openUpvalues[m]) > at(openUpvalues[l])
    BY <1>2 DEF IInv, ListOK
  <2> SUFFICES after(i) > after(j)
    OBVIOUS
  <2> HIDE DEF after, at
  <2>3. /\ \A m \in 1..n : after(m) > P
        /\ \A m \in (n + 2)..(k + 1) : after(m) < P
    <3>1. \A m \in 1..n : after(m) > P
      BY <1>2, <1>13, <2>1
    <3>2. ASSUME NEW m \in (n + 2)..(k + 1) PROVE after(m) < P
      <4>1. m - 1 \in 1..k /\ m - 1 > n
        BY <1>12
      <4>2. /\ at(openUpvalues[m - 1]) \in Nat /\ at(openUpvalues[m - 1]) # P
            /\ m - 1 <= n <=> at(openUpvalues[m - 1]) > P
        BY <1>2, <1>3, <4>1
      <4>3. P \in Nat /\ m - 1 \in Nat /\ n \in Nat
        BY <1>2, <4>1, TopFrame
      <4>4. ~(at(openUpvalues[m - 1]) > P)
        BY <4>1, <4>2, <4>3
      <4>5. at(openUpvalues[m - 1]) < P
        BY <4>2, <4>3, <4>4
      <4> QED BY <2>1, <4>5
    <3> QED BY <3>1, <3>2
  <2>4. i \in 1..(k + 1) /\ j \in 1..(k + 1) /\ i \in Nat /\ j \in Nat
    BY <1>9
  <2>5. CASE i \in 1..n /\ j \in 1..n
    BY <1>13, <1>15, <2>1, <2>2, <2>5
  <2>6. CASE i \in (n + 2)..(k + 1) /\ j \in (n + 2)..(k + 1)
    <3>1. i - 1 \in 1..k /\ j - 1 \in 1..k /\ i - 1 < j - 1
      BY <1>2, <1>12, <1>15, <2>6
    <3> QED BY <2>1, <2>2, <2>6, <3>1
  <2>7. CASE i \in 1..n /\ j \in (n + 2)..(k + 1)
    <3>1. /\ i \in 1..k /\ j - 1 \in 1..k /\ i < j - 1
      BY <1>2, <1>12, <1>13, <2>7
    <3> QED BY <2>1, <2>2, <2>7, <3>1
  <2>8. CASE i \in 1..n /\ j = n + 1
    BY <2>1, <2>3, <2>8
  <2>9. CASE i = n + 1 /\ j \in (n + 2)..(k + 1)
    <3>1. after(j) < P /\ after(i) = P /\ after(j) = at(openUpvalues[j - 1])
      BY <2>1, <2>3, <2>9
    <3>2. at(openUpvalues[j - 1]) \in Nat
      BY <1>2, <1>12, <2>9
    <3>3. P \in Nat
      BY TopFrame
    <3> QED BY <3>1, <3>2, <3>3
  <2>10. ~(i = n + 1 /\ j \in 1..n) /\ ~(i = n + 1 /\ j = n + 1)
           /\ ~(i \in (n + 2)..(k + 1) /\ (j \in 1..n \/ j = n + 1))
    BY <1>2, <1>15, <2>4
  <2> QED BY <1>11, <2>4, <2>5, <2>6, <2>7, <2>8, <2>9, <2>10
<1>16. /\ contents' = Append(contents, memory[P])
       /\ cellAt' = [cellAt EXCEPT ![P] = Len(contents) + 1]
       /\ leaked' = leaked /\ Captures(w, Len(contents) + 1)
  BY <1>4 DEF RecordCapture, CellOf, w
<1>17. UpvaluesOK'
  <2>1. Made' = Made
    <3>1. Len(contents) + 1 \in DOMAIN contents' /\ DOMAIN contents \subseteq DOMAIN contents'
      <4>1. contents \in Seq(Made) /\ memory[P] \in Made
        <5>1. P \in 1..top
          BY TopFrame
        <5> QED BY <5>1 DEF IInv, HeapOK, MemoryOK
      <4>2. DOMAIN contents' = 1..(Len(contents) + 1)
              /\ DOMAIN contents = 1..Len(contents) /\ Len(contents) \in Nat
        BY <1>16, <4>1, Appended
      <4> QED BY <4>2
    <3> QED BY <1>8, <1>16, <3>1, CapturesStep DEF IInv
  <2>2. block' = block /\ memory' = memory /\ own' = own
    BY DEF machine, own
  <2>3. P \in 1..Len(memory) /\ block \in 1..block
    <3>1. top \in 1..Len(memory) /\ Len(memory) \in Nat /\ block \in Nat \ {0}
      BY TopFrame DEF IInv, MemoryOK
    <3> QED BY <3>1
  <2>4. ASSUME NEW u \in DOMAIN upvalues'
        PROVE  \/ upvalues'[u].location = own /\ upvalues'[u].closed \in Made
               \/ /\ upvalues'[u].location.block \in 1..block
                  /\ upvalues'[u].location.at \in 1..Len(memory)
    <3>1. CASE u = w
      BY <1>6, <1>7, <2>3, <3>1
    <3>2. CASE u # w
      BY <1>7, <1>8, <3>2 DEF IInv, HeapOK, UpvaluesOK
    <3> QED BY <3>1, <3>2
  <2>5. Pointer' = Pointer
    BY DEF Pointer
  <2> QED BY <1>7, <1>9, <2>1, <2>2, <2>4, <2>5 DEF UpvaluesOK, S
<1>18. \A u \in ToSet(openUpvalues) : u # w => upvalues[u].location.at # P
  BY <1>2, <1>3 DEF ToSet
<1>19. upvalues'[w].location # own /\ upvalues'[w].location.at = P
         /\ (w \in DOMAIN upvalues => w \in leaked)
  BY <1>6, <1>7, <1>8
<1>20. UNCHANGED <<machine, frames, globals, leaked>>
  BY <1>16
<1> QED BY <1>4, <1>7, <1>8, <1>14, <1>15, <1>16, <1>17, <1>18, <1>19, <1>20,
           NewVariableStep

(* captureUpvalue finds an upvalue that lies at the variable's position.   *)
LEMMA FoundUpvalueStep ==
  ASSUME IInv, Active, NEW P \in 2..top, P \in Position,
         NEW w \in ToSet(openUpvalues), upvalues[w].location.at = P,
         Captures(w, CellOf(P)), RecordCapture(P),
         UNCHANGED <<machine, frames, globals, openUpvalues, upvalues>>
  PROVE  IInv'
<1>1. CASE cellAt[P] # 0
  <2>1. cellAt' = cellAt
    <3>1. cellAt' = [cellAt EXCEPT ![P] = cellAt[P]]
      BY <1>1 DEF RecordCapture, CellOf
    <3> QED BY <3>1 DEF IInv, HeapOK
  <2>2. UNCHANGED history /\ Captures(w, cellAt[P])
    BY <1>1, <2>1 DEF RecordCapture, CellOf, history
  <2> QED BY <1>1, <2>2, SameVariableStep
<1>2. CASE cellAt[P] = 0
  <2>1. /\ contents' = Append(contents, memory[P])
        /\ cellAt' = [cellAt EXCEPT ![P] = Len(contents) + 1]
        /\ leaked' = leaked /\ Captures(w, Len(contents) + 1)
    BY <1>2 DEF RecordCapture, CellOf
  <2>2. w \in DOMAIN upvalues /\ upvalues[w].location # own
          /\ ToSet(openUpvalues) \subseteq DOMAIN upvalues
    BY DEF IInv, ListOK, IsOpen
  <2>3. w \in leaked
    BY <1>2 DEF IInv, ContentsOK
  <2>4. Made' = Made
    <3>1. Len(contents) + 1 \in DOMAIN contents' /\ DOMAIN contents \subseteq DOMAIN contents'
      <4>1. contents \in Seq(Made) /\ memory[P] \in Made
        <5>1. P \in 1..top
          BY TopFrame
        <5> QED BY <5>1 DEF IInv, HeapOK, MemoryOK
      <4>2. DOMAIN contents' = 1..(Len(contents) + 1)
              /\ DOMAIN contents = 1..Len(contents) /\ Len(contents) \in Nat
        BY <2>1, <4>1, Appended
      <4> QED BY <4>2
    <3> QED BY <2>1, <2>2, <3>1, CapturesStep DEF IInv
  <2>5. UpvaluesOK'
    <3>1. block' = block /\ memory' = memory /\ own' = own
      BY DEF machine, own
    <3> QED BY <2>4, <3>1 DEF IInv, HeapOK, UpvaluesOK, Pointer
  <2>6. /\ w \in DOMAIN upvalues' /\ DOMAIN upvalues' = DOMAIN upvalues \cup {w}
        /\ upvalues'[w].location # own /\ upvalues'[w].location.at = P
        /\ \A u \in DOMAIN upvalues : upvalues'[u] = upvalues[u]
        /\ ToSet(openUpvalues)' = ToSet(openUpvalues) \cup {w}
    <3>1. ToSet(openUpvalues)' = ToSet(openUpvalues)
      BY DEF ToSet
    <3> QED BY <2>2, <3>1
  <2>7. \A u \in ToSet(openUpvalues) : u # w => upvalues[u].location.at # P
    BY OpenApart
  <2>8. \A m, n \in DOMAIN openUpvalues' : m < n =>
          upvalues'[openUpvalues'[m]].location.at
            > upvalues'[openUpvalues'[n]].location.at
    BY DEF IInv, ListOK
  <2>9. UNCHANGED <<machine, frames, globals, leaked>>
    BY <2>1
  <2> QED BY <1>2, <2>1, <2>3, <2>5, <2>6, <2>7, <2>8, <2>9, NewVariableStep
<1> QED BY <1>1, <1>2

(* captureUpvalue, with the walk down the list.                            *)
LEMMA CaptureALocalStep == ASSUME IInv, CaptureALocal PROVE IInv'
<1>1. Active
  BY DEF CaptureALocal, Capturing, Active
<1>2. PICK i \in Locals : IF ComparesStale THEN Undefined
                          ELSE CaptureLocal(frame.slots.at + i)
  BY DEF CaptureALocal
<1> DEFINE P == frame.slots.at + i
<1>3. P \in 2..top /\ P \in Position
  BY <1>1, LocalAt
<1>4. CASE ComparesStale
  <2>1. PointsToFreed
    <3>1. CASE IsStale(frame.slots)
      BY <1>1, <3>1, TopFrame DEF PointsToFreed, frame
    <3>2. CASE \E u \in ToSet(openUpvalues) : IsStale(upvalues[u].location)
      BY <3>2 DEF PointsToFreed, IInv, ListOK
    <3> QED BY <1>4, <3>1, <3>2 DEF ComparesStale, OpenUpvalueIsStale
  <2> QED BY <1>2, <1>4, <2>1, UndefinedStep
<1>5. CASE ~ComparesStale
  <2>1. CaptureLocal(P)
    BY <1>2, <1>5
  <2> HIDE DEF P
  <2>2. PICK n \in 0..Len(openUpvalues) :
          /\ StopsAfter(n, P)
          /\ IF IsOpenAt(n + 1, P)
             THEN /\ Captures(openUpvalues[n + 1], CellOf(P))
                  /\ UNCHANGED <<openUpvalues, upvalues>>
             ELSE /\ NewUpvalue(n + 1, P)
                  /\ Captures(Len(upvalues) + 1, CellOf(P))
    BY <2>1 DEF CaptureLocal
  <2>3. RecordCapture(P) /\ UNCHANGED <<machine, frames, globals>>
    BY <2>1 DEF CaptureLocal
  <2>4. CASE IsOpenAt(n + 1, P)
    <3> DEFINE w == openUpvalues[n + 1]
    <3>1. w \in ToSet(openUpvalues) /\ upvalues[w].location.at = P
      <4>1. n + 1 \in DOMAIN openUpvalues
        <5>1. openUpvalues \in Seq(DOMAIN upvalues)
          BY DEF IInv, HeapOK, UpvaluesOK
        <5> QED BY <2>4, <5>1 DEF IsOpenAt
      <4> QED BY <2>4, <4>1 DEF IsOpenAt, ToSet
    <3>2. /\ Captures(w, CellOf(P))
          /\ UNCHANGED <<machine, frames, globals, openUpvalues, upvalues>>
      BY <2>2, <2>3, <2>4
    <3> HIDE DEF w
    <3> QED BY <1>1, <1>3, <2>3, <3>1, <3>2, FoundUpvalueStep
  <2>5. CASE ~IsOpenAt(n + 1, P)
    BY <1>1, <1>3, <2>2, <2>3, <2>5, NewUpvalueStep
  <2> QED BY <2>4, <2>5
<1> QED BY <1>4, <1>5

(* OP_CLOSE_UPVALUE: the upvalue of the variable that ends takes its value *)
(* along; those that frames have left open further up take what they find. *)
LEMMA ClosedStep ==
  ASSUME IInv, Active, frame.height > 1,
         ~OpenUpvalueIsStale,
         CloseUpvalues(top), Pop(1, "running"),
         HeightBecomes(frame.height - 1), EndScope(top),
         UNCHANGED <<closures, globals, contents, leaked>>
  PROVE  IInv'
<1> DEFINE k == Len(openUpvalues)
           at(u) == upvalues[u].location.at
           S == [location : Pointer, closed : Made \cup {Junk}]
           List == ToSet(openUpvalues)
<1>1. /\ top \in 1..Len(memory) /\ Len(memory) \in Nat
      /\ Len(memory) <= MaxCapacity /\ isFreed = FALSE
      /\ frame.height \in Nat \ {0} /\ frame.slots.at \in Nat \ {0}
      /\ top = frame.slots.at + frame.height - 1
  BY TopFrame
<1>2. /\ top' = top - 1 /\ state' = "running" /\ memory' = memory
      /\ block' = block /\ isFreed' = FALSE /\ closures' = closures
      /\ globals' = globals /\ contents' = contents /\ leaked' = leaked
      /\ cellAt' = [q \in Position |-> IF q >= top THEN 0 ELSE cellAt[q]]
  BY <1>1 DEF Pop, EndScope
<1>3. PICK n \in 0..k :
        /\ StopsAfter(n, top - 1)
        /\ upvalues' = [u \in DOMAIN upvalues |->
                          IF \E i \in 1..n : openUpvalues[i] = u
                          THEN [location |-> own, closed |-> Read(u)]
                          ELSE upvalues[u]]
        /\ openUpvalues' = SubSeq(openUpvalues, n + 1, k)
  BY DEF CloseUpvalues
<1>4. /\ openUpvalues \in Seq(DOMAIN upvalues) /\ k \in Nat
      /\ DOMAIN openUpvalues = 1..k /\ n \in Nat /\ n <= k
      /\ \A i \in 1..k : /\ at(openUpvalues[i]) \in Nat
                         /\ openUpvalues[i] \in List
                         /\ i <= n <=> at(openUpvalues[i]) > top - 1
  <2>1. top - 1 \in Nat
    BY <1>1
  <2> QED BY <1>3, <2>1, ListSplit
<1>5. /\ upvalues \in Seq(S) /\ DOMAIN upvalues = 1..Len(upvalues)
      /\ Len(upvalues) \in Nat /\ \A u \in DOMAIN upvalues : upvalues[u] \in S
  BY Elements DEF IInv, HeapOK, UpvaluesOK
<1>6. \A u \in List : /\ u \in DOMAIN upvalues /\ upvalues[u].location # own
                      /\ at(u) \in Position /\ at(u) \in Nat
                      /\ memory[at(u)] \in Made /\ Read(u) = memory[at(u)]
  <2> TAKE u \in List
  <2>1. IsOpen(u)
    BY DEF IInv, ListOK
  <2>2. u \in DOMAIN upvalues /\ upvalues[u].location # own
    BY <2>1 DEF IsOpen
  <2>3. at(u) \in Position /\ at(u) \in Nat
    BY <2>1, OpenAt DEF IInv, Position
  <2>4. memory[at(u)] \in Made
    BY <1>1, <2>1, <2>2 DEF IInv, MemoryOK
  <2> QED BY <2>2, <2>3, <2>4 DEF Read
<1>7. \A u \in List : (\E i \in 1..n : openUpvalues[i] = u) <=> at(u) >= top
  <2> TAKE u \in List
  <2>1. PICK j \in 1..k : openUpvalues[j] = u
    BY <1>4 DEF ToSet
  <2>2. ASSUME NEW i \in 1..n, openUpvalues[i] = u PROVE at(u) >= top
    <3>1. i \in 1..k /\ i <= n
      BY <1>4
    <3> QED BY <1>1, <1>4, <2>2, <3>1
  <2>3. ASSUME at(u) >= top PROVE j \in 1..n
    <3>1. at(openUpvalues[j]) > top - 1
      BY <1>1, <1>4, <2>1, <2>3
    <3>2. j <= n
      BY <1>4, <3>1
    <3> QED BY <1>4, <3>2
  <2> QED BY <2>1, <2>2, <2>3
<1>8. \A u \in DOMAIN upvalues : u \notin List =>
        ~\E i \in 1..n : openUpvalues[i] = u
  <2>1. \A i \in 1..n : i \in 1..k
    BY <1>4
  <2> QED BY <1>4, <2>1
<1> HIDE DEF List, at, S
<1>9. /\ DOMAIN upvalues' = DOMAIN upvalues
      /\ \A u \in DOMAIN upvalues : u \in List /\ at(u) >= top =>
           upvalues'[u] = [location |-> own, closed |-> Read(u)]
      /\ \A u \in DOMAIN upvalues : ~(u \in List /\ at(u) >= top) =>
           upvalues'[u] = upvalues[u]
  BY <1>3, <1>7, <1>8
<1>10. /\ openUpvalues' \in Seq(DOMAIN upvalues)
       /\ DOMAIN openUpvalues' = 1..(k - n)
       /\ \A i \in 1..(k - n) : openUpvalues'[i] = openUpvalues[n + i]
                                  /\ n + i \in 1..k /\ n + i > n
  <2>1. /\ openUpvalues' \in Seq(DOMAIN upvalues)
        /\ DOMAIN openUpvalues' = 1..(k - n)
        /\ \A i \in 1..(k - n) : openUpvalues'[i] = openUpvalues[n + i]
    BY <1>3, <1>4, Dropped
  <2>2. \A i \in 1..(k - n) : n + i \in 1..k /\ n + i > n
    BY <1>4
  <2> QED BY <2>1, <2>2
<1> HIDE DEF k
<1>11. ToSet(openUpvalues)' = {u \in List : at(u) < top}
  <2>1. ASSUME NEW i \in 1..(k - n)
        PROVE  openUpvalues'[i] \in List /\ at(openUpvalues'[i]) < top
    <3>1. n + i \in 1..k /\ n + i > n /\ ~(n + i <= n)
      BY <1>4, <1>10
    <3>2. /\ ~(at(openUpvalues[n + i]) > top - 1)
          /\ at(openUpvalues[n + i]) \in Nat /\ openUpvalues[n + i] \in List
      BY <1>4, <3>1
    <3> QED BY <1>1, <1>10, <3>2
  <2>2. ASSUME NEW u \in List, at(u) < top
        PROVE  \E i \in 1..(k - n) : openUpvalues'[i] = u
    <3>1. PICK j \in 1..k : openUpvalues[j] = u
      BY <1>4 DEF ToSet, List
    <3>2. ~(j <= n)
      BY <1>1, <1>4, <1>6, <2>2, <3>1
    <3>3. j - n \in 1..(k - n) /\ n + (j - n) = j
      BY <1>4, <3>2
    <3> QED BY <1>10, <3>1, <3>3
  <2>3. ToSet(openUpvalues)' = {openUpvalues'[i] : i \in 1..(k - n)}
    BY <1>10 DEF ToSet
  <2> QED BY <2>1, <2>2, <2>3
<1>12. Made' = Made /\ Pairs' = Pairs /\ own' = own /\ Position' = Position
         /\ Pointer' = Pointer
  BY <1>2 DEF Made, Pairs, own, Position, Pointer
<1>13. \A u : IsOpen(u)' <=> IsOpen(u) /\ ~(u \in List /\ at(u) >= top)
  BY <1>9, <1>12 DEF IsOpen
<1>14. \A u : IsOpen(u) <=> u \in List
  BY <1>1 DEF IInv, ListOK, List, IsOpen
<1>15. \A u : IsOpen(u)' => /\ u \in List /\ at(u) < top
                            /\ u \in DOMAIN upvalues /\ upvalues'[u] = upvalues[u]
  BY <1>1, <1>6, <1>9, <1>13, <1>14
<1>16. MemoryOK'
  <2>1. top' \in 0..Len(memory) /\ \A i \in 1..top' : i \in 1..top
    BY <1>1, <1>2
  <2>2. ASSUME NEW u, IsOpen(u)' PROVE memory[upvalues'[u].location.at] \in Made
    BY <1>6, <1>15, <2>2 DEF at
  <2> QED BY <1>2, <1>12, <2>1, <2>2 DEF IInv, MemoryOK
<1>17. FramesOK' /\ FramesAreStacked' /\ OnlyFreedStacksAreFatal'
  <2>1. /\ frame.height - 1 \in Nat \ {0}
        /\ top' = frame.slots.at + (frame.height - 1) - 1
    BY <1>1, <1>2
  <2>2. Len(closures') \in Nat /\ Len(closures) <= Len(closures')
          /\ Len(closures) \in Nat
    BY <1>2 DEF IInv, HeapOK, ClosuresOK
  <2> QED BY <1>2, <2>1, <2>2, HeightStep
<1>18. UpvaluesOK'
  <2>1. own \in Pointer
    BY DEF own, Pointer
  <2>2. upvalues' \in Seq(S)
    <3>1. \A u \in DOMAIN upvalues : upvalues'[u] \in S
      <4> TAKE u \in DOMAIN upvalues
      <4>1. CASE u \in List /\ at(u) >= top
        BY <1>6, <1>9, <2>1, <4>1 DEF S
      <4>2. CASE ~(u \in List /\ at(u) >= top)
        BY <1>5, <1>9, <4>2
      <4> QED BY <4>1, <4>2
    <3>2. upvalues' \in [1..Len(upvalues) -> S]
      BY <1>3, <1>5, <3>1
    <3> QED BY <1>5, <3>2, IsASequence
  <2>3. ASSUME NEW u \in DOMAIN upvalues
        PROVE  \/ upvalues'[u].location = own /\ upvalues'[u].closed \in Made
               \/ /\ upvalues'[u].location.block \in 1..block
                  /\ upvalues'[u].location.at \in 1..Len(memory)
    <3>1. CASE u \in List /\ at(u) >= top
      BY <1>6, <1>9, <3>1
    <3>2. CASE ~(u \in List /\ at(u) >= top)
      BY <1>9, <3>2 DEF IInv, HeapOK, UpvaluesOK
    <3> QED BY <3>1, <3>2
  <2> QED BY <1>2, <1>9, <1>10, <1>12, <2>2, <2>3 DEF UpvaluesOK, S
<1>19. \A p \in Position : /\ p \in Nat
                           /\ cellAt'[p] = IF p >= top THEN 0 ELSE cellAt[p]
  BY <1>2, Bounds DEF Position
<1>20. HeapOK'
  <2>1. cellAt' \in [Position -> 0..Len(contents)]
    <3>1. cellAt \in [Position -> 0..Len(contents)] /\ Len(contents) \in Nat
      BY DEF IInv, HeapOK
    <3> QED BY <1>2, <3>1
  <2>2. ClosuresOK'
    BY <1>2, <1>9 DEF IInv, HeapOK, ClosuresOK
  <2> QED BY <1>2, <1>9, <1>12, <1>18, <2>1, <2>2 DEF IInv, HeapOK
<1>21. ListOK'
  <2>1. ASSUME NEW i \in DOMAIN openUpvalues', NEW j \in DOMAIN openUpvalues',
               i < j
        PROVE  upvalues'[openUpvalues'[i]].location.at
                 > upvalues'[openUpvalues'[j]].location.at
    <3>1. /\ openUpvalues'[i] = openUpvalues[n + i] /\ n + i \in 1..k
          /\ openUpvalues'[j] = openUpvalues[n + j] /\ n + j \in 1..k
          /\ n + i < n + j
      <4>1. i \in 1..(k - n) /\ j \in 1..(k - n)
        BY <1>10
      <4>2. n + i < n + j
        BY <1>4, <2>1, <4>1
      <4> QED BY <1>10, <4>1, <4>2
    <3>2. at(openUpvalues[n + i]) > at(openUpvalues[n + j])
      BY <1>4, <3>1 DEF IInv, ListOK, at
    <3>3. /\ openUpvalues'[i] \in ToSet(openUpvalues)'
          /\ openUpvalues'[j] \in ToSet(openUpvalues)'
      BY DEF ToSet
    <3>4. /\ upvalues'[openUpvalues'[i]] = upvalues[openUpvalues'[i]]
          /\ upvalues'[openUpvalues'[j]] = upvalues[openUpvalues'[j]]
      BY <1>1, <1>6, <1>9, <1>11, <3>3
    <3> QED BY <3>1, <3>2, <3>4 DEF at
  <2>2. ToSet(openUpvalues)' = {u \in DOMAIN upvalues' : IsOpen(u)'}
    <3>1. \A u \in ToSet(openUpvalues)' : u \in DOMAIN upvalues' /\ IsOpen(u)'
      BY <1>1, <1>6, <1>9, <1>11, <1>13, <1>14
    <3> QED BY <1>11, <1>15, <3>1
  <2> QED BY <2>1, <2>2 DEF ListOK
<1>22. ASSUME NEW p \in Position, cellAt'[p] # 0
       PROVE  cellAt'[p] = cellAt[p] /\ cellAt[p] # 0 /\ p < top /\ p \in 2..(top - 1)
  <2>1. cellAt'[p] = cellAt[p] /\ ~(p >= top) /\ p \in Nat /\ cellAt[p] # 0
    BY <1>19, <1>22
  <2>2. p \in 2..top
    BY <2>1 DEF IInv, CellsOK
  <2> QED BY <1>1, <2>1, <2>2
<1>23. CellsOK'
  <2>1. ASSUME NEW p \in Position, cellAt'[p] # 0
        PROVE  \E u \in ToSet(openUpvalues)' : upvalues'[u].location.at = p
    <3>1. PICK u \in List : at(u) = p
      BY <1>22, <2>1 DEF IInv, CellsOK, List, at
    <3>2. u \in ToSet(openUpvalues)' /\ upvalues'[u] = upvalues[u]
      BY <1>1, <1>6, <1>9, <1>11, <1>22, <2>1, <3>1
    <3> QED BY <3>1, <3>2 DEF at
  <2>2. ASSUME NEW p \in Position, cellAt'[p] # 0, NEW pair \in Pairs,
               pair[2] = cellAt'[p]
        PROVE  upvalues'[pair[1]].location.at = p
    <3>1. at(pair[1]) = p /\ p < top /\ p # 0
      BY <1>22, <2>2 DEF IInv, CellsOK, at
    <3>2. pair[1] \in DOMAIN upvalues /\ ~(at(pair[1]) >= top)
      BY <1>1, <1>19, <3>1, CapturedPairs DEF IInv
    <3> QED BY <1>9, <3>1, <3>2 DEF at
  <2> QED BY <1>2, <1>12, <1>22, <2>1, <2>2 DEF IInv, CellsOK
<1>24. SharingOK'
  BY <1>2, <1>12 DEF IInv, SharingOK
<1>25. ContentsOK'
  <2>1. ASSUME NEW u \in ToSet(openUpvalues)' \ leaked
        PROVE  /\ cellAt'[upvalues'[u].location.at] # 0
               /\ ~IsStale(upvalues[u].location)' =>
                    memory[upvalues'[u].location.at]
                      = contents[cellAt'[upvalues'[u].location.at]]
    <3>1. u \in List /\ at(u) < top /\ at(u) \in Position
      BY <1>6, <1>11
    <3>2. upvalues'[u] = upvalues[u] /\ cellAt'[at(u)] = cellAt[at(u)]
      BY <1>1, <1>6, <1>9, <1>19, <3>1
    <3>3. IsStale(upvalues[u].location)' = IsStale(upvalues[u].location)
      BY <1>2, <1>12, <3>2 DEF IsStale
    <3> QED BY <3>1, <3>2, <3>3 DEF IInv, ContentsOK, List, at
  <2>2. ASSUME NEW pair \in Pairs, pair[1] \notin leaked
        PROVE  IF upvalues'[pair[1]].location = own
               THEN upvalues'[pair[1]].closed = contents[pair[2]]
               ELSE cellAt'[upvalues'[pair[1]].location.at] = pair[2]
    <3>0. pair[1] \in DOMAIN upvalues
      BY CapturedPairs DEF IInv
    <3>1. CASE pair[1] \in List /\ at(pair[1]) >= top
      <4>1. /\ upvalues'[pair[1]] = [location |-> own, closed |-> Read(pair[1])]
            /\ Read(pair[1]) = memory[at(pair[1])]
            /\ upvalues[pair[1]].location # own
        BY <1>6, <1>9, <3>0, <3>1
      <4>2. cellAt[at(pair[1])] = pair[2]
        BY <1>1, <2>2, <4>1 DEF IInv, ContentsOK, at
      <4>3. ~IsStale(upvalues[pair[1]].location)
        BY <3>1 DEF OpenUpvalueIsStale, List
      <4>4. memory[at(pair[1])] = contents[cellAt[at(pair[1])]]
        BY <2>2, <3>1, <4>3 DEF IInv, ContentsOK, List, at
      <4> QED BY <4>1, <4>2, <4>4
    <3>2. CASE ~(pair[1] \in List /\ at(pair[1]) >= top)
      <4>1. upvalues'[pair[1]] = upvalues[pair[1]]
        BY <1>9, <3>0, <3>2
      <4>2. CASE upvalues[pair[1]].location = own
        BY <2>2, <4>1, <4>2 DEF IInv, ContentsOK
      <4>3. CASE upvalues[pair[1]].location # own
        <5>1. pair[1] \in List
          BY <1>14, <3>0, <4>3 DEF IsOpen
        <5>2. at(pair[1]) \in Position /\ ~(at(pair[1]) >= top)
          BY <1>6, <3>2, <5>1
        <5>3. cellAt'[at(pair[1])] = cellAt[at(pair[1])]
          BY <1>19, <5>2
        <5>4. cellAt[at(pair[1])] = pair[2]
          BY <1>1, <2>2, <4>3 DEF IInv, ContentsOK, at
        <5> QED BY <4>1, <4>3, <5>3, <5>4 DEF at
      <4> QED BY <4>2, <4>3
    <3> QED BY <3>1, <3>2
  <2> QED BY <1>2, <1>12, <2>1, <2>2 DEF ContentsOK
<1> QED BY <1>16, <1>17, <1>20, <1>21, <1>23, <1>24, <1>25 DEF IInv

(* OP_CLOSE_UPVALUE, on a stack that is there or was freed.                *)
LEMMA OpCloseUpvalueStep == ASSUME IInv, OpCloseUpvalue PROVE IInv'
<1>1. Active /\ frame.height > 1
  BY DEF OpCloseUpvalue, Running, Active
<1>2. CASE OpenUpvalueIsStale
  <2>1. PointsToFreed
    BY <1>2 DEF OpenUpvalueIsStale, PointsToFreed, IInv, ListOK
  <2> QED BY <1>2, <2>1, UndefinedStep DEF OpCloseUpvalue
<1>3. CASE ~OpenUpvalueIsStale
  BY <1>1, <1>3, ClosedStep DEF OpCloseUpvalue
<1> QED BY <1>2, <1>3
-----------------------------------------------------------------------------

(* Nothing happens.                                                        *)
LEMMA StutterStep == ASSUME IInv, UNCHANGED vars PROVE IInv'
<1>1. UNCHANGED <<machine, openUpvalues, heap, globals, history>>
        /\ frames' = frames /\ block' = block /\ upvalues' = upvalues
  BY DEF vars, machine, heap
<1>2. /\ MemoryOK' /\ HeapOK' /\ ListOK' /\ CellsOK' /\ SharingOK'
      /\ ContentsOK' /\ top' = top /\ state' = state /\ isFreed' = isFreed
      /\ Frame' = Frame
  BY <1>1, OnlyFrames
<1>3. FramesOK' /\ FramesAreStacked'
  BY <1>1, <1>2 DEF IInv, FramesOK, FramesAreStacked, FrameEnd
<1>4. OnlyFreedStacksAreFatal'
  BY <1>1, <1>2 DEF IInv, OnlyFreedStacksAreFatal, PointsToFreed, IsStale, own
<1> QED BY <1>2, <1>3, <1>4 DEF IInv

(* IInv is an inductive invariant: there is one lemma for each instruction *)
(* and for each thing that a session does.                                 *)
THEOREM Invariant == Spec => []IInv
<1>1. ASSUME IInv, [Next]_vars PROVE IInv'
  <2>1. CASE Session
    BY <1>1, <2>1, InterpretStep, InterpretAfterErrorStep, FreeVMStep
       DEF Session
  <2>2. CASE Variables
    BY <1>1, <2>2, OpConstantStep, OpPopStep, OpGetLocalStep, OpSetLocalStep,
       OpGetGlobalStep, OpDefineGlobalStep, OpSetGlobalStep, OpGetUpvalueStep,
       OpSetUpvalueStep DEF Variables
  <2>3. CASE OpCall
    BY <1>1, <2>3, OpCallStep
  <2>4. CASE OpReturn
    BY <1>1, <2>4, OpReturnStep
  <2>5. CASE Closures
    BY <1>1, <2>5, OpClosureStep, CaptureALocalStep, CaptureCapturedStep,
       CapturedAllStep, OpCloseUpvalueStep DEF Closures
  <2>6. CASE UNCHANGED vars
    BY <1>1, <2>6, StutterStep
  <2> QED BY <1>1, <2>1, <2>2, <2>3, <2>4, <2>5, <2>6 DEF Next
<1> QED BY <1>1, InitIInv, PTL DEF Spec
-----------------------------------------------------------------------------
(* No array overflows: at most FRAMES_MAX frames, and a stack whose top    *)
(* lies within the block; nothing that was never written is on it.         *)
LEMMA IInvTypes == IInv => TypeOK
<1> SUFFICES ASSUME IInv PROVE TypeOK
  OBVIOUS
<1> USE DEF IInv
<1>1. Made \subseteq Value
  <2>1. closures \in Seq([upvalues : Seq(DOMAIN upvalues),
                          cells : Seq(DOMAIN contents)])
          /\ Len(closures) <= MaxClosures
    BY DEF HeapOK, ClosuresOK
  <2>2. DOMAIN closures \subseteq 1..MaxClosures
    BY <2>1, Bounds
  <2> QED BY <2>2 DEF Made, Value
<1>2. Junk \notin Made
  BY <1>1, VMAssumption
<1>3. /\ memory \in Seq(Value \cup {Junk}) /\ Len(memory) <= MaxCapacity
      /\ top \in 0..Len(memory) /\ \A i \in 1..top : memory[i] # Junk
      /\ block \in Nat /\ isFreed \in BOOLEAN
      /\ state \in {"idle", "running", "capturing", "undefined", "aborted",
                    "ended"}
  <2>1. memory \in Seq(Made \cup {Junk}) /\ Made \cup {Junk} \subseteq Value \cup {Junk}
    BY <1>1 DEF MemoryOK
  <2>2. memory \in Seq(Value \cup {Junk})
    BY <2>1, SeqMonotonic
  <2> QED BY <1>2, <2>2 DEF MemoryOK
<1>4. upvalues \in Seq([location : Pointer, closed : Value \cup {Junk}])
  <2> DEFINE S == [location : Pointer, closed : Made \cup {Junk}]
             T == [location : Pointer, closed : Value \cup {Junk}]
  <2>1. upvalues \in Seq(S) /\ S \subseteq T
    BY <1>1 DEF HeapOK, UpvaluesOK
  <2> HIDE DEF S, T
  <2>2. upvalues \in Seq(T)
    BY <2>1, SeqMonotonic
  <2> QED BY <2>2 DEF T
<1>5. contents \in Seq(Value)
  BY <1>1, SeqMonotonic DEF HeapOK
<1>6. globals \in [Name -> Value \cup {Absent}]
  BY <1>1 DEF HeapOK
<1> QED BY <1>3, <1>4, <1>5, <1>6
        DEF TypeOK, FramesOK, HeapOK, ClosuresOK, UpvaluesOK

(* A captured variable has one value, that which was last assigned to it,  *)
(* for all that can still name it.                                         *)
LEMMA IInvVariables == IInv => UpvaluesHoldTheirVariables
<1> SUFFICES ASSUME IInv, NEW c \in DOMAIN closures,
                    NEW i \in DOMAIN closures[c].upvalues,
                    IsIntact(closures[c].upvalues[i])
             PROVE  Read(closures[c].upvalues[i]) = contents[closures[c].cells[i]]
  BY DEF UpvaluesHoldTheirVariables
<1> DEFINE u == closures[c].upvalues[i]
           cell == closures[c].cells[i]
<1>1. <<u, cell>> \in Pairs
  BY DEF Pairs
<1>2. u \in DOMAIN upvalues
  BY <1>1, CapturedPairs DEF IInv
<1>3. u \notin leaked /\ ~IsStale(upvalues[u].location)
        /\ (isFreed => upvalues[u].location = own)
  BY DEF IsIntact
<1> HIDE DEF u, cell
<1>4. CASE upvalues[u].location = own
  BY <1>1, <1>3, <1>4 DEF IInv, ContentsOK, Read, u, cell
<1>5. CASE upvalues[u].location # own
  <2>1. ~isFreed /\ u \in ToSet(openUpvalues) \ leaked
    BY <1>2, <1>3, <1>5 DEF IInv, ListOK, IsOpen
  <2>2. cellAt[upvalues[u].location.at] = cell
    BY <1>1, <1>3, <1>5, <2>1 DEF IInv, ContentsOK
  <2>3. memory[upvalues[u].location.at] = contents[cell]
    BY <1>3, <2>1, <2>2 DEF IInv, ContentsOK
  <2> QED BY <1>5, <2>3 DEF Read, u, cell
<1> QED BY <1>4, <1>5

(* The list that closeUpvalues and captureUpvalue walk along is in the     *)
(* order of the stack and holds all open upvalues.                         *)
LEMMA IInvOrder == IInv => OpenUpvaluesAreInOrder
<1> SUFFICES ASSUME IInv PROVE OpenUpvaluesAreInOrder
  OBVIOUS
<1>1. DOMAIN openUpvalues = 1..Len(openUpvalues) /\ Len(openUpvalues) \in Nat
  BY DEF IInv, HeapOK, UpvaluesOK
<1>2. ASSUME NEW n \in 1..(Len(openUpvalues) - 1)
      PROVE  upvalues[openUpvalues[n]].location.at
               > upvalues[openUpvalues[n + 1]].location.at
  <2>1. n \in DOMAIN openUpvalues /\ n + 1 \in DOMAIN openUpvalues /\ n < n + 1
    BY <1>1
  <2> QED BY <2>1 DEF IInv, ListOK
<1> QED BY <1>2 DEF IInv, ListOK, ContentsOK, OpenUpvaluesAreInOrder, IsOpen

(* Positions, values and numbers stay in their ranges, in every session of *)
(* any length, for every set of programs.                                  *)
THEOREM TypesHold == Spec => []TypeOK
  BY Invariant, IInvTypes, PTL

(* Frames lie on each other as the compiler counted them.                  *)
THEOREM FramesStayStacked == Spec => []FramesAreStacked
<1>1. IInv => FramesAreStacked
  BY DEF IInv
<1> QED BY <1>1, Invariant, PTL

(***************************************************************************)
(* A captured variable has one value, on the stack and after it is closed: *)
(* OP_CLOSE_UPVALUE keeps it.  OP_RETURN does not, so that a variable of a *)
(* function that a closure outlives is lost; the theorem does not speak of *)
(* the upvalues that it left open, nor of those into a stack that was      *)
(* moved or freed (IsIntact).                                              *)
(***************************************************************************)
THEOREM VariablesAreShared == Spec => []UpvaluesHoldTheirVariables
  BY Invariant, IInvVariables, PTL

(* The list of open upvalues is in order and complete.                     *)
THEOREM ListStaysInOrder == Spec => []OpenUpvaluesAreInOrder
  BY Invariant, IInvOrder, PTL

(* Only a stack that was freed makes the process fail.                     *)
THEOREM OnlyFreedStacksFail == Spec => []OnlyFreedStacksAreFatal
<1>1. IInv => OnlyFreedStacksAreFatal
  BY DEF IInv
<1> QED BY <1>1, Invariant, PTL
=============================================================================
