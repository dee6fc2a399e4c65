---------------------------- MODULE ChunkProofs ----------------------------
(***************************************************************************)
(* Proofs about Chunk, for every number of values of a byte, any lines and *)
(* any bytes: what is written as a constant's index is read again, and the *)
(* run lengths are the lines.                                              *)
(***************************************************************************)
EXTENDS Chunk, NumberProofs, SequenceTheorems, TLAPS

(* Indices. *)

(* What the assumption says of the weights of bytes.                       *)
LEMMA Weights ==
  /\ Base \in Nat /\ Base >= 2 /\ Base * Base \in Nat \ {0}
  /\ Weight(0) = 1 /\ Weight(1) = Base /\ Weight(2) = Base * Base
  /\ Weight(3) = (Base * Base) * Base
<1>1. Base \in Nat /\ Base >= 2
  BY ChunkAssumption
<1>2. Base * Base \in Nat \ {0}
  BY <1>1
<1> QED BY <1>1, <1>2 DEF Weight

(* A byte is one, whatever it is of.                                       *)
LEMMA NthByteIsByte ==
  ASSUME NEW a \in Nat, NEW n \in 0..3
  PROVE  NthByte(a, n) \in Byte
<1>1. Weight(n) \in Nat \ {0}
  <2>1. n = 0 \/ n = 1 \/ n = 2 \/ n = 3
    OBVIOUS
  <2>2. (Base * Base) * Base \in Nat \ {0}
    BY Weights
  <2> QED BY <2>1, <2>2, Weights
<1>2. a \div Weight(n) \in Int
  BY <1>1
<1> QED BY <1>2, Weights DEF NthByte, Byte

(* Three bytes are enough for an index that is less than their weight.     *)
LEMMA ThreeBytes ==
  ASSUME NEW a \in Nat, a < Weight(3)
  PROVE  (NthByte(a, 2) * Base + NthByte(a, 1)) * Base + NthByte(a, 0) = a
<1> DEFINE q == a \div Base
           r == a % Base
           p == q \div Base
           s == q % Base
<1>1. /\ Base \in Nat /\ Base >= 2 /\ Base * Base \in Nat \ {0}
      /\ a < (Base * Base) * Base
  BY Weights
<1>2. a = Base * q + r /\ q \in Nat /\ r \in 0..(Base - 1)
  BY <1>1
<1>3. q = Base * p + s /\ p \in Nat /\ s \in 0..(Base - 1)
  <2> HIDE DEF q
  <2> QED BY <1>1, <1>2
<1>4. NthByte(a, 0) = r
  BY Weights DEF NthByte
<1>5. NthByte(a, 1) = s
  BY Weights DEF NthByte
<1> HIDE DEF q, r, p, s
<1>6. Base * s + r \in 0..(Base * Base - 1)
  <2>1. Base * s \in Nat /\ Base * s <= Base * (Base - 1)
    BY <1>1, <1>3
  <2>2. Base * (Base - 1) = Base * Base - Base
    BY <1>1
  <2> QED BY <1>1, <1>2, <2>1, <2>2
<1>7. a = (Base * Base) * p + (Base * s + r)
  <2>1. Base * q = (Base * Base) * p + Base * s
    BY <1>1, <1>3
  <2> QED BY <1>1, <1>2, <1>3, <2>1
<1>8. a \div (Base * Base) = p
  BY <1>1, <1>3, <1>6, <1>7, QuotientAndRemainder
<1>9. p < Base
  <2> SUFFICES ASSUME p >= Base PROVE FALSE
    BY <1>1, <1>3
  <2>1. (Base * Base) * p >= (Base * Base) * Base
    <3> DEFINE d == Base * Base
    <3>1. d \in Nat
      BY <1>1
    <3> HIDE DEF d
    <3>2. d * p >= d * Base
      BY <1>1, <1>3, <3>1
    <3> QED BY <3>2 DEF d
  <2>2. (Base * Base) * p \in Nat /\ (Base * Base) * Base \in Nat
    BY <1>1, <1>3
  <2> QED BY <1>1, <1>6, <1>7, <2>1, <2>2
<1>10. NthByte(a, 2) = p
  <2>1. p % Base = p
    BY <1>1, <1>3, <1>9
  <2> QED BY <1>8, <2>1, Weights DEF NthByte
<1>11. (p * Base + s) * Base + r = a
  <2>1. p * Base + s = q
    BY <1>1, <1>3
  <2> QED BY <1>1, <1>2, <2>1
<1> QED BY <1>4, <1>5, <1>10, <1>11
-----------------------------------------------------------------------------
(* Runs. *)

(* What one step of getLine's loop makes of its counter, as a function of  *)
(* what it was before.                                                     *)
CounterStep(counter, runs, n) ==
  IF n = 0 THEN 0 ELSE counter[n - 1] + runs[n].repeats

(* counter is right for the first n runs.                                  *)
CountsTo(counter, runs, n) ==
  counter = [k \in 0..n |-> CounterStep(counter, runs, k)]

(* There is such a counter for any number of runs.                         *)
LEMMA CounterExists ==
  ASSUME NEW runs
  PROVE  \A n \in Nat : \E counter : CountsTo(counter, runs, n)
<1> DEFINE S == {n \in Nat : \E counter : CountsTo(counter, runs, n)}
<1>1. 0 \in S
  <2> DEFINE none == [k \in 0..0 |-> 0]
  <2>1. CountsTo(none, runs, 0)
    BY DEF CountsTo, CounterStep
  <2> QED BY <2>1
<1>2. ASSUME NEW n \in Nat, n \in S PROVE n + 1 \in S
  <2>1. PICK counter : CountsTo(counter, runs, n)
    BY <1>2
  <2> DEFINE more == [k \in 0..(n + 1) |-> CounterStep(counter, runs, k)]
  <2>2. \A k \in 0..n : counter[k] = CounterStep(counter, runs, k)
    BY <2>1 DEF CountsTo
  <2>3. \A k \in 0..n : more[k] = counter[k]
    BY <2>2
  <2>4. \A k \in 0..(n + 1) :
          CounterStep(more, runs, k) = CounterStep(counter, runs, k)
    <3> SUFFICES ASSUME NEW k \in 0..(n + 1)
                 PROVE  CounterStep(more, runs, k) = CounterStep(counter, runs, k)
      OBVIOUS
    <3>1. CASE k = 0
      BY <3>1 DEF CounterStep
    <3>2. CASE k # 0
      <4>1. k - 1 \in 0..n
        BY <3>2
      <4>2. more[k - 1] = counter[k - 1]
        BY <2>3, <4>1
      <4> HIDE DEF more
      <4> QED BY <4>2 DEF CounterStep
    <3> QED BY <3>1, <3>2
  <2>5. CountsTo(more, runs, n + 1)
    BY <2>4 DEF CountsTo
  <2> HIDE DEF more
  <2> QED BY <2>5
<1> HIDE DEF S
<1>3. \A n \in Nat : n \in S
  BY <1>1, <1>2, SetInduction
<1> QED BY <1>3 DEF S

(* Two of them agree where both are right.                                 *)
LEMMA CountersAgree ==
  ASSUME NEW runs, NEW m \in Nat, NEW n \in Nat,
         NEW f, NEW g, CountsTo(f, runs, m), CountsTo(g, runs, n)
  PROVE  \A k \in Nat : k <= m /\ k <= n => f[k] = g[k]
<1> DEFINE S == {k \in Nat : k <= m /\ k <= n => f[k] = g[k]}
<1>1. /\ \A k \in 0..m : f[k] = CounterStep(f, runs, k)
      /\ \A k \in 0..n : g[k] = CounterStep(g, runs, k)
  BY DEF CountsTo
<1>2. 0 \in S
  BY <1>1 DEF CounterStep
<1>3. ASSUME NEW k \in Nat, k \in S PROVE k + 1 \in S
  <2> SUFFICES ASSUME k + 1 <= m, k + 1 <= n PROVE f[k + 1] = g[k + 1]
    OBVIOUS
  <2>1. f[k] = g[k]
    BY <1>3
  <2>2. CounterStep(f, runs, k + 1) = CounterStep(g, runs, k + 1)
    <3>1. (k + 1) - 1 = k /\ k + 1 # 0
      OBVIOUS
    <3> QED BY <2>1, <3>1 DEF CounterStep
  <2> QED BY <1>1, <2>2
<1> HIDE DEF S
<1>4. \A k \in Nat : k \in S
  BY <1>2, <1>3, SetInduction
<1> QED BY <1>4 DEF S

(* So RunsEnd is what it is defined to be.                                 *)
LEMMA RunsEndNext ==
  ASSUME NEW runs
  PROVE  /\ RunsEnd(runs)[0] = 0
         /\ \A n \in Nat :
              RunsEnd(runs)[n + 1] = RunsEnd(runs)[n] + runs[n + 1].repeats
<1> DEFINE Up(n) == CHOOSE counter : CountsTo(counter, runs, n)
           end == [n \in Nat |-> Up(n)[n]]
<1>1. \A n \in Nat : CountsTo(Up(n), runs, n)
  BY CounterExists
<1>2. \A n \in Nat : Up(n)[n] = CounterStep(end, runs, n)
  <2> SUFFICES ASSUME NEW n \in Nat PROVE Up(n)[n] = CounterStep(end, runs, n)
    OBVIOUS
  <2>1. CountsTo(Up(n), runs, n)
    BY <1>1
  <2> HIDE DEF Up
  <2>2. Up(n)[n] = CounterStep(Up(n), runs, n)
    BY <2>1 DEF CountsTo
  <2>3. CASE n = 0
    BY <2>2, <2>3 DEF CounterStep
  <2>4. CASE n # 0
    <3>1. n - 1 \in Nat /\ n - 1 <= n
      BY <2>4
    <3>2. CountsTo(Up(n - 1), runs, n - 1)
      BY <1>1, <3>1
    <3>3. Up(n)[n - 1] = Up(n - 1)[n - 1]
      BY <2>1, <3>1, <3>2, CountersAgree
    <3>4. end[n - 1] = Up(n)[n - 1]
      BY <3>1, <3>3
    <3> HIDE DEF end
    <3> QED BY <2>2, <2>4, <3>4 DEF CounterStep
  <2> QED BY <2>3, <2>4
<1>3. end = [n \in Nat |-> CounterStep(end, runs, n)]
  BY <1>2
<1>4. end = [n \in Nat |-> IF n = 0 THEN 0 ELSE end[n - 1] + runs[n].repeats]
  BY <1>3 DEF CounterStep
<1> HIDE DEF end
<1>5. RunsEnd(runs) =
        [n \in Nat |-> IF n = 0 THEN 0
                       ELSE RunsEnd(runs)[n - 1] + runs[n].repeats]
  BY <1>4 DEF RunsEnd
<1> DEFINE e == RunsEnd(runs)
<1>6. e = [n \in Nat |-> IF n = 0 THEN 0 ELSE e[n - 1] + runs[n].repeats]
  BY <1>5
<1> HIDE DEF e
<1>7. e[0] = 0
  BY <1>6
<1>8. ASSUME NEW n \in Nat PROVE e[n + 1] = e[n] + runs[n + 1].repeats
  <2>1. n + 1 \in Nat /\ n + 1 # 0 /\ (n + 1) - 1 = n
    OBVIOUS
  <2> QED BY <1>6, <2>1
<1> QED BY <1>7, <1>8 DEF e

Run == [lineNumber : Line, repeats : Nat \ {0}]

(* The counter of the same runs is the same.                               *)
LEMMA RunsEndSame ==
  ASSUME NEW runs, NEW others, NEW m \in Nat,
         \A n \in 1..m : others[n].repeats = runs[n].repeats
  PROVE  \A n \in Nat : n <= m => RunsEnd(others)[n] = RunsEnd(runs)[n]
<1> DEFINE e == RunsEnd(runs)
           f == RunsEnd(others)
           S == {n \in Nat : n <= m => f[n] = e[n]}
<1>1. /\ e[0] = 0 /\ \A n \in Nat : e[n + 1] = e[n] + runs[n + 1].repeats
      /\ f[0] = 0 /\ \A n \in Nat : f[n + 1] = f[n] + others[n + 1].repeats
  BY RunsEndNext
<1> HIDE DEF e, f
<1>2. 0 \in S
  BY <1>1
<1>3. ASSUME NEW n \in Nat, n \in S PROVE n + 1 \in S
  <2> SUFFICES ASSUME n + 1 <= m PROVE f[n + 1] = e[n + 1]
    OBVIOUS
  <2>1. f[n] = e[n] /\ others[n + 1].repeats = runs[n + 1].repeats
    BY <1>3
  <2> QED BY <1>1, <2>1
<1> HIDE DEF S
<1>4. \A n \in Nat : n \in S
  BY <1>2, <1>3, SetInduction
<1> QED BY <1>4 DEF S, e, f

(* The counter is a number that grows with each run.                       *)
LEMMA RunsEndGrows ==
  ASSUME NEW runs \in Seq(Run)
  PROVE  /\ \A n \in Nat : n <= Len(runs) => RunsEnd(runs)[n] \in Nat
         /\ \A n \in Nat : n < Len(runs) =>
              RunsEnd(runs)[n] < RunsEnd(runs)[n + 1]
<1> DEFINE e == RunsEnd(runs)
           S == {n \in Nat : n <= Len(runs) => e[n] \in Nat}
<1>1. e[0] = 0 /\ \A n \in Nat : e[n + 1] = e[n] + runs[n + 1].repeats
  BY RunsEndNext
<1> HIDE DEF e
<1>2. \A n \in Nat : n < Len(runs) => runs[n + 1].repeats \in Nat \ {0}
  <2> SUFFICES ASSUME NEW n \in Nat, n < Len(runs)
               PROVE  runs[n + 1].repeats \in Nat \ {0}
    OBVIOUS
  <2>1. runs[n + 1] \in Run
    OBVIOUS
  <2> QED BY <2>1 DEF Run
<1>3. 0 \in S
  BY <1>1
<1>4. ASSUME NEW n \in Nat, n \in S PROVE n + 1 \in S
  <2> SUFFICES ASSUME n + 1 <= Len(runs) PROVE e[n + 1] \in Nat
    OBVIOUS
  <2>1. n < Len(runs) /\ n <= Len(runs)
    OBVIOUS
  <2>2. e[n] \in Nat /\ runs[n + 1].repeats \in Nat
    BY <1>2, <1>4, <2>1
  <2>3. e[n + 1] = e[n] + runs[n + 1].repeats
    BY <1>1
  <2> QED BY <2>2, <2>3
<1> HIDE DEF S
<1>5. \A n \in Nat : n \in S
  BY <1>3, <1>4, SetInduction
<1>6. \A n \in Nat : n <= Len(runs) => e[n] \in Nat
  BY <1>5 DEF S
<1>7. ASSUME NEW n \in Nat, n < Len(runs) PROVE e[n] < e[n + 1]
  <2>1. e[n] \in Nat /\ runs[n + 1].repeats \in Nat \ {0}
    <3>1. n <= Len(runs)
      BY <1>7
    <3> QED BY <1>2, <1>6, <1>7, <3>1
  <2>2. e[n + 1] = e[n] + runs[n + 1].repeats
    BY <1>1
  <2> QED BY <2>1, <2>2
<1> QED BY <1>6, <1>7 DEF e

(* So no run ends after the last one.                                      *)
LEMMA RunsEndBefore ==
  ASSUME NEW runs \in Seq(Run)
  PROVE  \A n \in Nat : n <= Len(runs) =>
           RunsEnd(runs)[n] <= RunsEnd(runs)[Len(runs)]
<1> SUFFICES ASSUME NEW n \in Nat, n <= Len(runs)
             PROVE  RunsEnd(runs)[n] <= RunsEnd(runs)[Len(runs)]
  OBVIOUS
<1> DEFINE e == RunsEnd(runs)
           S == {d \in Nat : n + d <= Len(runs) => e[n] <= e[n + d]}
<1>1. /\ \A m \in Nat : m <= Len(runs) => e[m] \in Nat
      /\ \A m \in Nat : m < Len(runs) => e[m] < e[m + 1]
  BY RunsEndGrows
<1> HIDE DEF e
<1>2. 0 \in S
  BY <1>1
<1>3. ASSUME NEW d \in Nat, d \in S PROVE d + 1 \in S
  <2> SUFFICES ASSUME n + (d + 1) <= Len(runs) PROVE e[n] <= e[n + (d + 1)]
    OBVIOUS
  <2>1. n + d \in Nat /\ n + d < Len(runs) /\ (n + d) + 1 = n + (d + 1)
    OBVIOUS
  <2>2. e[n] <= e[n + d] /\ e[n + d] < e[(n + d) + 1]
    BY <1>1, <1>3, <2>1
  <2>3. e[n] \in Nat /\ e[n + d] \in Nat /\ e[(n + d) + 1] \in Nat
    BY <1>1, <2>1
  <2>4. e[n] <= e[(n + d) + 1]
    BY <2>2, <2>3
  <2> QED BY <2>1, <2>4
<1> HIDE DEF S
<1>4. \A d \in Nat : d \in S
  BY <1>2, <1>3, SetInduction
<1>5. Len(runs) - n \in Nat /\ n + (Len(runs) - n) = Len(runs)
  OBVIOUS
<1>6. Len(runs) - n \in S
  BY <1>4, <1>5
<1> QED BY <1>5, <1>6 DEF S, e
-----------------------------------------------------------------------------
(* The inductive invariant. *)

(* The bytes, and the lines they were written with.                        *)
BytesOK ==
  /\ code \in Seq(Byte) /\ Len(code) <= MaxCode
  /\ written \in Seq(Line)
  /\ constants \in Seq(Value) /\ Len(constants) <= MaxConstants

RunsOK == lines \in Seq(Run) /\ LinesAreKept

(* An instruction is all there, and its index can be read.                 *)
InstructionOK ==
  /\ instruction \in SUBSET Instructions
  /\ \A i \in instruction :
       /\ i.at \in 1..(Len(code) - 1)
       /\ code[i.at] # OP_CONSTANT => i.at + 3 <= Len(code)
  /\ IndexIsRead

IInv == BytesOK /\ RunsOK /\ InstructionOK
-----------------------------------------------------------------------------
(* Bytes of a line are written: the bytes there were stay as they were.    *)
LEMMA BytesWritten ==
  ASSUME BytesOK, NEW bytes \in Seq(Byte), NEW line \in Line,
         WriteBytes(bytes, line)
  PROVE  /\ code' \in Seq(Byte) /\ Len(code') <= MaxCode
         /\ written' \in Seq(Line)
         /\ Len(code') = Len(code) + Len(bytes)
         /\ Len(written') = Len(written) + Len(bytes)
         /\ \A i \in 1..Len(code) : code'[i] = code[i]
         /\ \A i \in 1..Len(bytes) : code'[Len(code) + i] = bytes[i]
         /\ \A i \in 1..Len(written) : written'[i] = written[i]
         /\ \A i \in 1..Len(bytes) : written'[Len(written) + i] = line
<1> DEFINE more == [i \in 1..Len(bytes) |-> line]
<1>1. more \in Seq(Line) /\ Len(more) = Len(bytes)
  OBVIOUS
<1>2. /\ Len(code) + Len(bytes) <= MaxCode /\ code' = code \o bytes
      /\ written' = written \o more
  BY DEF WriteBytes
<1>3. \A i \in 1..Len(bytes) : more[i] = line
  OBVIOUS
<1> HIDE DEF more
<1>4. /\ code' \in Seq(Byte) /\ Len(code') = Len(code) + Len(bytes)
      /\ \A i \in 1..Len(code) : code'[i] = code[i]
      /\ \A i \in 1..Len(bytes) : code'[Len(code) + i] = bytes[i]
  BY <1>2 DEF BytesOK
<1>5. /\ written' \in Seq(Line) /\ Len(written') = Len(written) + Len(more)
      /\ \A i \in 1..Len(written) : written'[i] = written[i]
      /\ \A i \in 1..Len(more) : written'[Len(written) + i] = more[i]
  <2>1. written \in Seq(Line)
    BY DEF BytesOK
  <2>2. written' \in Seq(Line) /\ Len(written') = Len(written) + Len(more)
    BY <1>1, <1>2, <2>1, ConcatProperties
  <2>3. \A i \in 1..Len(written) : written'[i] = written[i]
    BY <1>1, <1>2, <2>1
  <2>4. \A i \in 1..Len(more) : written'[Len(written) + i] = more[i]
    BY <1>1, <1>2, <2>1
  <2> QED BY <2>2, <2>3, <2>4
<1> QED BY <1>1, <1>2, <1>3, <1>4, <1>5

(* A new run begins: another line than that of the bytes before.           *)
LEMMA RunBegun ==
  ASSUME BytesOK, RunsOK, NEW bytes \in Seq(Byte) \ {<<>>}, NEW line \in Line,
         WriteBytes(bytes, line),
         ~(lines # <<>> /\ lines[Len(lines)].lineNumber = line)
  PROVE  RunsOK'
<1> DEFINE last == [lineNumber |-> line, repeats |-> Len(bytes)]
           e == RunsEnd(lines)
           f == RunsEnd(lines')
           L == Len(lines)
<1>1. lines \in Seq(Run) /\ L \in Nat /\ Len(bytes) \in Nat \ {0}
  BY DEF RunsOK
<1>2. lines' = Append(lines, last) /\ last \in Run
  BY <1>1 DEF WriteBytes, NumberWritten, Run
<1>3. /\ lines' \in Seq(Run) /\ Len(lines') = L + 1
      /\ \A n \in 1..L : lines'[n] = lines[n]
      /\ lines'[L + 1].lineNumber = line /\ lines'[L + 1].repeats = Len(bytes)
  <2> HIDE DEF last
  <2>1. /\ lines' \in Seq(Run) /\ Len(lines') = L + 1
        /\ \A n \in 1..L : lines'[n] = lines[n] /\ lines'[L + 1] = last
    BY <1>1, <1>2
  <2>2. lines'[L + 1] = last
    BY <1>1, <1>2
  <2> QED BY <2>1, <2>2 DEF last
<1>4. \A n \in Nat : n <= L => f[n] = e[n]
  BY <1>1, <1>3, RunsEndSame
<1>5. /\ Len(written) = Len(code) /\ e[L] = Len(code)
      /\ \A n \in 1..L : \A i \in (e[n - 1] + 1)..e[n] :
           written[i] = lines[n].lineNumber
      /\ \A n \in 2..L : lines[n].lineNumber # lines[n - 1].lineNumber
  BY DEF RunsOK, LinesAreKept
<1>6. /\ Len(code') = Len(code) + Len(bytes)
      /\ Len(written') = Len(written) + Len(bytes)
      /\ \A i \in 1..Len(written) : written'[i] = written[i]
      /\ \A i \in 1..Len(bytes) : written'[Len(written) + i] = line
      /\ Len(code) \in Nat
  BY BytesWritten DEF BytesOK
<1>7. f[L + 1] = Len(code')
  <2>1. f[L + 1] = f[L] + lines'[L + 1].repeats
    BY <1>1, RunsEndNext
  <2>2. f[L] = Len(code)
    BY <1>1, <1>4, <1>5
  <2> HIDE DEF e, f
  <2> QED BY <1>3, <1>6, <2>1, <2>2
<1>8. /\ \A n \in Nat : n <= L => e[n] \in Nat /\ e[n] <= e[L]
  BY <1>1, RunsEndGrows, RunsEndBefore
<1> HIDE DEF e, f, last
<1>9. ASSUME NEW n \in 1..(L + 1), NEW i \in (f[n - 1] + 1)..f[n]
      PROVE  written'[i] = lines'[n].lineNumber
  <2>1. CASE n <= L
    <3>1. n - 1 \in Nat /\ n \in Nat /\ n - 1 <= L /\ n \in 1..L
      BY <2>1
    <3>2. f[n - 1] = e[n - 1] /\ f[n] = e[n]
      BY <1>4, <2>1, <3>1
    <3>3. written[i] = lines[n].lineNumber
      BY <1>5, <3>1, <3>2
    <3>4. i \in 1..Len(written)
      BY <1>5, <1>8, <2>1, <3>1, <3>2
    <3> QED BY <1>3, <1>6, <3>1, <3>3, <3>4
  <2>2. CASE n = L + 1
    <3>1. f[n - 1] = Len(written) /\ f[n] = Len(written) + Len(bytes)
      BY <1>1, <1>4, <1>5, <1>6, <1>7, <2>2
    <3>2. i - Len(written) \in 1..Len(bytes)
          /\ Len(written) + (i - Len(written)) = i
      BY <1>1, <1>5, <1>6, <3>1
    <3>3. written'[i] = line
      BY <1>6, <3>2
    <3> QED BY <1>3, <2>2, <3>3
  <2> QED BY <1>1, <2>1, <2>2
<1>10. ASSUME NEW n \in 2..(L + 1)
       PROVE  lines'[n].lineNumber # lines'[n - 1].lineNumber
  <2>1. CASE n <= L
    <3>1. n \in 2..L /\ n \in 1..L /\ n - 1 \in 1..L
      BY <1>1, <2>1
    <3> QED BY <1>3, <1>5, <3>1
  <2>2. CASE n = L + 1
    <3>1. L \in 1..L /\ lines # <<>> /\ n - 1 = L
      BY <1>1, <2>2
    <3>2. lines[L].lineNumber # line
      BY <3>1
    <3> QED BY <1>3, <2>2, <3>1, <3>2
  <2> QED BY <1>1, <2>1, <2>2
<1>11. LinesAreKept'
  BY <1>3, <1>5, <1>6, <1>7, <1>9, <1>10 DEF LinesAreKept, f
<1> QED BY <1>3, <1>11 DEF RunsOK

(* The last run goes on.                                                   *)
LEMMA RunContinued ==
  ASSUME BytesOK, RunsOK, NEW bytes \in Seq(Byte) \ {<<>>}, NEW line \in Line,
         WriteBytes(bytes, line),
         lines # <<>>, lines[Len(lines)].lineNumber = line
  PROVE  RunsOK'
<1> DEFINE e == RunsEnd(lines)
           f == RunsEnd(lines')
           L == Len(lines)
<1>1. lines \in Seq(Run) /\ L \in Nat \ {0} /\ Len(bytes) \in Nat \ {0}
  BY DEF RunsOK
<1>2. lines' = [lines EXCEPT ![L].repeats = @ + Len(bytes)]
  BY DEF WriteBytes, NumberWritten
<1>3. /\ lines' \in Seq(Run) /\ Len(lines') = L
      /\ \A n \in 1..(L - 1) : lines'[n].repeats = lines[n].repeats
      /\ \A n \in 1..L : lines'[n].lineNumber = lines[n].lineNumber
      /\ lines'[L].repeats = lines[L].repeats + Len(bytes)
      /\ lines[L].repeats \in Nat
  <2>1. \A n \in 1..L : lines[n] \in Run
    BY <1>1
  <2> DEFINE last == [lines[L] EXCEPT !.repeats = @ + Len(bytes)]
  <2>2. lines[L] \in [lineNumber : Line, repeats : Nat \ {0}]
    BY <1>1, <2>1 DEF Run
  <2>3. /\ last \in Run /\ last.lineNumber = lines[L].lineNumber
        /\ last.repeats = lines[L].repeats + Len(bytes)
        /\ lines[L].repeats \in Nat
    BY <1>1, <2>2 DEF Run
  <2>4. lines' = [lines EXCEPT ![L] = last]
    BY <1>1, <1>2
  <2> HIDE DEF last
  <2>5. /\ lines' \in Seq(Run) /\ Len(lines') = L /\ lines'[L] = last
        /\ \A n \in 1..L : n # L => lines'[n] = lines[n]
    BY <1>1, <2>3, <2>4
  <2> QED BY <1>1, <2>3, <2>5
<1>4. \A n \in Nat : n <= L - 1 => f[n] = e[n]
  <2>1. L - 1 \in Nat
    BY <1>1
  <2> QED BY <1>3, <2>1, RunsEndSame
<1>5. /\ Len(written) = Len(code) /\ e[L] = Len(code)
      /\ \A n \in 1..L : \A i \in (e[n - 1] + 1)..e[n] :
           written[i] = lines[n].lineNumber
      /\ \A n \in 2..L : lines[n].lineNumber # lines[n - 1].lineNumber
  BY DEF RunsOK, LinesAreKept
<1>6. /\ Len(code') = Len(code) + Len(bytes)
      /\ Len(written') = Len(written) + Len(bytes)
      /\ \A i \in 1..Len(written) : written'[i] = written[i]
      /\ \A i \in 1..Len(bytes) : written'[Len(written) + i] = line
      /\ Len(code) \in Nat
  BY BytesWritten DEF BytesOK
<1>7. \A n \in Nat : n <= L => e[n] \in Nat /\ e[n] <= e[L]
  BY <1>1, RunsEndGrows, RunsEndBefore
<1>8. f[L] = Len(code')
  <2>1. L - 1 \in Nat /\ (L - 1) + 1 = L
    BY <1>1
  <2>2. /\ f[(L - 1) + 1] = f[L - 1] + lines'[(L - 1) + 1].repeats
        /\ e[(L - 1) + 1] = e[L - 1] + lines[(L - 1) + 1].repeats
    BY <2>1, RunsEndNext
  <2>3. f[L - 1] = e[L - 1] /\ e[L - 1] \in Nat
    BY <1>4, <1>7, <2>1
  <2> HIDE DEF e, f
  <2>4. f[L] = e[L - 1] + (lines[L].repeats + Len(bytes))
    BY <1>3, <2>1, <2>2, <2>3
  <2>5. Len(code) = e[L - 1] + lines[L].repeats
    BY <1>5, <2>1, <2>2
  <2> QED BY <1>1, <1>3, <1>6, <2>3, <2>4, <2>5
<1> HIDE DEF e, f
<1>9. ASSUME NEW n \in 1..L, NEW i \in (f[n - 1] + 1)..f[n]
      PROVE  written'[i] = lines'[n].lineNumber
  <2>1. n - 1 \in Nat /\ n - 1 <= L - 1 /\ n - 1 <= L
    BY <1>1
  <2>2. f[n - 1] = e[n - 1] /\ e[n - 1] \in Nat
    BY <1>4, <1>7, <2>1
  <2>3. i \in Nat \ {0} /\ i >= e[n - 1] + 1
    <3>1. f[n] \in Int
      <4>1. CASE n = L
        BY <1>1, <1>6, <1>8, <4>1
      <4>2. CASE n # L
        BY <1>1, <1>4, <1>7, <4>2
      <4> QED BY <4>1, <4>2
    <3> QED BY <2>2, <3>1
  <2>4. CASE i <= e[n]
    <3>1. e[n] \in Nat /\ e[n] <= Len(written)
      BY <1>1, <1>5, <1>7
    <3>2. i \in (e[n - 1] + 1)..e[n] /\ i \in 1..Len(written)
      BY <1>5, <1>6, <2>2, <2>3, <2>4, <3>1
    <3>3. written'[i] = written[i] /\ written[i] = lines[n].lineNumber
      BY <1>5, <1>6, <3>2
    <3> QED BY <1>3, <3>3
  <2>5. CASE ~(i <= e[n])
    <3>1. n = L
      <4> SUFFICES ASSUME n # L PROVE FALSE
        OBVIOUS
      <4>1. f[n] = e[n] /\ e[n] \in Nat
        BY <1>1, <1>4, <1>7
      <4> QED BY <2>2, <2>5, <4>1
    <3>2. f[n] = Len(written) + Len(bytes) /\ e[n] = Len(written)
      BY <1>5, <1>6, <1>8, <3>1
    <3> DEFINE k == i - Len(written)
    <3>3. k \in 1..Len(bytes) /\ Len(written) + k = i
      BY <1>1, <1>5, <1>6, <2>2, <2>3, <2>5, <3>2
    <3> HIDE DEF k
    <3>4. written'[Len(written) + k] = line
      BY <1>6, <3>3
    <3> QED BY <1>3, <3>1, <3>3, <3>4
  <2> QED BY <2>4, <2>5
<1>10. \A n \in 2..L : lines'[n].lineNumber # lines'[n - 1].lineNumber
  <2> SUFFICES ASSUME NEW n \in 2..L
               PROVE  lines'[n].lineNumber # lines'[n - 1].lineNumber
    OBVIOUS
  <2>1. n \in 1..L /\ n - 1 \in 1..L
    BY <1>1
  <2> QED BY <1>3, <1>5, <2>1
<1>11. LinesAreKept'
  BY <1>3, <1>5, <1>6, <1>8, <1>9, <1>10 DEF LinesAreKept, f
<1> QED BY <1>3, <1>11 DEF RunsOK

(* Whatever the line is, the runs are right again.                         *)
LEMMA RunsWritten ==
  ASSUME BytesOK, RunsOK, NEW bytes \in Seq(Byte) \ {<<>>}, NEW line \in Line,
         WriteBytes(bytes, line)
  PROVE  RunsOK'
BY RunBegun, RunContinued

(* Bytes that are added leave the instruction before them as it is.        *)
LEMMA InstructionKept ==
  ASSUME BytesOK, InstructionOK, instruction' = instruction,
         Len(code') \in Nat, Len(code) <= Len(code'),
         \A i \in 1..Len(code) : code'[i] = code[i]
  PROVE  InstructionOK'
<1>1. /\ instruction \in SUBSET Instructions /\ Len(code) \in Nat
      /\ \A i \in instruction :
           /\ i.at \in 1..(Len(code) - 1)
           /\ code[i.at] # OP_CONSTANT => i.at + 3 <= Len(code)
  BY DEF InstructionOK, BytesOK
<1>2. ASSUME NEW i \in instruction
      PROVE  /\ i.at \in 1..(Len(code') - 1)
             /\ code'[i.at] # OP_CONSTANT => i.at + 3 <= Len(code')
             /\ ReadIndex(i.at)' = ReadIndex(i.at)
  <2>1. /\ i.at \in 1..(Len(code) - 1) /\ i.at \in 1..Len(code)
        /\ i.at + 1 \in 1..Len(code)
    BY <1>1
  <2>2. code'[i.at] = code[i.at] /\ code'[i.at + 1] = code[i.at + 1]
    BY <2>1
  <2>3. code[i.at] # OP_CONSTANT =>
          /\ code'[i.at + 2] = code[i.at + 2]
          /\ code'[i.at + 3] = code[i.at + 3]
    <3> SUFFICES ASSUME code[i.at] # OP_CONSTANT
                 PROVE  /\ code'[i.at + 2] = code[i.at + 2]
                        /\ code'[i.at + 3] = code[i.at + 3]
      OBVIOUS
    <3>1. i.at + 2 \in 1..Len(code) /\ i.at + 3 \in 1..Len(code)
      BY <1>1, <2>1
    <3> QED BY <3>1
  <2>4. ReadIndex(i.at)' = ReadIndex(i.at)
    BY <2>2, <2>3 DEF ReadIndex
  <2> QED BY <1>1, <2>1, <2>2, <2>4
<1>3. IndexIsRead'
  BY <1>2 DEF InstructionOK, IndexIsRead
<1> QED BY <1>1, <1>2, <1>3 DEF InstructionOK

(* What these bytes of an instruction are read as.                         *)
IndexIn(bytes) ==
  IF bytes[1] = OP_CONSTANT THEN bytes[2]
  ELSE (bytes[2] * Base + bytes[3]) * Base + bytes[4]

(* A new instruction, whose bytes are right.                               *)
LEMMA InstructionWritten ==
  ASSUME IInv, NEW v \in Value, NEW line \in Line, NEW bytes \in Seq(Byte),
         NEW by \in {"writeConstant", "emitConstant"},
         WriteInstruction(v, line, by, bytes),
         \/ Len(bytes) = 2 /\ bytes[1] = OP_CONSTANT
         \/ Len(bytes) = 4 /\ bytes[1] = OP_CONSTANT_LONG,
         \/ by = "writeConstant" /\ AddedIndex < Weight(3)
         \/ AddedIndex < Base - 1
         => IndexIn(bytes) = AddedIndex
  PROVE  IInv'
<1>1. WriteBytes(bytes, line) /\ bytes \in Seq(Byte) \ {<<>>}
  BY DEF WriteInstruction
<1>2. /\ code' \in Seq(Byte) /\ Len(code') <= MaxCode /\ written' \in Seq(Line)
      /\ Len(code') = Len(code) + Len(bytes)
      /\ \A i \in 1..Len(bytes) : code'[Len(code) + i] = bytes[i]
  BY <1>1, BytesWritten DEF IInv
<1>3. BytesOK'
  <2>1. constants' = Append(constants, v) /\ Len(constants) < MaxConstants
    BY DEF WriteInstruction, AddConstant
  <2>2. MaxConstants \in Nat
    BY ChunkAssumption
  <2> QED BY <1>2, <2>1, <2>2 DEF IInv, BytesOK
<1>4. RunsOK'
  BY <1>1, RunsWritten DEF IInv
<1>5. PICK at : at = Len(code) + 1
  OBVIOUS
<1>6. PICK index : index = AddedIndex
  OBVIOUS
<1>7. PICK new : new = [at |-> at, constant |-> v, index |-> index, by |-> by]
  OBVIOUS
<1>8. /\ instruction' = {new} /\ new \in Instructions
      /\ new.at = at /\ new.by = by /\ new.index = index
  <2>1. Len(code) \in Nat /\ AddedIndex \in Nat
    BY DEF IInv, BytesOK, RunsOK, AddedIndex
  <2>2. instruction' = {new}
    BY <1>5, <1>6, <1>7 DEF WriteInstruction
  <2>3. at \in Nat /\ index \in Nat
    BY <1>5, <1>6, <2>1
  <2> QED BY <1>7, <2>2, <2>3 DEF Instructions
<1>9. /\ at \in 1..(Len(code') - 1)
      /\ code'[at] = bytes[1] /\ code'[at + 1] = bytes[2]
      /\ Len(bytes) = 4 => /\ at + 3 <= Len(code')
                           /\ code'[at + 2] = bytes[3]
                           /\ code'[at + 3] = bytes[4]
  <2>1. Len(code) \in Nat /\ (Len(bytes) = 2 \/ Len(bytes) = 4)
    BY DEF IInv, BytesOK
  <2>2. 1 \in 1..Len(bytes) /\ 2 \in 1..Len(bytes)
    <3>1. 1 \in 1..2 /\ 2 \in 1..2 /\ 1 \in 1..4 /\ 2 \in 1..4
      OBVIOUS
    <3> QED BY ONLY <2>1, <3>1
  <2>3. /\ at = Len(code) + 1 /\ at + 1 = Len(code) + 2
        /\ at + 2 = Len(code) + 3 /\ at + 3 = Len(code) + 4
    BY <1>5, <2>1
  <2>4. Len(bytes) = 4 => 3 \in 1..Len(bytes) /\ 4 \in 1..Len(bytes)
    OBVIOUS
  <2>5. at \in 1..(Len(code') - 1) /\ (Len(bytes) = 4 => at + 3 <= Len(code'))
    <3>1. /\ Len(code') = Len(code) + Len(bytes) /\ at = Len(code) + 1
          /\ Len(code) \in Nat
      BY <1>2, <2>1, <2>3
    <3>2. CASE Len(bytes) = 2
      BY ONLY <3>1, <3>2
    <3>3. CASE Len(bytes) = 4
      BY ONLY <3>1, <3>3
    <3> QED BY <2>1, <3>2, <3>3
  <2> QED BY <1>2, <2>2, <2>3, <2>4, <2>5
<1>10. OP_CONSTANT # OP_CONSTANT_LONG
  BY DEF OP_CONSTANT, OP_CONSTANT_LONG
<1>11. ReadIndex(at)' = IndexIn(bytes)
  <2>1. bytes[1] # OP_CONSTANT => Len(bytes) = 4
    BY <1>10
  <2> QED BY <1>9, <2>1 DEF ReadIndex, IndexIn
<1>12. IndexIsRead'
  <2>1. ASSUME NEW i \in instruction',
               \/ i.by = "writeConstant" /\ i.index < Weight(3)
               \/ i.index < Base - 1
        PROVE  ReadIndex(i.at)' = i.index
    <3>1. i.at = at /\ i.by = by /\ i.index = AddedIndex
      BY <1>6, <1>8
    <3>2. IndexIn(bytes) = AddedIndex
      BY <2>1, <3>1
    <3> QED BY <1>11, <3>1, <3>2
  <2> QED BY <2>1 DEF IndexIsRead
<1>13. InstructionOK'
  <2>1. \A i \in instruction' :
          /\ i.at \in 1..(Len(code') - 1)
          /\ code'[i.at] # OP_CONSTANT => i.at + 3 <= Len(code')
    <3>1. bytes[1] # OP_CONSTANT => Len(bytes) = 4
      BY <1>10
    <3> QED BY <1>8, <1>9, <3>1
  <2> QED BY <1>8, <1>12, <2>1 DEF InstructionOK
<1> QED BY <1>3, <1>4, <1>13 DEF IInv
-----------------------------------------------------------------------------
(* The operations. *)

(* One byte. *)
LEMMA WriteChunkStep ==
  ASSUME IInv, NEW byte \in Byte, NEW line \in Line, WriteChunk(byte, line)
  PROVE  IInv'
<1>1. WriteBytes(<<byte>>, line) /\ constants' = constants
      /\ instruction' = instruction
  BY DEF WriteChunk
<1>2. <<byte>> \in Seq(Byte) \ {<<>>} /\ Len(<<byte>>) = 1
  OBVIOUS
<1>3. /\ code' \in Seq(Byte) /\ Len(code') <= MaxCode /\ written' \in Seq(Line)
      /\ Len(code') = Len(code) + 1
      /\ \A i \in 1..Len(code) : code'[i] = code[i]
  BY <1>1, <1>2, BytesWritten DEF IInv
<1>4. BytesOK'
  BY <1>1, <1>3 DEF IInv, BytesOK
<1>5. RunsOK'
  BY <1>1, <1>2, RunsWritten DEF IInv
<1>6. InstructionOK'
  <2>1. Len(code) \in Nat /\ Len(code) <= Len(code') /\ Len(code') \in Nat
    BY <1>3 DEF IInv, BytesOK
  <2> QED BY <1>1, <1>3, <2>1, InstructionKept DEF IInv
<1> QED BY <1>4, <1>5, <1>6 DEF IInv

(* The opcodes and indices are bytes.                                      *)
LEMMA SmallBytes ==
  /\ OP_CONSTANT \in Byte /\ OP_CONSTANT_LONG \in Byte
  /\ \A a \in Nat : a % Base \in Byte /\ (a < Base => a % Base = a)
BY Weights DEF Byte, OP_CONSTANT, OP_CONSTANT_LONG

(* writeConstant, with one byte or with three.                             *)
LEMMA WriteConstantStep ==
  ASSUME IInv, NEW v \in Value, NEW line \in Line, WriteConstant(v, line)
  PROVE  IInv'
<1>1. AddedIndex \in Nat /\ Base \in Nat /\ Base >= 2
  BY Weights DEF IInv, RunsOK, AddedIndex
<1>2. CASE AddedIndex >= Base
  <2> DEFINE b(n) == NthByte(AddedIndex, n)
             bytes == <<OP_CONSTANT_LONG, b(2), b(1), b(0)>>
  <2>1. WriteInstruction(v, line, "writeConstant", bytes)
    BY <1>2 DEF WriteConstant
  <2>2. b(2) \in Byte /\ b(1) \in Byte /\ b(0) \in Byte
    BY <1>1, NthByteIsByte
  <2>3. AddedIndex < Weight(3) =>
          (b(2) * Base + b(1)) * Base + b(0) = AddedIndex
    BY <1>1, ThreeBytes
  <2> HIDE DEF b
  <2>4. bytes \in Seq(Byte) /\ Len(bytes) = 4 /\ bytes[1] = OP_CONSTANT_LONG
    BY <2>2, SmallBytes
  <2>5. AddedIndex < Weight(3) => IndexIn(bytes) = AddedIndex
    BY <2>3 DEF IndexIn, OP_CONSTANT, OP_CONSTANT_LONG
  <2>6. ~(AddedIndex < Base - 1)
    BY <1>1, <1>2
  <2> HIDE DEF bytes
  <2> QED BY <2>1, <2>4, <2>5, <2>6, InstructionWritten
<1>3. CASE ~(AddedIndex >= Base)
  <2> DEFINE bytes == <<OP_CONSTANT, AddedIndex % Base>>
  <2>1. WriteInstruction(v, line, "writeConstant", bytes)
    BY <1>3 DEF WriteConstant
  <2>2. bytes \in Seq(Byte) /\ Len(bytes) = 2 /\ bytes[1] = OP_CONSTANT
    BY <1>1, SmallBytes
  <2>3. IndexIn(bytes) = AddedIndex
    BY <1>1, <1>3, SmallBytes DEF IndexIn
  <2> HIDE DEF bytes
  <2> QED BY <2>1, <2>2, <2>3, InstructionWritten
<1> QED BY <1>2, <1>3

(* emitConstant, whose three bytes are only bytes.                         *)
LEMMA EmitConstantStep ==
  ASSUME IInv, NEW v \in Value, NEW line \in Line, EmitConstant(v, line)
  PROVE  IInv'
<1>1. AddedIndex \in Nat /\ Base \in Nat /\ Base >= 2
  BY Weights DEF IInv, RunsOK, AddedIndex
<1>2. CASE AddedIndex < Base - 1
  <2> DEFINE bytes == <<OP_CONSTANT, AddedIndex>>
  <2>1. WriteInstruction(v, line, "emitConstant", bytes)
    BY <1>2 DEF EmitConstant
  <2>2. AddedIndex \in Byte
    BY <1>1, <1>2 DEF Byte
  <2>3. bytes \in Seq(Byte) /\ Len(bytes) = 2 /\ bytes[1] = OP_CONSTANT
    BY <2>2, SmallBytes
  <2>4. IndexIn(bytes) = AddedIndex
    BY DEF IndexIn
  <2> HIDE DEF bytes
  <2> QED BY <2>1, <2>3, <2>4, InstructionWritten
<1>3. CASE ~(AddedIndex < Base - 1) /\ AddedIndex < Weight(3)
  <2> DEFINE b(n) == NthByte(AddedIndex, n)
             bytes == <<OP_CONSTANT_LONG, b(1), b(2), b(3)>>
  <2>1. WriteInstruction(v, line, "emitConstant", bytes)
    BY <1>3 DEF EmitConstant
  <2>2. b(1) \in Byte /\ b(2) \in Byte /\ b(3) \in Byte
    BY <1>1, NthByteIsByte
  <2> HIDE DEF b
  <2>3. bytes \in Seq(Byte) /\ Len(bytes) = 4 /\ bytes[1] = OP_CONSTANT_LONG
    BY <2>2, SmallBytes
  <2> HIDE DEF bytes
  <2> QED BY <1>3, <2>1, <2>3, InstructionWritten
<1>4. CASE ~(AddedIndex < Base - 1) /\ ~(AddedIndex < Weight(3))
  <2> DEFINE bytes == <<OP_CONSTANT, 0>>
  <2>1. WriteInstruction(v, line, "emitConstant", bytes)
    BY <1>4 DEF EmitConstant
  <2>2. bytes \in Seq(Byte) /\ Len(bytes) = 2 /\ bytes[1] = OP_CONSTANT
    BY <1>1, SmallBytes DEF Byte
  <2> HIDE DEF bytes
  <2> QED BY <1>4, <2>1, <2>2, InstructionWritten
<1> QED BY <1>2, <1>3, <1>4

(* freeChunk, after which nothing is left.                                 *)
LEMMA FreeChunkStep == ASSUME FreeChunk PROVE IInv'
<1>1. /\ code' = <<>> /\ lines' = <<>> /\ constants' = <<>>
      /\ written' = <<>> /\ instruction' = {}
  BY DEF FreeChunk
<1>2. RunsEnd(lines')[Len(lines')] = 0
  BY <1>1, RunsEndNext
<1>3. RunsOK'
  BY <1>1, <1>2 DEF RunsOK, LinesAreKept
<1>4. BytesOK'
  BY <1>1, ChunkAssumption DEF BytesOK
<1>5. InstructionOK'
  BY <1>1 DEF InstructionOK, IndexIsRead
<1> QED BY <1>3, <1>4, <1>5 DEF IInv

(***************************************************************************)
(* The inductive invariant: the runs are the lines of the bytes, and an    *)
(* instruction is in the code with all its bytes, from which its index can *)
(* be read.                                                                *)
(***************************************************************************)
THEOREM Invariant == Spec => []IInv
<1>1. Init => IInv
  <2> SUFFICES ASSUME Init PROVE IInv
    OBVIOUS
  <2>1. /\ code = <<>> /\ lines = <<>> /\ constants = <<>>
        /\ written = <<>> /\ instruction = {}
    BY DEF Init
  <2>2. RunsEnd(lines)[Len(lines)] = 0
    BY <2>1, RunsEndNext
  <2>3. RunsOK
    BY <2>1, <2>2 DEF RunsOK, LinesAreKept
  <2>4. BytesOK
    BY <2>1, ChunkAssumption DEF BytesOK
  <2>5. InstructionOK
    BY <2>1 DEF InstructionOK, IndexIsRead
  <2> QED BY <2>3, <2>4, <2>5 DEF IInv
<1>2. IInv /\ [Next]_vars => IInv'
  <2> SUFFICES ASSUME IInv, [Next]_vars PROVE IInv'
    OBVIOUS
  <2>1. ASSUME NEW line \in Line, NEW byte \in Byte, WriteChunk(byte, line)
        PROVE  IInv'
    BY <2>1, WriteChunkStep
  <2>2. ASSUME NEW line \in Line, NEW v \in Value, WriteConstant(v, line)
        PROVE  IInv'
    BY <2>2, WriteConstantStep
  <2>3. ASSUME NEW line \in Line, NEW v \in Value, EmitConstant(v, line)
        PROVE  IInv'
    BY <2>3, EmitConstantStep
  <2>4. CASE FreeChunk
    BY <2>4, FreeChunkStep
  <2>5. CASE UNCHANGED vars
    <3>1. \A at : ReadIndex(at)' = ReadIndex(at)
      BY <2>5 DEF vars, ReadIndex
    <3>2. IndexIsRead'
      BY <2>5, <3>1 DEF IInv, InstructionOK, IndexIsRead, vars
    <3>3. InstructionOK'
      BY <2>5, <3>2 DEF IInv, InstructionOK, vars
    <3>4. BytesOK' /\ RunsOK'
      BY <2>5 DEF vars, IInv, BytesOK, RunsOK, LinesAreKept
    <3> QED BY <3>3, <3>4 DEF IInv
  <2> QED BY <2>1, <2>2, <2>3, <2>4, <2>5 DEF Next
<1> QED BY <1>1, <1>2, PTL DEF Spec

(***************************************************************************)
(* The run lengths are the lines that the bytes were written with.         *)
(***************************************************************************)
THEOREM LinesAreTheBytes == Spec => []LinesAreKept
<1>1. IInv => LinesAreKept
  BY DEF IInv, RunsOK
<1> QED BY <1>1, Invariant, PTL

(***************************************************************************)
(* What writeConstant writes in one byte or in three, whatever a byte is,  *)
(* the VM reads as the index it was given.                                 *)
(***************************************************************************)
THEOREM IndicesAreRead == Spec => []IndexIsRead
<1>1. IInv => IndexIsRead
  BY DEF IInv, InstructionOK
<1> QED BY <1>1, Invariant, PTL

(***************************************************************************)
(* Every field of a chunk keeps its type, and no run is longer than the    *)
(* code.                                                                   *)
(***************************************************************************)
THEOREM TypeCorrect == Spec => []TypeOK
<1>1. IInv => TypeOK
  <2> SUFFICES ASSUME IInv PROVE TypeOK
    OBVIOUS
  <2>1. lines \in Seq(Run) /\ Len(code) <= MaxCode /\ MaxCode \in Nat
    BY ChunkAssumption DEF IInv, RunsOK, BytesOK
  <2>2. ASSUME NEW n \in 1..Len(lines)
        PROVE  lines[n] \in [lineNumber : Line, repeats : 1..MaxCode]
    <3> DEFINE e == RunsEnd(lines)
    <3>1. n - 1 \in Nat /\ (n - 1) + 1 = n /\ n - 1 <= Len(lines)
      OBVIOUS
    <3>2. e[(n - 1) + 1] = e[n - 1] + lines[(n - 1) + 1].repeats
      BY <3>1, RunsEndNext
    <3>3. e[n - 1] \in Nat /\ e[n] <= e[Len(lines)]
      BY <2>1, <3>1, RunsEndGrows, RunsEndBefore
    <3>4. e[Len(lines)] = Len(code) /\ Len(code) \in Nat
      BY DEF IInv, RunsOK, LinesAreKept, BytesOK
    <3> HIDE DEF e
    <3>5. lines[n] \in [lineNumber : Line, repeats : Nat \ {0}]
      <4>1. lines[n] \in Run
        BY <2>1
      <4> QED BY <4>1 DEF Run
    <3>6. lines[n].repeats \in 1..MaxCode
      BY <2>1, <3>1, <3>2, <3>3, <3>4, <3>5
    <3> QED BY <3>5, <3>6
  <2>3. lines \in Seq([lineNumber : Line, repeats : 1..MaxCode])
    <3> DEFINE T == [lineNumber : Line, repeats : 1..MaxCode]
    <3>1. \A n \in 1..Len(lines) : lines[n] \in T
      BY <2>2
    <3> HIDE DEF T
    <3>2. lines \in Seq(T)
      BY <2>1, <3>1
    <3> QED BY <3>2 DEF T
  <2> QED BY <2>3 DEF IInv, BytesOK, InstructionOK, TypeOK
<1> QED BY <1>1, Invariant, PTL

(***************************************************************************)
(* getLine (chunk.c) stays in its array for every offset into the code,    *)
(* although its loop is bounded by the number of bytes instead of that of  *)
(* the runs.  The line it gives is not the one that chunk.h:97-100         *)
(* promises, of the byte at the offset, but that of the byte before it.    *)
(***************************************************************************)
GetLineIsLate ==
  \A offset \in 0..(Len(code) - 1) :
    /\ RunsTo(offset) # {}
    /\ GetLine(offset) = written[IF offset = 0 THEN 1 ELSE offset]

(* At the first byte of a line getLine still gives the line before.        *)
THEOREM GetLineIsOffByOne == Spec => []GetLineIsLate
<1>1. IInv => GetLineIsLate
  <2> SUFFICES ASSUME IInv, NEW offset \in 0..(Len(code) - 1)
               PROVE  /\ RunsTo(offset) # {}
                      /\ GetLine(offset) = written[IF offset = 0 THEN 1 ELSE offset]
    BY DEF GetLineIsLate
  <2> DEFINE e == RunsEnd(lines)
             L == Len(lines)
             m == Min(RunsTo(offset))
  <2>1. /\ lines \in Seq(Run) /\ L \in Nat /\ Len(code) \in Nat
        /\ e[L] = Len(code) /\ e[0] = 0
        /\ \A n \in 1..L : \A i \in (e[n - 1] + 1)..e[n] :
             written[i] = lines[n].lineNumber
    BY RunsEndNext DEF IInv, RunsOK, BytesOK, LinesAreKept
  <2>2. /\ \A n \in Nat : n <= L => e[n] \in Nat
        /\ \A n \in Nat : n < L => e[n] < e[n + 1]
    BY <2>1, RunsEndGrows
  <2>3. \A n : n \in RunsTo(offset) <=> n \in 1..L /\ e[n] >= offset
    BY DEF RunsTo
  <2> HIDE DEF e
  <2>4. L \in 1..L /\ lines # <<>>
    <3>1. L # 0
      BY <2>1
    <3> QED BY <2>1, <3>1
  <2>5. L \in RunsTo(offset)
    BY <2>1, <2>3, <2>4
  <2>6. RunsTo(offset) # {} /\ RunsTo(offset) \subseteq Nat
    BY <2>3, <2>5
  <2>7. m \in RunsTo(offset) /\ \A n \in RunsTo(offset) : m <= n
    BY <2>6, MinIsLeast
  <2>8. GetLine(offset) = lines[m].lineNumber
    BY <2>4 DEF GetLine
  <2> HIDE DEF m
  <2>9. m \in 1..L /\ e[m] >= offset /\ m - 1 \in Nat /\ m - 1 < L
        /\ (m - 1) + 1 = m
    BY <2>1, <2>3, <2>7
  <2>10. e[m - 1] \in Nat /\ e[m] \in Nat /\ e[m - 1] < e[m]
    BY <2>1, <2>2, <2>9
  <2>11. CASE offset = 0
    <3>1. m = 1
      <4>1. 1 \in 1..L /\ e[1] >= 0
        BY <2>1, <2>2, <2>9
      <4> QED BY <2>3, <2>7, <2>9, <2>11, <4>1
    <3>2. 1 \in (e[m - 1] + 1)..e[m]
      BY <2>1, <2>10, <3>1
    <3> QED BY <2>1, <2>6, <2>8, <2>9, <2>11, <3>2
  <2>12. CASE offset # 0
    <3>1. e[m - 1] < offset
      <4>1. CASE m = 1
        BY <2>1, <2>12, <4>1
      <4>2. CASE m # 1
        <5>1. m - 1 \in 1..L
          BY <2>9, <4>2
        <5>2. m - 1 \notin RunsTo(offset)
          BY <2>7, <2>9
        <5> QED BY <2>3, <2>10, <5>1, <5>2
      <4> QED BY <4>1, <4>2
    <3>2. offset \in (e[m - 1] + 1)..e[m]
      BY <2>1, <2>9, <2>10, <3>1
    <3> QED BY <2>1, <2>6, <2>8, <2>9, <2>12, <3>2
  <2> QED BY <2>11, <2>12
<1> QED BY <1>1, Invariant, PTL
=============================================================================
