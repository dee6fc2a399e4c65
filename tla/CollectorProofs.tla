-------------------------- MODULE CollectorProofs --------------------------
(***************************************************************************)
(* Proofs about Collector, for every set of addresses, every bound and     *)
(* every choice of types: IInv is an inductive invariant, and what follows *)
(* from it.                                                                *)
(***************************************************************************)
EXTENDS Collector, SequencesExt, FiniteSetTheorems, SequenceTheorems, TLAPS

-----------------------------------------------------------------------------
(* Facts about graphs, and about the sequences that hold objects.          *)

(* The elements of a concatenation.                                        *)
LEMMA ConcatParts ==
  ASSUME NEW s \in Seq(Value), NEW t \in Seq(Value)
  PROVE  /\ s \o t \in Seq(Value)
         /\ Len(s \o t) = Len(s) + Len(t)
         /\ \A i \in 1..Len(s) : (s \o t)[i] = s[i]
         /\ \A i \in 1..Len(t) : (s \o t)[Len(s) + i] = t[i]
BY ConcatProperties

(* A push adds what it pushes to what the stack points to.                 *)
LEMMA PointeesConcat ==
  ASSUME NEW s \in Seq(Value), NEW t \in Seq(Value)
  PROVE  Pointees(s \o t) = Pointees(s) \cup Pointees(t)
<1>1. /\ s \o t \in Seq(Value)
      /\ Len(s \o t) = Len(s) + Len(t)
      /\ \A i \in 1..Len(s) : (s \o t)[i] = s[i]
      /\ \A i \in 1..Len(t) : (s \o t)[Len(s) + i] = t[i]
  BY ConcatParts
<1> DEFINE u == s \o t
<1> HIDE DEF u
<1>2. ASSUME NEW i \in DOMAIN u PROVE u[i] \in {s[j] : j \in DOMAIN s} \cup {t[j] : j \in DOMAIN t}
  <2>1. CASE i <= Len(s)
    BY <1>1, <2>1 DEF u
  <2>2. CASE i > Len(s)
    <3>1. i - Len(s) \in 1..Len(t) /\ u[i] = t[i - Len(s)]
      BY <1>1, <2>2 DEF u
    <3> QED BY <3>1
  <2> QED BY <1>1, <2>1, <2>2 DEF u
<1>3. \A i \in DOMAIN s : i \in DOMAIN u /\ u[i] = s[i]
  BY <1>1 DEF u
<1>4. \A i \in DOMAIN t : Len(s) + i \in DOMAIN u /\ u[Len(s) + i] = t[i]
  BY <1>1 DEF u
<1>5. Pointees(u) = Pointees(s) \cup Pointees(t)
  BY <1>2, <1>3, <1>4 DEF Pointees
<1> QED BY <1>5 DEF u

(* The first of a concatenation, when there is exactly one before.        *)
LEMMA ConcatFirst ==
  ASSUME NEW s \in Seq(Value), NEW t \in Seq(Value), Len(s) = 1
  PROVE  /\ s \o t \in Seq(Value) /\ s \o t # <<>>
         /\ Len(s \o t) = 1 + Len(t) /\ (s \o t)[1] = s[1]
<1> DEFINE u == s \o t
<1>1. u \in Seq(Value) /\ Len(u) = Len(s) + Len(t) /\ Len(t) \in Nat
  BY ConcatProperties
<1>2. \A i \in 1..Len(s) : u[i] = s[i]
  BY ConcatProperties
<1>3. u # <<>>
  <2> HIDE DEF u
  <2> QED BY <1>1
<1>4. u[1] = s[1]
  <2> HIDE DEF u
  <2>1. 1 \in 1..Len(s)
    OBVIOUS
  <2> QED BY <1>2, <2>1
<1> QED BY <1>1, <1>3, <1>4

LEMMA PointeesSingle ==
  ASSUME NEW v
  PROVE  Pointees(<<v>>) = {v} \cap Obj
<1>1. DOMAIN <<v>> = {1} /\ <<v>>[1] = v
  OBVIOUS
<1> QED BY <1>1 DEF Pointees

LEMMA PointeesAppend ==
  ASSUME NEW s \in Seq(Value), NEW v \in Value
  PROVE  Pointees(Append(s, v)) = Pointees(s) \cup ({v} \cap Obj)
<1>1. Append(s, v) = s \o <<v>>
  BY AppendIsConcat
<1>2. <<v>> \in Seq(Value)
  OBVIOUS
<1> QED BY <1>1, <1>2, PointeesConcat, PointeesSingle

(* A pop only removes.                                                     *)
LEMMA PointeesPop ==
  ASSUME NEW s \in Seq(Value), NEW n \in Nat, n <= Len(s)
  PROVE  /\ SubSeq(s, 1, Len(s) - n) \in Seq(Value)
         /\ Len(SubSeq(s, 1, Len(s) - n)) = Len(s) - n
         /\ Pointees(SubSeq(s, 1, Len(s) - n)) \subseteq Pointees(s)
<1> DEFINE t == SubSeq(s, 1, Len(s) - n)
<1>1. t \in Seq(Value) /\ Len(t) = Len(s) - n /\ \A i \in DOMAIN t : i \in DOMAIN s /\ t[i] = s[i]
  OBVIOUS
<1> HIDE DEF t
<1>2. Pointees(t) \subseteq Pointees(s)
  BY <1>1 DEF Pointees
<1> QED BY <1>1, <1>2 DEF t

LEMMA PointeesTail ==
  ASSUME NEW s \in Seq(Value), s # <<>>
  PROVE  /\ Tail(s) \in Seq(Value)
         /\ Pointees(Tail(s)) \subseteq Pointees(s)
<1> DEFINE t == Tail(s)
<1>1. t \in Seq(Value) /\ \A i \in DOMAIN t : i + 1 \in DOMAIN s /\ t[i] = s[i + 1]
  OBVIOUS
<1> HIDE DEF t
<1>2. Pointees(t) \subseteq Pointees(s)
  BY <1>1 DEF Pointees
<1> QED BY <1>1, <1>2 DEF t

(* Nothing is behind the one element of a sequence, or only nils.          *)
LEMMA TailOfSingle ==
  ASSUME NEW s \in Seq(Value), Len(s) = 1
  PROVE  Pointees(Tail(s)) = {}
<1> DEFINE t == Tail(s)
<1>1. t \in Seq(Value) /\ Len(t) = 0
  <2>1. s # <<>>
    BY EmptySeq
  <2>2. t \in Seq(Value) /\ Len(t) = Len(s) - 1
    BY <2>1
  <2> QED BY <2>2
<1> HIDE DEF t
<1>2. DOMAIN t = {}
  BY <1>1
<1>3. Pointees(t) = {}
  BY <1>2 DEF Pointees
<1> QED BY <1>3 DEF t

LEMMA TailOfNils ==
  ASSUME NEW s \in Seq(Value), Len(s) = 1, NEW nils \in Seq(Value),
         \A i \in DOMAIN nils : nils[i] = Nil
  PROVE  Pointees(Tail(s \o nils)) = {}
<1>0. /\ s \o nils \in Seq(Value) /\ Len(s \o nils) = Len(s) + Len(nils)
      /\ \A i \in 1..Len(nils) : (s \o nils)[Len(s) + i] = nils[i]
  BY ConcatParts
<1> DEFINE u == s \o nils
           t == Tail(u)
<1>1. /\ u \in Seq(Value) /\ Len(u) = 1 + Len(nils) /\ Len(nils) \in Nat
      /\ \A i \in 1..Len(nils) : u[1 + i] = nils[i]
  <2> HIDE DEF u
  <2> QED BY <1>0 DEF u
<1> HIDE DEF u
<1>2. /\ t \in Seq(Value) /\ Len(t) = Len(nils)
      /\ \A i \in 1..Len(t) : t[i] = u[i + 1]
  BY <1>1
<1> HIDE DEF t
<1>3. DOMAIN t = 1..Len(t) /\ DOMAIN nils = 1..Len(nils)
  BY <1>2
<1>4. ASSUME NEW i \in DOMAIN t PROVE t[i] = Nil
  <2>1. i \in 1..Len(nils) /\ i + 1 = 1 + i
    BY <1>2, <1>3
  <2>2. t[i] = u[1 + i] /\ u[1 + i] = nils[i]
    BY <1>1, <1>2, <1>3, <2>1
  <2> QED BY <1>3, <2>1, <2>2
<1>5. Pointees(t) = {}
  BY <1>4, NilIsNoObject DEF Pointees
<1> QED BY <1>5 DEF t, u

(* What writing one field adds to what a sequence points to.               *)
LEMMA TailFilled ==
  ASSUME NEW old \in Seq(Value), NEW new \in Seq(Value), NEW u,
         old # <<>>, Len(new) = Len(old),
         \A j \in DOMAIN old : new[j] \in {u, old[j]}
  PROVE  Pointees(Tail(new)) \subseteq Pointees(Tail(old)) \cup {u}
<1> DEFINE a == Tail(new)
           b == Tail(old)
<1>1. Len(old) \in Nat \ {0} /\ DOMAIN old = 1..Len(old)
  OBVIOUS
<1>2. /\ a \in Seq(Value) /\ Len(a) = Len(old) - 1
      /\ \A j \in 1..Len(a) : a[j] = new[j + 1]
  <2>1. new # <<>>
    BY <1>1
  <2> QED BY <2>1
<1>3. /\ b \in Seq(Value) /\ Len(b) = Len(old) - 1
      /\ \A j \in 1..Len(b) : b[j] = old[j + 1]
  OBVIOUS
<1> HIDE DEF a, b
<1>4. DOMAIN a = 1..Len(a) /\ DOMAIN b = 1..Len(b)
  BY <1>2, <1>3
<1>5. ASSUME NEW j \in DOMAIN a PROVE j \in DOMAIN b /\ a[j] \in {u, b[j]}
  <2>1. j \in 1..Len(a) /\ j \in 1..Len(b) /\ j + 1 \in DOMAIN old
    BY <1>1, <1>2, <1>3, <1>4
  <2>2. a[j] = new[j + 1] /\ b[j] = old[j + 1]
    BY <1>2, <1>3, <2>1
  <2> QED BY <1>4, <2>1, <2>2
<1>6. Pointees(a) \subseteq Pointees(b) \cup {u}
  BY <1>5 DEF Pointees
<1> QED BY <1>6 DEF a, b

(* Linking a new object into vm.objects.                                   *)
LEMMA ToSetCons ==
  ASSUME NEW S, NEW s \in Seq(S), NEW o \in S
  PROVE  /\ <<o>> \o s \in Seq(S)
         /\ Len(<<o>> \o s) = Len(s) + 1
         /\ ToSet(<<o>> \o s) = {o} \cup ToSet(s)
         /\ IsInjective(s) /\ o \notin ToSet(s) => IsInjective(<<o>> \o s)
<1> DEFINE t == <<o>> \o s
<1>1. /\ t \in Seq(S) /\ Len(t) = Len(s) + 1 /\ t[1] = o
      /\ \A i \in 1..Len(s) : t[i + 1] = s[i]
  OBVIOUS
<1> HIDE DEF t
<1>2. \A j \in 2..Len(t) : j - 1 \in 1..Len(s) /\ t[j] = s[j - 1]
  BY <1>1
<1>3. ToSet(t) = {o} \cup ToSet(s)
  <2>1. \A j \in DOMAIN t : t[j] \in {o} \cup ToSet(s)
    BY <1>1, <1>2 DEF ToSet
  <2>2. 1 \in DOMAIN t /\ \A j \in DOMAIN s : j + 1 \in DOMAIN t
    BY <1>1
  <2> QED BY <1>1, <2>1, <2>2 DEF ToSet
<1>4. ASSUME IsInjective(s), o \notin ToSet(s) PROVE IsInjective(t)
  <2>1. \A j \in 2..Len(t) : t[j] # o
    BY <1>2, <1>4 DEF ToSet
  <2> SUFFICES ASSUME NEW i \in 1..Len(t), NEW j \in 1..Len(t), t[i] = t[j]
               PROVE  i = j
    BY <1>1 DEF IsInjective
  <2>2. CASE i = 1 \/ j = 1
    BY <1>1, <2>1, <2>2
  <2>3. CASE i # 1 /\ j # 1
    <3>1. i \in 2..Len(t) /\ j \in 2..Len(t)
      BY <1>1, <2>3
    <3>2. s[i - 1] = s[j - 1] /\ i - 1 \in DOMAIN s /\ j - 1 \in DOMAIN s
      BY <1>2, <3>1
    <3>3. i - 1 = j - 1
      BY <1>4, <3>2 DEF IsInjective
    <3> QED BY <3>1, <3>3
  <2> QED BY <2>2, <2>3
<1> QED BY <1>1, <1>3, <1>4 DEF t

(* Unlinking an object from vm.objects.                                    *)
LEMMA ToSetRemoveAt ==
  ASSUME NEW S, NEW s \in Seq(S), IsInjective(s), NEW c \in 1..Len(s)
  PROVE  /\ RemoveAt(s, c) \in Seq(S)
         /\ Len(RemoveAt(s, c)) = Len(s) - 1
         /\ \A i \in 1..(c - 1) : RemoveAt(s, c)[i] = s[i]
         /\ \A i \in c..(Len(s) - 1) : RemoveAt(s, c)[i] = s[i + 1]
         /\ IsInjective(RemoveAt(s, c))
         /\ ToSet(RemoveAt(s, c)) = ToSet(s) \ {s[c]}
<1> DEFINE a == SubSeq(s, 1, c - 1)
           b == SubSeq(s, c + 1, Len(s))
           t == RemoveAt(s, c)
<1>1. /\ a \in Seq(S) /\ Len(a) = c - 1 /\ \A i \in 1..(c - 1) : a[i] = s[i]
      /\ b \in Seq(S) /\ Len(b) = Len(s) - c
      /\ \A i \in 1..(Len(s) - c) : b[i] = s[c + i]
  OBVIOUS
<1>2. t = a \o b
  BY DEF RemoveAt
<1> HIDE DEF a, b, t
<1>3. /\ t \in Seq(S) /\ Len(t) = Len(s) - 1
      /\ \A i \in 1..(Len(s) - 1) :
           t[i] = IF i <= Len(a) THEN a[i] ELSE b[i - Len(a)]
  <2>1. a \in Seq(S) /\ b \in Seq(S) /\ Len(a) + Len(b) = Len(s) - 1
    BY <1>1
  <2> QED BY <1>2, <2>1, ConcatProperties
<1> DEFINE f(i) == IF i < c THEN i ELSE i + 1
<1>4. ASSUME NEW i \in 1..(Len(s) - 1) PROVE t[i] = s[f(i)] /\ f(i) \in 1..Len(s)
  <2>1. Len(a) = c - 1 /\ Len(s) \in Nat /\ c \in Nat /\ i \in Nat
    BY <1>1
  <2>2. CASE i < c
    <3>1. i <= Len(a) /\ i \in 1..(c - 1) /\ f(i) = i
      BY <2>1, <2>2
    <3>2. t[i] = a[i]
      BY <1>3, <3>1
    <3>3. a[i] = s[i]
      BY <1>1, <3>1
    <3>4. i \in 1..Len(s)
      BY <2>1
    <3> QED BY <3>1, <3>2, <3>3, <3>4
  <2>3. CASE ~(i < c)
    <3>1. /\ ~(i <= Len(a)) /\ i - Len(a) \in 1..(Len(s) - c)
          /\ c + (i - Len(a)) = i + 1 /\ f(i) = i + 1
      BY <2>1, <2>3
    <3>2. t[i] = b[i - Len(a)]
      BY <1>3, <3>1
    <3>3. b[i - Len(a)] = s[c + (i - Len(a))]
      BY <1>1, <3>1
    <3>4. i + 1 \in 1..Len(s)
      BY <2>1
    <3> QED BY <3>1, <3>2, <3>3, <3>4
  <2> QED BY <2>2, <2>3
<1>5. IsInjective(t)
  <2> SUFFICES ASSUME NEW i \in 1..(Len(s) - 1), NEW j \in 1..(Len(s) - 1),
                      t[i] = t[j]
               PROVE  i = j
    BY <1>3 DEF IsInjective
  <2>1. f(i) = f(j)
    BY <1>4 DEF IsInjective
  <2> QED BY <2>1
<1>6. ToSet(t) \subseteq ToSet(s) \ {s[c]}
  <2> SUFFICES ASSUME NEW i \in 1..(Len(s) - 1)
               PROVE  t[i] \in ToSet(s) /\ t[i] # s[c]
    BY <1>3 DEF ToSet
  <2>1. f(i) # c
    OBVIOUS
  <2> QED BY <1>4, <2>1 DEF IsInjective, ToSet
<1>7. ASSUME NEW i \in 1..Len(s), i # c PROVE \E j \in 1..Len(t) : t[j] = s[i]
  <2>1. CASE i < c
    <3>1. i \in 1..(Len(s) - 1) /\ f(i) = i
      BY <2>1
    <3> QED BY <1>3, <1>4, <3>1
  <2>2. CASE i > c
    <3>1. i - 1 \in 1..(Len(s) - 1) /\ f(i - 1) = i
      BY <2>2
    <3> QED BY <1>3, <1>4, <3>1
  <2> QED BY <1>7, <2>1, <2>2
<1>8. ToSet(s) \ {s[c]} \subseteq ToSet(t)
  BY <1>3, <1>7 DEF ToSet
<1>9. /\ \A i \in 1..(c - 1) : t[i] = s[i]
      /\ \A i \in c..(Len(s) - 1) : t[i] = s[i + 1]
  BY <1>4
<1> QED BY <1>3, <1>5, <1>6, <1>8, <1>9 DEF t
-----------------------------------------------------------------------------
(***************************************************************************)
(* Reachability.                                                           *)
(***************************************************************************)

(* A closed set around the roots holds everything reachable.               *)
LEMMA ReachableInClosed ==
  ASSUME NEW from, NEW fields, NEW S \in SUBSET Obj,
         from \subseteq S, IsClosed(S, fields)
  PROVE  Reachable(from, fields) \subseteq S
BY DEF Reachable

LEMMA RootsReachable ==
  ASSUME NEW from \in SUBSET Obj, NEW fields
  PROVE  from \subseteq Reachable(from, fields)
BY DEF Reachable

(* What a reachable object points to is reachable.                         *)
LEMMA ReachableClosed ==
  ASSUME NEW from, NEW fields,
         NEW o \in Reachable(from, fields), NEW p \in Pointees(fields[o])
  PROVE  p \in Reachable(from, fields)
<1>1. p \in Obj
  BY DEF Pointees
<1> QED BY <1>1 DEF Reachable, IsClosed

(***************************************************************************)
(* Reachability is kept by a change that adds roots, adds pointers, and    *)
(* otherwise touches only objects outside a closed set around the roots.   *)
(***************************************************************************)
LEMMA ReachableGrows ==
  ASSUME NEW from, NEW fields, NEW from2, NEW fields2, NEW S \in SUBSET Obj,
         from \subseteq S, IsClosed(S, fields), from \subseteq from2,
         \A o \in S : Pointees(fields[o]) \subseteq Pointees(fields2[o])
  PROVE  Reachable(from, fields) \subseteq Reachable(from2, fields2)
<1> SUFFICES ASSUME NEW o \in Reachable(from, fields), NEW T \in SUBSET Obj,
                    from2 \subseteq T, IsClosed(T, fields2)
             PROVE  o \in T
  BY DEF Reachable
<1>1. from \subseteq S \cap T /\ IsClosed(S \cap T, fields)
  BY DEF IsClosed
<1>2. o \in S \cap T
  BY <1>1, ReachableInClosed
<1> QED BY <1>2
-----------------------------------------------------------------------------
USE NilIsNoObject, CollectorAssumption

(***************************************************************************)
(* IInv but for FramesOK.  The variables that only FramesOK speaks of      *)
(* (bases, above and loose) are none of the collector's business, and a    *)
(* lemma of their own, FramesStep, takes care of them.                     *)
(***************************************************************************)
Core ==
  /\ HeapOK /\ RootsOK /\ OpOK /\ GcOK /\ ArgsOK /\ TypesFit /\ SessionOK
  /\ NoDangling /\ TriColour /\ MarksAreClear /\ MarksOK /\ LocalsAreProtected

(* Initially nothing is allocated and nothing holds an object.             *)
LEMMA InitIInv == Init => IInv
<1> SUFFICES ASSUME Init PROVE IInv
  OBVIOUS
<1>1. Heap = {}
  BY DEF Init, Heap, ToSet
<1>2. HeapOK
  BY <1>1 DEF Init, HeapOK, IsInjective, HasShape, Value
<1>3. RootsOK /\ FramesOK
  BY DEF Init, RootsOK, FramesOK, Value
<1>4. /\ op \in [name : {"none", "symbol"}, args : {<<>>},
                 then : {"none", "initString"}, pushed : {0}]
      /\ op.name = "symbol" => op.then = "initString"
  BY DEF Init, NoOp
<1>5. OpOK /\ ArgsOK
  <2>1. op.args = <<>> /\ op.pushed = 0 /\ <<>> \in Seq(Value)
    BY <1>4
  <2>2. OpOK
    <3>1. op = [name |-> op.name, args |-> <<>>, then |-> op.then,
                pushed |-> 0]
      BY <1>4
    <3>2. op.name \in OpNames /\ op.then \in {"none", "initString"}
      BY <1>4 DEF OpNames
    <3>3. stack = <<>> /\ Len(<<>>) = 0
      BY DEF Init
    <3>4. op.pushed <= Len(stack)
      BY <2>1, <3>3
    <3>5. [name |-> op.name, args |-> <<>>, then |-> op.then, pushed |-> 0]
            \in [name : OpNames, args : Seq(Value),
                 then : {"none", "hold", "initString", "native", "name",
                         "call", "capture", "pop", "set"},
                 pushed : 0..2]
      BY <2>1, <3>2
    <3> QED BY <3>1, <3>4, <3>5 DEF OpOK
  <2>3. ArgsOK
    BY <1>4, <2>1 DEF ArgsOK, Constructs
  <2> QED BY <2>2, <2>3
<1>6. GcOK
  <2>1. objects = <<>> /\ cursor = 1 /\ isOn = TRUE /\ parsing = FALSE
          /\ phase = "mutator" /\ marked = {} /\ gray = {}
    BY DEF Init
  <2>2. Len(objects) = 0
    BY <2>1
  <2>3. isOn \in BOOLEAN /\ parsing \in BOOLEAN
    BY <2>1
  <2>4. cursor \in 1..(Len(objects) + 1)
    BY <2>1, <2>2
  <2> QED BY <2>1, <2>3, <2>4 DEF GcOK
<1>7. SessionOK
  BY DEF Init, SessionOK, Collecting
<1>8. Roots = {} /\ Pointees(op.args) = {}
  <2>1. /\ Pointees(stack) = {} /\ Pointees(frames) = {}
        /\ Pointees(compilers) = {} /\ Pointees(openUpvalues) = {}
        /\ Pointees(globals) = {}
    BY DEF Init, Pointees, Value
  <2>2. {name \in Obj : globals[name] # Absent} = {}
    BY DEF Init
  <2>3. {initString} \cap Obj = {} /\ op.args = <<>>
    BY <1>4 DEF Init
  <2>4. Pointees(<<>>) = {}
    BY DEF Pointees
  <2> QED BY <2>1, <2>2, <2>3, <2>4 DEF Roots
<1>9. NoDangling
  BY <1>1, <1>8 DEF Init, NoDangling, InUse, Survivors
<1>10. TriColour /\ MarksAreClear /\ MarksOK /\ LocalsAreProtected
  BY <1>8 DEF Init, TriColour, MarksAreClear, MarksOK, LocalsAreProtected,
                Collecting
<1>11. TypesFit
  <2>1. Pointees(frames) = {} /\ Pointees(compilers) = {}
          /\ Pointees(openUpvalues) = {}
    BY <1>8 DEF Roots
  <2>2. Survivors = {} /\ strings = {}
    BY <1>1 DEF Init, Survivors
  <2> QED BY <2>1, <2>2 DEF TypesFit
<1> QED BY <1>2, <1>3, <1>4, <1>5, <1>6, <1>7, <1>9, <1>10, <1>11
        DEF IInv, TypeOK
-----------------------------------------------------------------------------
(***************************************************************************)
(* The mutator.                                                            *)
(***************************************************************************)

(* What the invariant says while no collection runs.                       *)
LEMMA MutatorFacts ==
  ASSUME IInv, phase = "mutator"
  PROVE  /\ Survivors = Heap
         /\ InUse \cup strings \subseteq Heap
         /\ \A o \in Heap : Pointees(slots[o]) \subseteq Heap
         /\ marked = {} /\ gray = {}
         /\ Heap \subseteq Obj /\ Roots \subseteq Heap /\ held \subseteq Heap
         /\ Pointees(op.args) \subseteq Heap
<1>1. Survivors = Heap /\ marked = {} /\ gray = {}
  BY DEF IInv, Survivors, MarksAreClear, Collecting
<1>2. InUse \cup strings \subseteq Heap
        /\ \A o \in Heap : Pointees(slots[o]) \subseteq Heap
  BY <1>1 DEF IInv, NoDangling
<1>3. Heap \subseteq Obj
  BY DEF IInv, TypeOK, HeapOK, Heap, ToSet
<1> QED BY <1>1, <1>2, <1>3 DEF InUse

(* A step between two such states keeps the invariant if it keeps the      *)
(* types, and leaves what is in use allocated and protected.               *)
LEMMA MutatorStep ==
  ASSUME IInv, phase = "mutator", UNCHANGED gcVars,
         HeapOK', RootsOK', OpOK', ArgsOK',
         Len(objects) <= Len(objects'),
         isOn' \in BOOLEAN, parsing' \in BOOLEAN, SessionOK',
         InUse' \cup strings' \subseteq Heap',
         \A o \in Heap' : Pointees(slots'[o]) \subseteq Heap',
         \A c \in Pointees(frames') : Is("CLOSURE", c)',
         \A f \in Pointees(compilers') : Is("FUNCTION", f)',
         \A u \in Pointees(openUpvalues') : Is("UPVALUE", u)',
         \A s \in strings' : Is("SYMBOL", s)',
         \A c \in Heap' :
           type'[c] = "CLOSURE" => FitsClosure(slots[c])',
         LocalsAreProtected'
  PROVE  Core'
<1>1. phase' = "mutator" /\ marked' = {} /\ gray' = {} /\ cursor' = cursor
  BY MutatorFacts DEF gcVars
<1>2. GcOK'
  <2>1. cursor \in 1..(Len(objects) + 1) /\ Len(objects) \in Nat
    BY DEF IInv, TypeOK, GcOK, HeapOK
  <2>2. Len(objects') \in Nat
    BY DEF HeapOK
  <2>3. cursor' \in 1..(Len(objects') + 1)
    BY <1>1, <2>1, <2>2
  <2> QED BY <1>1, <2>3 DEF GcOK
<1>3. Survivors' = Heap'
  BY <1>1 DEF Survivors
<1>4. NoDangling'
  BY <1>3 DEF NoDangling
<1>5. TriColour' /\ MarksAreClear' /\ MarksOK'
  BY <1>1 DEF TriColour, MarksAreClear, MarksOK
<1>6. TypesFit'
  BY <1>3 DEF TypesFit
<1> QED BY <1>2, <1>4, <1>5, <1>6 DEF Core

(***************************************************************************)
(* A request: what it protects is pushed, so the collector can reach its   *)
(* arguments.                                                              *)
(***************************************************************************)
LEMMA RequestStep ==
  ASSUME IInv, Idle,
         NEW name \in OpNames \ {"none"}, NEW args \in Seq(Value),
         NEW then \in {"none", "hold", "call", "capture", "pop", "set"},
         NEW protect \in Seq(Value), Len(protect) <= 2,
         Request(name, args, then, protect), ArgsOK',
         Pointees(args) \subseteq Heap, Pointees(protect) \subseteq Heap,
         isOn => Pointees(args) \subseteq
                   Reachable(Roots \cup Pointees(protect), slots)
  PROVE  Core'
<1> USE DEF Idle
<1>1. stack \in Seq(Value) /\ Len(protect) \in Nat
  BY DEF IInv, TypeOK, RootsOK
<1>2. stack' \in Seq(Value) /\ Len(stack') = Len(stack) + Len(protect)
        /\ Pointees(stack') = Pointees(stack) \cup Pointees(protect)
  BY <1>1, PointeesConcat, ConcatProperties DEF Request
<1>3. Roots' = Roots \cup Pointees(protect)
  BY <1>2 DEF Request, Roots
<1>4. /\ op' = [name |-> name, args |-> args, then |-> then,
                pushed |-> Len(protect)]
      /\ UNCHANGED <<heapVars, strings, session, gcVars>>
      /\ held' = IF isOn THEN {} ELSE held
      /\ UNCHANGED <<frames, openUpvalues, globals, compilers, initString>>
  BY DEF Request
<1>5. Heap' = Heap
  BY <1>4 DEF heapVars, Heap
<1>6. HeapOK'
  BY <1>4, <1>5 DEF heapVars, HeapOK, IInv, TypeOK
<1>7. RootsOK'
  BY <1>2, <1>4 DEF RootsOK, IInv, TypeOK
<1>8. OpOK'
  BY <1>1, <1>2, <1>4 DEF OpOK
<1>9. SessionOK'
  BY <1>4 DEF SessionOK, IInv, session, gcVars, Collecting
<1>10. InUse' \cup strings' \subseteq Heap'
  BY <1>3, <1>4, <1>5, MutatorFacts DEF InUse
<1>11. \A o \in Heap' : Pointees(slots'[o]) \subseteq Heap'
  BY <1>4, <1>5, MutatorFacts DEF heapVars
<1>12. LocalsAreProtected'
  BY <1>3, <1>4 DEF LocalsAreProtected, heapVars, session
<1>13. isOn' \in BOOLEAN /\ parsing' \in BOOLEAN
  BY <1>4 DEF session, IInv, TypeOK, GcOK
<1>14. Len(objects) <= Len(objects')
  BY <1>4 DEF heapVars, IInv, TypeOK, HeapOK
<1>15. /\ \A c \in Pointees(frames') : Is("CLOSURE", c)'
       /\ \A f \in Pointees(compilers') : Is("FUNCTION", f)'
       /\ \A u \in Pointees(openUpvalues') : Is("UPVALUE", u)'
       /\ \A s \in strings' : Is("SYMBOL", s)'
       /\ \A c \in Heap' :
            type'[c] = "CLOSURE" => FitsClosure(slots[c])'
  BY <1>4, <1>5, MutatorFacts DEF heapVars, Is, FitsClosure, TypesFit, IInv
<1> QED BY <1>4, <1>6, <1>7, <1>8, <1>9, <1>10, <1>11, <1>12, <1>13, <1>14,
           <1>15, MutatorStep
-----------------------------------------------------------------------------
(***************************************************************************)
(* The collector.                                                          *)
(***************************************************************************)

(* A collection begins: nothing but the roots is marked.                   *)
LEMMA MarkRootsStep ==
  ASSUME IInv, MarkRoots, op' = op, held' = {}, isOn' = TRUE,
         parsing' = FALSE, isOn \/ op.args = <<>>
  PROVE  Core'
<1>1. /\ phase = "mutator" /\ phase' = "trace"
      /\ UNCHANGED <<heapVars, roots, strings, cursor>>
      /\ marked' = Roots /\ gray' = Roots
  <2>1. phase = "mutator"
    BY DEF MarkRoots
  <2>2. marked = {} /\ gray = {}
    BY <2>1 DEF IInv, MarksAreClear, Collecting
  <2> QED BY <2>2 DEF MarkRoots
<1>2. Roots' = Roots /\ Heap' = Heap /\ slots' = slots
  BY <1>1 DEF roots, heapVars, Roots, Heap
<1>3. HeapOK' /\ RootsOK' /\ OpOK' /\ ArgsOK'
  <2>1. HeapOK'
    BY <1>1, <1>2 DEF heapVars, HeapOK, IInv, TypeOK
  <2>2. RootsOK'
    BY <1>1 DEF roots, RootsOK, IInv, TypeOK
  <2>3. OpOK'
    BY <1>1 DEF roots, OpOK, IInv, TypeOK
  <2>4. ArgsOK'
    BY <1>1 DEF roots, heapVars, ArgsOK, Is, IInv
  <2> QED BY <2>1, <2>2, <2>3, <2>4
<1>4. GcOK'
  BY <1>1, <1>2, MutatorFacts DEF GcOK, IInv, TypeOK, heapVars
<1>5. NoDangling'
  <2>1. Survivors' = Heap
    BY <1>1, <1>2 DEF Survivors
  <2>2. InUse' \subseteq InUse
    BY <1>2 DEF InUse
  <2> QED BY <1>1, <1>2, <2>1, <2>2, MutatorFacts DEF NoDangling
<1>6. TriColour' /\ MarksOK'
  BY <1>1, <1>2, MutatorFacts DEF TriColour, MarksOK
<1>7. MarksAreClear' /\ SessionOK'
  BY <1>1 DEF MarksAreClear, SessionOK, Collecting
<1>8. LocalsAreProtected'
  <2>1. CASE isOn
    BY <1>2, <2>1 DEF LocalsAreProtected, IInv
  <2>2. CASE op.args = <<>>
    <3>1. Pointees(op'.args) = {}
      BY <2>2 DEF Pointees
    <3> QED BY <3>1 DEF LocalsAreProtected
  <2> QED BY <2>1, <2>2
<1>9. TypesFit'
  <2>1. Survivors' = Survivors
    BY <1>1, <1>2 DEF Survivors
  <2> QED BY <1>1, <2>1 DEF roots, heapVars, Is, FitsClosure, TypesFit, IInv
<1> QED BY <1>3, <1>4, <1>5, <1>6, <1>7, <1>8, <1>9 DEF Core

LEMMA CollectStep == ASSUME IInv, Collect PROVE Core'
<1>1. /\ isOn /\ op # NoOp /\ MarkRoots /\ UNCHANGED <<session, held, op>>
  BY DEF Collect
<1>2. held = {} /\ parsing = FALSE /\ isOn = TRUE
  BY <1>1 DEF IInv, SessionOK, TypeOK, GcOK
<1> QED BY <1>1, <1>2, MarkRootsStep DEF session

LEMMA GrowStep == ASSUME IInv, Grow PROVE Core'
<1>1. isOn /\ MarkRoots /\ held' = {} /\ UNCHANGED <<session, op>>
  BY DEF Grow, Running
<1>2. parsing = FALSE /\ isOn = TRUE
  BY <1>1 DEF IInv, SessionOK, TypeOK, GcOK
<1> QED BY <1>1, <1>2, MarkRootsStep DEF session

LEMMA FreeASTStep == ASSUME IInv, FreeAST PROVE Core'
<1>1. /\ MarkRoots /\ held' = {} /\ parsing' = FALSE /\ isOn' = TRUE
      /\ op' = op /\ op.args = <<>>
  BY DEF FreeAST, Idle, NoOp
<1> QED BY <1>1, MarkRootsStep

(* blackenObject: the object's fields are gray from now on.                *)
LEMMA BlackenStep == ASSUME IInv, Blacken PROVE Core'
<1>1. PICK o \in gray :
        /\ marked' = marked \cup MarkedBy(o)
        /\ gray' = (gray \ {o}) \cup (MarkedBy(o) \ marked)
  BY DEF Blacken
<1>2. /\ phase = "trace" /\ phase' = "trace"
      /\ UNCHANGED <<heapVars, roots, strings, session, held, op, cursor>>
  BY DEF Blacken
<1>3. gray \subseteq marked /\ marked \subseteq Heap /\ Heap \subseteq Obj
  BY <1>2 DEF IInv, TypeOK, GcOK, MarksOK, HeapOK, Heap, ToSet
<1>4. MarkedBy(o) = Pointees(slots[o])
  <2>1. HasShape(slots[o], type[o])
    BY <1>1, <1>3 DEF IInv, TypeOK, HeapOK
  <2>2. CASE type[o] \in LeafTypes
    BY <2>1, <2>2 DEF HasShape, MarkedBy, Pointees
  <2>3. CASE type[o] \notin LeafTypes
    BY <2>3 DEF MarkedBy
  <2> QED BY <2>2, <2>3
<1>5. Survivors = Heap /\ Survivors' = Heap' /\ Heap' = Heap
  BY <1>2 DEF Survivors, heapVars, Heap
<1>6. Pointees(slots[o]) \subseteq Heap
  BY <1>1, <1>3, <1>5 DEF IInv, NoDangling
<1>7. Roots' = Roots /\ InUse' = InUse
  BY <1>2 DEF roots, Roots, InUse
<1>8. HeapOK' /\ RootsOK' /\ OpOK' /\ GcOK'
  <2>1. HeapOK' /\ RootsOK' /\ OpOK'
    BY <1>2, <1>5 DEF heapVars, roots, HeapOK, RootsOK, OpOK, IInv, TypeOK
  <2>2. GcOK'
    BY <1>1, <1>2, <1>3, <1>4, <1>6 DEF GcOK, IInv, TypeOK, heapVars, session
  <2> QED BY <2>1, <2>2
<1>9. ArgsOK' /\ SessionOK'
  BY <1>2 DEF ArgsOK, Is, SessionOK, IInv, heapVars, roots, session, Collecting
<1>10. NoDangling'
  BY <1>2, <1>5, <1>7 DEF NoDangling, IInv, heapVars
<1>11. TriColour'
  BY <1>1, <1>2, <1>4, <1>7 DEF TriColour, IInv, heapVars
<1>12. MarksOK' /\ MarksAreClear'
  BY <1>1, <1>2, <1>3, <1>4, <1>5, <1>6 DEF MarksOK, MarksAreClear, Collecting
<1>13. LocalsAreProtected'
  BY <1>2, <1>7 DEF LocalsAreProtected, IInv, heapVars, session
<1>14. TypesFit'
  BY <1>2, <1>5 DEF roots, heapVars, Is, FitsClosure, TypesFit, IInv
<1> QED BY <1>8, <1>9, <1>10, <1>11, <1>12, <1>13, <1>14 DEF Core

(* The marks are complete when the gray stack is empty.                    *)
LEMMA MarksAreComplete ==
  ASSUME IInv, phase = "trace", gray = {}
  PROVE  /\ IsClosed(marked, slots) /\ marked \subseteq Heap
         /\ Reachable(Roots, slots) \subseteq marked /\ InUse \subseteq marked
<1>1. /\ Roots \subseteq marked /\ marked \subseteq Heap
      /\ \A o \in marked : Pointees(slots[o]) \subseteq marked
  BY DEF IInv, TriColour, MarksOK
<1>2. marked \subseteq Obj
  BY DEF IInv, TypeOK, GcOK
<1>3. Reachable(Roots, slots) \subseteq marked
  BY <1>1, <1>2, ReachableInClosed DEF IsClosed
<1>4. held = {} /\ Pointees(op.args) \subseteq Reachable(Roots, slots)
  BY DEF IInv, SessionOK, LocalsAreProtected, Collecting
<1> QED BY <1>1, <1>3, <1>4 DEF IsClosed, InUse

LEMMA RemoveWhiteStep == ASSUME IInv, RemoveWhite PROVE Core'
<1>1. /\ phase = "trace" /\ gray = {} /\ phase' = "sweep" /\ cursor' = 1
      /\ strings' = strings \cap marked
      /\ UNCHANGED <<heapVars, roots, session, held, op, marked, gray>>
  BY DEF RemoveWhite
<1>2. /\ \A o \in marked : Pointees(slots[o]) \subseteq marked
      /\ marked \subseteq Heap /\ InUse \subseteq marked
  BY <1>1, MarksAreComplete DEF IsClosed
<1>3. Survivors' = marked
  BY <1>1 DEF Survivors
<1>4. Heap' = Heap /\ Roots' = Roots /\ InUse' = InUse
  BY <1>1 DEF heapVars, roots, Heap, Roots, InUse
<1>5. HeapOK' /\ RootsOK' /\ OpOK' /\ GcOK'
  <2>1. HeapOK' /\ RootsOK' /\ OpOK'
    BY <1>1, <1>4 DEF heapVars, roots, HeapOK, RootsOK, OpOK, IInv, TypeOK
  <2>2. GcOK'
    <3>1. Len(objects) \in Nat
      BY DEF IInv, TypeOK, HeapOK
    <3> QED BY <1>1, <3>1 DEF GcOK, IInv, TypeOK, heapVars, session
  <2> QED BY <2>1, <2>2
<1>6. ArgsOK' /\ SessionOK'
  BY <1>1 DEF ArgsOK, Is, SessionOK, IInv, heapVars, roots, session, Collecting
<1>7. NoDangling'
  BY <1>1, <1>2, <1>3, <1>4 DEF NoDangling, heapVars
<1>8. MarksOK'
  <2>1. objects \in Seq(Obj)
    BY DEF IInv, TypeOK, HeapOK
  <2>2. marked \subseteq {objects[i] : i \in 1..Len(objects)}
    BY <1>2, <2>1 DEF Heap, ToSet
  <2> QED BY <1>1, <2>2 DEF MarksOK, heapVars
<1>9. TriColour' /\ MarksAreClear'
  BY <1>1 DEF TriColour, MarksAreClear, Collecting
<1>10. LocalsAreProtected'
  BY <1>1, <1>4 DEF LocalsAreProtected, IInv, heapVars, session
<1>11. TypesFit'
  <2>1. Survivors' \subseteq Survivors
    BY <1>1, <1>2, <1>3 DEF Survivors
  <2> QED BY <1>1, <2>1 DEF roots, heapVars, Is, FitsClosure, TypesFit, IInv
<1> QED BY <1>5, <1>6, <1>7, <1>8, <1>9, <1>10, <1>11 DEF Core

(* sweep clears the mark of an object it keeps.                            *)
LEMMA SweepKeepStep == ASSUME IInv, SweepKeep PROVE Core'
<1> DEFINE o == objects[cursor]
<1>1. /\ phase = "sweep" /\ phase' = "sweep"
      /\ cursor <= Len(objects) /\ o \in marked
      /\ marked' = marked \ {o} /\ cursor' = cursor + 1
      /\ UNCHANGED <<heapVars, roots, strings, session, held, op, gray>>
  BY DEF SweepKeep
<1>2. /\ objects \in Seq(Obj) /\ IsInjective(objects)
      /\ Len(objects) \in Nat /\ cursor \in 1..Len(objects)
  BY <1>1 DEF IInv, TypeOK, HeapOK, GcOK
<1>3. gray = {} /\ marked \subseteq {objects[i] : i \in cursor..Len(objects)}
  BY <1>1 DEF IInv, MarksOK
<1>4. Survivors' = Survivors
  <2>1. {objects[i] : i \in 1..cursor} = {objects[i] : i \in 1..(cursor - 1)} \cup {o}
    BY <1>2
  <2>2. cursor' - 1 = cursor
    BY <1>1, <1>2
  <2> QED BY <1>1, <2>1, <2>2 DEF Survivors, heapVars
<1>5. Heap' = Heap /\ Roots' = Roots /\ InUse' = InUse
  BY <1>1 DEF heapVars, roots, Heap, Roots, InUse
<1>6. HeapOK' /\ RootsOK' /\ OpOK' /\ GcOK'
  <2>1. HeapOK' /\ RootsOK' /\ OpOK'
    BY <1>1, <1>5 DEF heapVars, roots, HeapOK, RootsOK, OpOK, IInv, TypeOK
  <2>2. GcOK'
    BY <1>1, <1>2, <1>3 DEF GcOK, IInv, TypeOK, heapVars, session
  <2> QED BY <2>1, <2>2
<1>7. ArgsOK' /\ SessionOK'
  BY <1>1 DEF ArgsOK, Is, SessionOK, IInv, heapVars, roots, session, Collecting
<1>8. NoDangling'
  BY <1>1, <1>4, <1>5 DEF NoDangling, IInv, heapVars
<1>9. MarksOK'
  <2> SUFFICES ASSUME NEW x \in marked, x # o
               PROVE  x \in {objects[i] : i \in (cursor + 1)..Len(objects)}
    BY <1>1, <1>3 DEF MarksOK, heapVars
  <2>1. PICK i \in cursor..Len(objects) : x = objects[i]
    BY <1>3
  <2>2. i \in (cursor + 1)..Len(objects)
    BY <1>2, <2>1
  <2> QED BY <2>1, <2>2
<1>10. TriColour' /\ MarksAreClear'
  BY <1>1 DEF TriColour, MarksAreClear, Collecting
<1>11. LocalsAreProtected'
  BY <1>1, <1>5 DEF LocalsAreProtected, IInv, heapVars, session
<1>12. TypesFit'
  BY <1>1, <1>4 DEF roots, heapVars, Is, FitsClosure, TypesFit, IInv
<1> QED BY <1>6, <1>7, <1>8, <1>9, <1>10, <1>11, <1>12 DEF Core

(* sweep frees an object: nothing that survives points to it.              *)
LEMMA SweepFreeStep == ASSUME IInv, SweepFree PROVE Core'
<1> DEFINE o == objects[cursor]
<1>1. /\ phase = "sweep" /\ cursor <= Len(objects) /\ o \notin marked
      /\ objects' = RemoveAt(objects, cursor)
      /\ type' = [type EXCEPT ![o] = "FREE"]
      /\ slots' = [slots EXCEPT ![o] = <<>>]
      /\ UNCHANGED <<stack, frames, openUpvalues, globals, compilers,
                     initString, strings, session, held, op, gcVars>>
  BY DEF SweepFree
<1>2. /\ objects \in Seq(Obj) /\ IsInjective(objects)
      /\ Len(objects) \in Nat /\ cursor \in 1..Len(objects)
  BY <1>1 DEF IInv, TypeOK, HeapOK, GcOK
<1>3. o \in Obj
  BY <1>2
<1>4. /\ objects' \in Seq(Obj) /\ IsInjective(objects')
      /\ Len(objects') = Len(objects) - 1
      /\ \A i \in 1..(cursor - 1) : objects'[i] = objects[i]
      /\ \A i \in cursor..(Len(objects) - 1) : objects'[i] = objects[i + 1]
      /\ Heap' = Heap \ {o}
  <2> DEFINE t == RemoveAt(objects, cursor)
  <2>1. /\ t \in Seq(Obj) /\ IsInjective(t) /\ Len(t) = Len(objects) - 1
        /\ \A i \in 1..(cursor - 1) : t[i] = objects[i]
        /\ \A i \in cursor..(Len(objects) - 1) : t[i] = objects[i + 1]
        /\ ToSet(t) = ToSet(objects) \ {o}
    <3>1. PICK c : c = cursor
      OBVIOUS
    <3>2. objects \in Seq(Obj) /\ IsInjective(objects) /\ c \in 1..Len(objects)
      BY <1>2, <3>1
    <3>3. /\ RemoveAt(objects, c) \in Seq(Obj)
          /\ Len(RemoveAt(objects, c)) = Len(objects) - 1
          /\ IsInjective(RemoveAt(objects, c))
      BY <3>2, ToSetRemoveAt
    <3>4. /\ \A i \in 1..(c - 1) : RemoveAt(objects, c)[i] = objects[i]
          /\ \A i \in c..(Len(objects) - 1) :
               RemoveAt(objects, c)[i] = objects[i + 1]
      BY <3>2, ToSetRemoveAt
    <3>5. ToSet(RemoveAt(objects, c)) = ToSet(objects) \ {objects[c]}
      BY <3>2, ToSetRemoveAt
    <3> QED BY <3>1, <3>3, <3>4, <3>5
  <2>2. objects' = t
    BY <1>1
  <2> HIDE DEF t
  <2> QED BY <2>1, <2>2 DEF Heap
<1>5. Roots' = Roots /\ InUse' = InUse /\ UNCHANGED gcVars /\ phase' = "sweep"
        /\ marked' = marked /\ cursor' = cursor /\ gray' = gray
  BY <1>1 DEF Roots, InUse, gcVars
<1>6. Survivors' = Survivors
  BY <1>1, <1>2, <1>4, <1>5 DEF Survivors
<1>7. o \notin Survivors
  BY <1>1, <1>2 DEF Survivors, IsInjective
<1>8. /\ InUse \cup strings \subseteq Survivors /\ Survivors \subseteq Heap
      /\ \A x \in Survivors : Pointees(slots[x]) \subseteq Survivors
  BY DEF IInv, NoDangling
<1>9. /\ \A x \in Obj \ {o} : type'[x] = type[x] /\ slots'[x] = slots[x]
      /\ type'[o] = "FREE" /\ slots'[o] = <<>>
  BY <1>1, <1>3 DEF IInv, TypeOK, HeapOK
<1>10. HeapOK'
  <2>1. type' \in [Obj -> ObjType \cup {"FREE"}]
    BY <1>1 DEF IInv, TypeOK, HeapOK
  <2>2. slots' \in [Obj -> Seq(Value)]
    <3>1. <<>> \in Seq(Value) /\ slots \in [Obj -> Seq(Value)]
      BY DEF IInv, TypeOK, HeapOK
    <3> QED BY <1>1, <3>1
  <2>3. \A x \in Obj : x \in Heap' <=> type'[x] # "FREE"
    BY <1>4, <1>9 DEF IInv, TypeOK, HeapOK
  <2>4. \A x \in Obj : HasShape(slots'[x], type'[x])
    <3>1. HasShape(<<>>, "FREE")
      BY DEF HasShape
    <3> QED BY <1>9, <3>1 DEF IInv, TypeOK, HeapOK
  <2> QED BY <1>4, <2>1, <2>2, <2>3, <2>4 DEF HeapOK
<1>11. RootsOK' /\ OpOK'
  BY <1>1 DEF RootsOK, OpOK, IInv, TypeOK
<1>12. GcOK'
  BY <1>1, <1>2, <1>4, <1>5 DEF GcOK, IInv, TypeOK, session
<1>13. ArgsOK'
  <2>1. Pointees(op.args) \subseteq Survivors
    BY <1>8 DEF InUse
  <2>2. ASSUME NEW i \in DOMAIN op.args, NEW t, Is(t, op.args[i])
        PROVE  Is(t, op.args[i])'
    <3>1. op.args[i] \in Pointees(op.args)
      BY <2>2 DEF Is, Pointees
    <3> QED BY <1>1, <1>7, <1>9, <2>1, <2>2, <3>1 DEF Is
  <2>3. /\ op' = op /\ stack' = stack /\ frames' = frames
        /\ op.args \in Seq(Value)
    BY <1>1 DEF IInv, TypeOK, OpOK
  <2>4. op'.args = op.args /\ ArgsOK
    BY <2>3 DEF IInv
  <2>5. op.args # <<>> => 1 \in DOMAIN op.args
    BY <2>3
  <2>6. /\ Len(op.args) = 1 => 1 \in DOMAIN op.args
        /\ Len(op.args) = 2 => {1, 2} \subseteq DOMAIN op.args
        /\ Len(op.args) = 3 => {1, 2, 3} \subseteq DOMAIN op.args
    BY <2>3
  <2>7. ASSUME NEW t
        PROVE  /\ op.args # <<>> /\ Is(t, op.args[1]) => Is(t, op.args[1])'
               /\ Len(op.args) = 1 /\ Is(t, op.args[1])
                    => Is(t, op.args[1])'
    BY <2>2, <2>4, <2>5, <2>6
  <2>8. ASSUME NEW t
        PROVE  /\ Len(op.args) = 2 /\ Is(t, op.args[1])
                    => Is(t, op.args[1])'
               /\ Len(op.args) = 2 /\ Is(t, op.args[2])
                    => Is(t, op.args[2])'
    BY <2>2, <2>4, <2>6
  <2>9. ASSUME NEW t
        PROVE  Len(op.args) = 3 /\ Is(t, op.args[3]) => Is(t, op.args[3])'
    BY <2>2, <2>4, <2>6
  <2> QED BY <2>3, <2>4, <2>7, <2>8, <2>9 DEF ArgsOK
<1>14. SessionOK'
  BY <1>1, <1>5 DEF SessionOK, IInv, session, Collecting
<1>15. NoDangling'
  <2>1. \A x \in Survivors : slots'[x] = slots[x]
    BY <1>7, <1>8, <1>9 DEF IInv, TypeOK, HeapOK, Heap, ToSet
  <2> QED BY <1>1, <1>4, <1>5, <1>6, <1>7, <1>8, <2>1 DEF NoDangling
<1>16. MarksOK'
  <2>1. gray = {} /\ marked \subseteq {objects[i] : i \in cursor..Len(objects)}
    BY <1>1 DEF IInv, MarksOK
  <2> SUFFICES ASSUME NEW x \in marked
               PROVE  x \in {objects'[i] : i \in cursor..Len(objects')}
    BY <1>5, <2>1 DEF MarksOK
  <2>2. PICK i \in cursor..Len(objects) : x = objects[i]
    BY <2>1
  <2>3. i - 1 \in cursor..Len(objects') /\ objects'[i - 1] = x
    BY <1>1, <1>2, <1>4, <2>2
  <2> QED BY <2>3
<1>17. TriColour' /\ MarksAreClear'
  BY <1>5 DEF TriColour, MarksAreClear, Collecting
<1>18. LocalsAreProtected'
  <2>1. Survivors \in SUBSET Obj /\ IsClosed(Survivors, slots)
          /\ Roots \subseteq Survivors
    BY <1>8 DEF IsClosed, InUse, IInv, TypeOK, HeapOK, Heap, ToSet
  <2>2. \A x \in Survivors : slots'[x] = slots[x]
    BY <1>7, <1>9, <2>1
  <2>3. Reachable(Roots, slots) \subseteq Reachable(Roots', slots')
    BY <1>5, <2>1, <2>2, ReachableGrows
  <2> QED BY <1>1, <2>3 DEF LocalsAreProtected, IInv, session
<1>19. TypesFit'
  <2>1. \A x \in Survivors : type'[x] = type[x] /\ slots'[x] = slots[x]
    BY <1>7, <1>8, <1>9 DEF IInv, TypeOK, HeapOK, Heap, ToSet
  <2>2. /\ Pointees(frames) \subseteq Survivors
        /\ Pointees(compilers) \subseteq Survivors
        /\ Pointees(openUpvalues) \subseteq Survivors
        /\ strings \subseteq Survivors
    BY <1>8 DEF InUse, Roots
  <2>3. ASSUME NEW c \in Survivors, type[c] = "CLOSURE"
        PROVE  FitsClosure(slots[c])'
    <3>1. /\ c \in Obj /\ slots[c] \in Seq(Value) /\ slots[c] # <<>>
          /\ slots'[c] = slots[c]
      BY <1>8, <2>1, <2>3 DEF IInv, TypeOK, HeapOK, HasShape, Heap, ToSet
    <3>2. FitsClosure(slots[c])
      BY <2>3 DEF IInv, TypesFit
    <3>3. Pointees(Tail(slots[c])) \subseteq Pointees(slots[c])
      BY <3>1, PointeesTail
    <3>4. slots[c][1] \in Pointees(slots[c])
      BY <3>1, <3>2 DEF FitsClosure, Is, Pointees
    <3>5. \A x \in Pointees(slots[c]) : type'[x] = type[x]
      BY <1>8, <2>1
    <3> QED BY <3>1, <3>2, <3>3, <3>4, <3>5 DEF FitsClosure, Is
  <2> QED BY <1>1, <1>6, <2>1, <2>2, <2>3 DEF Is, TypesFit, IInv
<1> QED BY <1>10, <1>11, <1>12, <1>13, <1>14, <1>15, <1>16, <1>17, <1>18,
           <1>19
        DEF Core

LEMMA SweepEndStep == ASSUME IInv, SweepEnd PROVE Core'
<1>1. /\ phase = "sweep" /\ cursor > Len(objects)
      /\ phase' = "mutator" /\ cursor' = 1
      /\ UNCHANGED <<heapVars, roots, strings, session, held, op, marked, gray>>
  BY DEF SweepEnd
<1>2. objects \in Seq(Obj) /\ Len(objects) \in Nat /\ cursor = Len(objects) + 1
  BY <1>1 DEF IInv, TypeOK, HeapOK, GcOK
<1>3. marked = {} /\ gray = {}
  BY <1>1, <1>2 DEF IInv, MarksOK
<1>4. Survivors = Heap
  BY <1>1, <1>2, <1>3 DEF Survivors, Heap, ToSet
<1>5. Heap' = Heap /\ Roots' = Roots /\ InUse' = InUse /\ Survivors' = Heap
  BY <1>1 DEF heapVars, roots, Heap, Roots, InUse, Survivors
<1>6. HeapOK' /\ RootsOK' /\ OpOK' /\ GcOK'
  <2>1. HeapOK' /\ RootsOK' /\ OpOK'
    BY <1>1, <1>5 DEF heapVars, roots, HeapOK, RootsOK, OpOK, IInv, TypeOK
  <2>2. GcOK'
    BY <1>1, <1>2, <1>3 DEF GcOK, IInv, TypeOK, heapVars, session
  <2> QED BY <2>1, <2>2
<1>7. ArgsOK' /\ SessionOK'
  BY <1>1 DEF ArgsOK, Is, SessionOK, IInv, heapVars, roots, session, Collecting
<1>8. NoDangling'
  BY <1>1, <1>4, <1>5 DEF NoDangling, IInv, heapVars
<1>9. TriColour' /\ MarksAreClear' /\ MarksOK'
  BY <1>1, <1>3 DEF TriColour, MarksAreClear, MarksOK, Collecting
<1>10. LocalsAreProtected'
  BY <1>1, <1>5 DEF LocalsAreProtected, IInv, heapVars, session
<1>11. TypesFit'
  BY <1>1, <1>4, <1>5 DEF roots, heapVars, Is, FitsClosure, TypesFit, IInv
<1> QED BY <1>6, <1>7, <1>8, <1>9, <1>10, <1>11 DEF Core
-----------------------------------------------------------------------------
(***************************************************************************)
(* The requests.                                                           *)
(***************************************************************************)

LEMMA RequestNames ==
  {"syntax", "cons", "pair", "vector", "append", "write", "symbol",
   "function", "closure", "define"} \subseteq OpNames \ {"none"}
<1>1. DOMAIN Constructs = {"syntax", "cons", "pair", "vector"}
  BY DEF Constructs
<1> QED BY <1>1 DEF OpNames

LEMMA RootsAreObjects == ASSUME IInv PROVE Roots \in SUBSET Obj
BY DEF Roots, Pointees

(* The running closure, its function and what they hold.                   *)
LEMMA TopFrameFacts ==
  ASSUME IInv, phase = "mutator", frames # <<>>
  PROVE  /\ TopFrame \in Pointees(frames) /\ Is("CLOSURE", TopFrame)
         /\ slots[TopFrame] # <<>>
         /\ Is("FUNCTION", slots[TopFrame][1])
         /\ \A u \in Captured : Is("UPVALUE", u)
         /\ Constants(slots[TopFrame][1]) \subseteq Reachable(Roots, slots)
         /\ Captured \subseteq Reachable(Roots, slots)
         /\ Constants(slots[TopFrame][1]) \subseteq Heap
         /\ Captured \subseteq Heap
<1> USE DEF Captured
<1> DEFINE c == TopFrame
           f == slots[c][1]
<1>1. c \in Pointees(frames)
  <2>1. frames \in Seq(Obj)
    BY DEF IInv, TypeOK, RootsOK
  <2>2. Len(frames) \in DOMAIN frames
    BY <2>1
  <2> QED BY <2>1, <2>2 DEF TopFrame, Pointees
<1>2. c \in Heap /\ c \in Roots
  BY <1>1, MutatorFacts DEF Roots
<1>3. /\ Is("CLOSURE", c) /\ Is("FUNCTION", f)
      /\ \A u \in Captured : Is("UPVALUE", u)
  BY <1>1, <1>2, MutatorFacts DEF Is, FitsClosure, TypesFit, IInv
<1>4. /\ slots[c] \in Seq(Value) /\ slots[c] # <<>>
      /\ slots[f] \in Seq(Value) /\ slots[f] # <<>>
  BY <1>3 DEF Is, IInv, TypeOK, HeapOK, HasShape
<1>5. f \in Pointees(slots[c])
  BY <1>3, <1>4 DEF Is, Pointees
<1>6. c \in Reachable(Roots, slots)
  BY <1>2, RootsAreObjects, RootsReachable
<1>7. f \in Reachable(Roots, slots)
  BY <1>5, <1>6, ReachableClosed
<1>8. f \in Heap
  BY <1>2, <1>5, MutatorFacts
<1>9. Pointees(Tail(slots[c])) \subseteq Pointees(slots[c])
        /\ Constants(f) \subseteq Pointees(slots[f])
  BY <1>4, PointeesTail DEF Constants
<1>10. Constants(f) \subseteq Heap /\ Pointees(Tail(slots[c])) \subseteq Heap
  BY <1>2, <1>8, <1>9, MutatorFacts
<1>11. Constants(f) \subseteq Reachable(Roots, slots)
  BY <1>7, <1>9, ReachableClosed
<1>12. Pointees(Tail(slots[c])) \subseteq Reachable(Roots, slots)
  BY <1>6, <1>9, ReachableClosed
<1> QED BY <1>1, <1>3, <1>4, <1>10, <1>11, <1>12

LEMMA AtHandInHeap ==
  ASSUME IInv, phase = "mutator"
  PROVE  AtHand \subseteq Heap /\ Heap \subseteq Obj
<1>1. Pointees(stack) \cup Pointees(globals) \cup held \subseteq Heap
  BY MutatorFacts DEF Roots
<1>2. ASSUME frames # <<>>, NEW u \in Captured
      PROVE  Pointees(slots[u]) \subseteq Heap
  BY <1>2, MutatorFacts, TopFrameFacts
<1>3. ASSUME frames # <<>>
      PROVE  Constants(slots[TopFrame][1]) \subseteq Heap
  BY <1>3, TopFrameFacts
<1> QED BY <1>1, <1>2, <1>3, MutatorFacts DEF AtHand, Operands

LEMMA PointeesPair ==
  ASSUME NEW v, NEW w
  PROVE  Pointees(<<v, w>>) = {v, w} \cap Obj
<1>1. DOMAIN <<v, w>> = {1, 2} /\ <<v, w>>[1] = v /\ <<v, w>>[2] = w
  OBVIOUS
<1> QED BY <1>1 DEF Pointees

LEMMA NewSyntaxStep == ASSUME IInv, NewSyntax PROVE Core'
<1>1. Idle /\ phase = "mutator"
  BY DEF NewSyntax, Idle
<1>2. PICK value \in AtHand \cup {Nil} :
        Request("syntax", <<value>>, "hold", <<value>>)
  BY DEF NewSyntax
<1>3. /\ value \in Value /\ <<value>> \in Seq(Value)
      /\ Len(<<value>>) = 1 /\ Len(<<value>>) <= 2
  BY <1>1, AtHandInHeap DEF Value
<1>4. Pointees(<<value>>) \subseteq Heap
  BY <1>1, AtHandInHeap, PointeesSingle
<1>5. Pointees(<<value>>) \subseteq
        Reachable(Roots \cup Pointees(<<value>>), slots)
  <2>1. Roots \cup Pointees(<<value>>) \in SUBSET Obj
    BY RootsAreObjects DEF Pointees
  <2> QED BY <2>1, RootsReachable
<1>6. ArgsOK'
  BY <1>2, <1>3 DEF Request, ArgsOK, Constructs, HasShape, LeafTypes
<1> QED BY <1>1, <1>2, <1>3, <1>4, <1>5, <1>6, RequestStep,
           RequestNames

LEMMA GuardedConsStep == ASSUME IInv, GuardedCons PROVE Core'
<1>1. Idle /\ phase = "mutator"
  BY DEF GuardedCons, Running, Idle
<1>2. PICK car \in AtHand \cup {Nil}, cdr \in AtHand \cup {Nil} :
        Request("cons", <<car, cdr>>, "hold", Guarded(car) \o Guarded(cdr))
  BY DEF GuardedCons
<1> DEFINE protect == Guarded(car) \o Guarded(cdr)
<1>3. /\ car \in Value /\ cdr \in Value
      /\ <<car, cdr>> \in Seq(Value) /\ Len(<<car, cdr>>) = 2
  BY <1>1, AtHandInHeap DEF Value
<1>4. /\ Guarded(car) \in Seq(Value) /\ Guarded(cdr) \in Seq(Value)
      /\ Len(Guarded(car)) \in 0..1 /\ Len(Guarded(cdr)) \in 0..1
      /\ Pointees(Guarded(car)) = {car} \cap Obj
      /\ Pointees(Guarded(cdr)) = {cdr} \cap Obj
  <2>1. ASSUME NEW v \in Value
        PROVE  /\ Guarded(v) \in Seq(Value) /\ Len(Guarded(v)) \in 0..1
               /\ Pointees(Guarded(v)) = {v} \cap Obj
    <3>1. CASE v \in Obj
      BY <3>1, PointeesSingle DEF Guarded
    <3>2. CASE v \notin Obj
      <4>1. Pointees(<<>>) = {}
        BY DEF Pointees
      <4> QED BY <3>2, <4>1 DEF Guarded
    <3> QED BY <3>1, <3>2
  <2> QED BY <1>3, <2>1
<1>5. /\ protect \in Seq(Value) /\ Len(protect) <= 2
      /\ Pointees(protect) = {car, cdr} \cap Obj
  <2>1. /\ protect \in Seq(Value)
        /\ Len(protect) = Len(Guarded(car)) + Len(Guarded(cdr))
    BY <1>4, ConcatProperties
  <2>2. Pointees(protect) = Pointees(Guarded(car)) \cup Pointees(Guarded(cdr))
    BY <1>4, PointeesConcat
  <2>3. Len(protect) <= 2
    <3>1. \A m, n \in 0..1 : m + n <= 2
      OBVIOUS
    <3> HIDE DEF protect
    <3> QED BY <1>4, <2>1, <3>1
  <2>4. Pointees(protect) = {car, cdr} \cap Obj
    BY <1>4, <2>2
  <2> QED BY <2>1, <2>3, <2>4
<1>6. Pointees(<<car, cdr>>) = {car, cdr} \cap Obj
  BY PointeesPair
<1>7. {car, cdr} \cap Obj \subseteq Heap
  BY <1>1, AtHandInHeap
<1>8. Pointees(<<car, cdr>>) \subseteq
        Reachable(Roots \cup Pointees(protect), slots)
  <2>1. Roots \cup Pointees(protect) \in SUBSET Obj
    BY <1>5, RootsAreObjects
  <2> QED BY <1>5, <1>6, <2>1, RootsReachable
<1>9. ArgsOK'
  BY <1>2, <1>3 DEF Request, ArgsOK, Constructs, HasShape, LeafTypes
<1> HIDE DEF protect
<1> QED BY <1>1, <1>2, <1>3, <1>5, <1>6, <1>7, <1>8, <1>9, RequestStep,
           RequestNames DEF protect

(* The parser's calls of newPair protect nothing: the collector is off.    *)
LEMMA NewPairStep == ASSUME IInv, NewPair PROVE Core'
<1>1. Idle /\ phase = "mutator" /\ parsing
  BY DEF NewPair, Idle
<1>2. PICK car \in held \cup {Nil} :
        Request("pair", <<car, Nil>>, "hold", <<>>)
  BY DEF NewPair
<1>3. /\ car \in Value /\ <<car, Nil>> \in Seq(Value)
      /\ Len(<<car, Nil>>) = 2
  BY <1>1, MutatorFacts DEF Value
<1>4. Pointees(<<car, Nil>>) \subseteq Heap /\ Pointees(<<>>) = {}
  BY <1>1, MutatorFacts, PointeesPair DEF Pointees
<1>5. ~isOn
  BY <1>1 DEF IInv, SessionOK
<1>6. ArgsOK'
  BY <1>2, <1>3 DEF Request, ArgsOK, Constructs, HasShape, LeafTypes
<1>7. <<>> \in Seq(Value) /\ Len(<<>>) <= 2
  OBVIOUS
<1> QED BY <1>1, <1>2, <1>3, <1>4, <1>5, <1>6, <1>7, RequestStep,
           RequestNames

LEMMA NewVectorStep == ASSUME IInv, NewVector PROVE Core'
<1>1. Idle /\ Request("vector", <<>>, "hold", <<>>)
  BY DEF NewVector
<1>2. Pointees(<<>>) = {} /\ <<>> \in Seq(Value) /\ Len(<<>>) <= 2
  BY DEF Pointees
<1>3. ArgsOK'
  BY <1>1 DEF Request, ArgsOK, Constructs, HasShape, LeafTypes
<1> QED BY <1>1, <1>2, <1>3, RequestStep, RequestNames

(* The end of a list is reachable from the list.                           *)
LEMMA FinalPairReachable ==
  ASSUME IInv, NEW from \in SUBSET Obj, NEW pair \in from, NEW final \in Obj,
         IsFinalPair(final, pair)
  PROVE  final \in Reachable(from, slots)
<1> SUFFICES ASSUME NEW S \in SUBSET Obj, from \subseteq S, IsClosed(S, slots)
             PROVE  final \in S
  BY DEF Reachable
<1>1. FollowsCdr(S)
  <2> SUFFICES ASSUME NEW p \in S, IsPair(p), IsPair(slots[p][2])
               PROVE  slots[p][2] \in S
    BY DEF FollowsCdr
  <2>1. slots[p] \in Seq(Value) /\ Len(slots[p]) = 2
    BY DEF IsPair, IInv, TypeOK, HeapOK, HasShape
  <2>2. slots[p][2] \in Pointees(slots[p])
    BY <2>1 DEF IsPair, Pointees
  <2> QED BY <2>2 DEF IsClosed
<1> QED BY <1>1 DEF IsFinalPair

LEMMA PointeesTriple ==
  ASSUME NEW u, NEW v, NEW w
  PROVE  Pointees(<<u, v, w>>) = {u, v, w} \cap Obj
<1>1. /\ DOMAIN <<u, v, w>> = {1, 2, 3} /\ <<u, v, w>>[1] = u
      /\ <<u, v, w>>[2] = v /\ <<u, v, w>>[3] = w
  OBVIOUS
<1> QED BY <1>1 DEF Pointees

LEMMA AppendElementStep == ASSUME IInv, AppendElement PROVE Core'
<1>1. Idle /\ phase = "mutator"
  BY DEF AppendElement, Idle
<1>2. PICK pair \in AtHand, value \in AtHand \cup {Nil}, final \in Heap :
        /\ IsPair(pair) /\ IsFinalPair(final, pair)
        /\ Request("append", <<pair, value, final>>, "none", <<value, pair>>)
  BY DEF AppendElement
<1> DEFINE args == <<pair, value, final>>
           protect == <<value, pair>>
<1>3. /\ pair \in Heap /\ {value} \cap Obj \subseteq Heap /\ value \in Value
      /\ final \in Heap /\ Heap \subseteq Obj
  BY <1>1, AtHandInHeap DEF Value
<1>4. /\ args \in Seq(Value) /\ Len(args) = 3
      /\ protect \in Seq(Value) /\ Len(protect) <= 2
  BY <1>3 DEF Value
<1>5. /\ Pointees(args) = {pair, final} \cup ({value} \cap Obj)
      /\ Pointees(protect) = {pair} \cup ({value} \cap Obj)
  BY <1>3, PointeesPair, PointeesTriple
<1>6. Pointees(args) \subseteq Reachable(Roots \cup Pointees(protect), slots)
  <2>1. Roots \cup Pointees(protect) \in SUBSET Obj
    BY <1>3, <1>5, RootsAreObjects
  <2>2. final \in Reachable(Roots \cup Pointees(protect), slots)
    BY <1>2, <1>3, <1>5, <2>1, FinalPairReachable
  <2>3. Pointees(protect) \subseteq
          Reachable(Roots \cup Pointees(protect), slots)
    BY <2>1, RootsReachable
  <2> QED BY <1>5, <2>2, <2>3
<1>7. ArgsOK'
  <2>1. Is("PAIR", final) /\ UNCHANGED type
    BY <1>2, <1>3 DEF IsFinalPair, IsPair, Is, Request, heapVars
  <2>2. op'.name = "append" /\ op'.args = args
    BY <1>2 DEF Request
  <2>3. args[3] = final
    OBVIOUS
  <2> QED BY <1>4, <2>1, <2>2, <2>3 DEF ArgsOK, Constructs, Is
<1>8. Request("append", args, "none", protect)
  BY <1>2
<1> HIDE DEF args, protect
<1> QED BY <1>1, <1>3, <1>4, <1>5, <1>6, <1>7, <1>8, RequestStep,
           RequestNames

(* writeValueArray protects the value; the array's owner has to be         *)
(* reachable already when the collector is on.                             *)
LEMMA WriteStep ==
  ASSUME IInv, Idle,
         NEW owner \in Heap, NEW value \in Value, {value} \cap Obj \subseteq Heap,
         isOn => owner \in Roots,
         Is("VECTOR", owner) \/ Is("FUNCTION", owner),
         Request("write", <<owner, value>>, "none", <<value>>)
  PROVE  Core'
<1> DEFINE args == <<owner, value>>
           protect == <<value>>
<1>1. owner \in Obj /\ phase = "mutator"
  BY MutatorFacts DEF Idle
<1>2. /\ args \in Seq(Value) /\ Len(args) = 2
      /\ protect \in Seq(Value) /\ Len(protect) <= 2
  BY <1>1 DEF Value
<1>3. /\ Pointees(args) = {owner} \cup ({value} \cap Obj)
      /\ Pointees(protect) = {value} \cap Obj
  BY <1>1, PointeesPair, PointeesSingle
<1>4. isOn =>
        Pointees(args) \subseteq Reachable(Roots \cup Pointees(protect), slots)
  <2>1. Roots \cup Pointees(protect) \in SUBSET Obj
    BY <1>3, RootsAreObjects
  <2> QED BY <1>3, <2>1, RootsReachable
<1>5. ArgsOK'
  <2>1. op'.name = "write" /\ op'.args = args /\ UNCHANGED type
    BY DEF Request, heapVars
  <2>2. args[1] = owner
    OBVIOUS
  <2> QED BY <1>2, <2>1, <2>2 DEF ArgsOK, Constructs, Is
<1>6. Request("write", args, "none", protect)
  OBVIOUS
<1>7. Pointees(args) \subseteq Heap /\ Pointees(protect) \subseteq Heap
  BY <1>3
<1> HIDE DEF args, protect
<1> QED BY <1>2, <1>4, <1>5, <1>6, <1>7, RequestStep, RequestNames

LEMMA VectorAppendStep == ASSUME IInv, VectorAppend PROVE Core'
<1>1. Idle /\ phase = "mutator"
  BY DEF VectorAppend, Idle
<1>2. PICK vector \in IF isOn THEN Pointees(stack) ELSE held,
           value \in AtHand \cup {Nil} :
        /\ type[vector] = "VECTOR"
        /\ Request("write", <<vector, value>>, "none", <<value>>)
  BY DEF VectorAppend
<1>3. vector \in Heap /\ (isOn => vector \in Roots)
  BY <1>1, <1>2, MutatorFacts DEF Roots
<1>4. value \in Value /\ {value} \cap Obj \subseteq Heap
  BY <1>1, AtHandInHeap DEF Value
<1>5. Is("VECTOR", vector)
  BY <1>1, <1>2, <1>3, MutatorFacts DEF Is
<1> QED BY <1>1, <1>2, <1>3, <1>4, <1>5, WriteStep

LEMMA MakeConstantStep == ASSUME IInv, MakeConstant PROVE Core'
<1>1. Idle /\ phase = "mutator"
  BY DEF MakeConstant, Running, Idle
<1>2. PICK value \in held \cup {Nil} :
        Request("write", <<compilers[1], value>>, "none", <<value>>)
  BY DEF MakeConstant
<1>3. compilers[1] \in Pointees(compilers)
  <2>1. compilers \in Seq(Obj) /\ compilers # <<>>
    BY DEF MakeConstant, IInv, TypeOK, RootsOK
  <2>2. 1 \in DOMAIN compilers
    BY <2>1
  <2> QED BY <2>1, <2>2 DEF Pointees
<1>4. compilers[1] \in Heap /\ compilers[1] \in Roots
  BY <1>1, <1>3, MutatorFacts DEF Roots
<1>5. value \in Value /\ {value} \cap Obj \subseteq Heap
  BY <1>1, MutatorFacts DEF Value
<1>6. Is("FUNCTION", compilers[1])
  BY <1>3 DEF TypesFit, IInv
<1> QED BY <1>1, <1>2, <1>4, <1>5, <1>6, WriteStep

LEMMA NewSymbolStep == ASSUME IInv, NewSymbol PROVE Core'
<1>1. Idle /\ Request("symbol", <<>>, "hold", <<>>)
  BY DEF NewSymbol
<1>2. Pointees(<<>>) = {} /\ <<>> \in Seq(Value) /\ Len(<<>>) <= 2
  BY DEF Pointees
<1>3. ArgsOK'
  BY <1>1 DEF Request, ArgsOK, Constructs
<1> QED BY <1>1, <1>2, <1>3, RequestStep, RequestNames

LEMMA InitCompilerStep == ASSUME IInv, InitCompiler PROVE Core'
<1>1. Idle /\ Request("function", <<>>, "none", <<>>)
  BY DEF InitCompiler, Running
<1>2. Pointees(<<>>) = {} /\ <<>> \in Seq(Value) /\ Len(<<>>) <= 2
  BY DEF Pointees
<1>3. ArgsOK'
  BY <1>1 DEF Request, ArgsOK, Constructs
<1> QED BY <1>1, <1>2, <1>3, RequestStep, RequestNames

(* newClosure of a function that is reachable or was just pushed.          *)
LEMMA NewClosureStep ==
  ASSUME IInv, Idle, NEW f \in Heap, Is("FUNCTION", f),
         NEW then \in {"call", "capture"}, NEW protect \in {<<>>, <<f>>},
         then = "capture" => frames # <<>>,
         f \in Reachable(Roots \cup Pointees(protect), slots),
         Request("closure", <<f>>, then, protect)
  PROVE  Core'
<1> DEFINE args == <<f>>
<1>1. f \in Obj /\ args \in Seq(Value) /\ Len(args) = 1 /\ args[1] = f
  BY DEF Is, Value
<1>2. protect \in Seq(Value) /\ Len(protect) <= 2
        /\ Pointees(protect) \subseteq Heap
  <2>1. CASE protect = <<>>
    BY <2>1 DEF Pointees
  <2>2. CASE protect = <<f>>
    BY <1>1, <2>2, PointeesSingle
  <2> QED BY <2>1, <2>2
<1>3. Pointees(args) = {f}
  BY <1>1, PointeesSingle
<1>4. ArgsOK'
  <2>1. /\ op'.name = "closure" /\ op'.args = args /\ op'.then = then
        /\ UNCHANGED <<type, frames>>
    BY DEF Request, heapVars
  <2> QED BY <1>1, <2>1 DEF ArgsOK, Constructs, Is
<1>5. Request("closure", args, then, protect)
  OBVIOUS
<1> HIDE DEF args
<1> QED BY <1>1, <1>2, <1>3, <1>4, <1>5, RequestStep, RequestNames

LEMMA InterpretStep == ASSUME IInv, Interpret PROVE Core'
<1>1. Idle /\ phase = "mutator"
  BY DEF Interpret, Running, Idle
<1>2. PICK f \in held : /\ type[f] = "FUNCTION"
                        /\ Request("closure", <<f>>, "call", <<f>>)
  BY DEF Interpret
<1>3. f \in Heap /\ Is("FUNCTION", f)
  BY <1>1, <1>2, MutatorFacts DEF Is
<1>4. f \in Reachable(Roots \cup Pointees(<<f>>), slots)
  <2>1. Pointees(<<f>>) = {f}
    BY <1>3, PointeesSingle DEF Is
  <2>2. Roots \cup Pointees(<<f>>) \in SUBSET Obj
    BY <1>3, <2>1, RootsAreObjects DEF Is
  <2> QED BY <2>1, <2>2, RootsReachable
<1> QED BY <1>1, <1>2, <1>3, <1>4, NewClosureStep

LEMMA OpClosureStep == ASSUME IInv, OpClosure PROVE Core'
<1>1. Idle /\ phase = "mutator" /\ frames # <<>>
  BY DEF OpClosure, Running, Idle
<1>2. PICK f \in Constants(slots[TopFrame][1]) :
        /\ type[f] = "FUNCTION" /\ Request("closure", <<f>>, "capture", <<>>)
  BY DEF OpClosure
<1>3. f \in Heap /\ Is("FUNCTION", f) /\ f \in Reachable(Roots, slots)
  BY <1>1, <1>2, TopFrameFacts, MutatorFacts DEF Is
<1>4. Roots \cup Pointees(<<>>) = Roots
  BY DEF Pointees
<1> QED BY <1>1, <1>2, <1>3, <1>4, NewClosureStep

(* The last slot of a frame is one of the stack.                           *)
LEMMA LocalsAreSlots ==
  ASSUME IInv
  PROVE  Locals \subseteq DOMAIN stack
<1>1. /\ stack \in Seq(Value) /\ bases \in Seq(Nat \ {0})
      /\ Len(bases) = Len(frames) /\ frames \in Seq(Obj)
  BY DEF IInv, TypeOK, RootsOK, FramesOK
<1>2. CASE frames = <<>>
  BY <1>1, <1>2 DEF Locals
<1>3. CASE frames # <<>>
  <2>1. Len(bases) \in DOMAIN bases
    BY <1>1, <1>3
  <2>2. Last(bases) \in Nat \ {0}
    BY <1>1, <2>1 DEF Last
  <2> QED BY <1>1, <1>3, <2>2 DEF Locals
<1> QED BY <1>2, <1>3

LEMMA TemporaryFacts ==
  ASSUME IInv, HasTemporary
  PROVE  /\ stack \in Seq(Value) /\ Len(stack) \in DOMAIN stack /\ stack # <<>>
         /\ Last(stack) \in Value /\ {Last(stack)} \cap Obj \subseteq Roots
<1>1. Len(stack) \in DOMAIN stack /\ stack \in Seq(Value)
  BY LocalsAreSlots DEF HasTemporary, AreTemporaries, IInv, TypeOK, RootsOK
<1> QED BY <1>1 DEF Last, Roots, Pointees

LEMMA SetsGlobalStep ==
  ASSUME IInv, NEW then \in {"pop", "set"}, SetsGlobal(then) PROVE Core'
<1>1. Idle /\ phase = "mutator" /\ frames # <<>> /\ HasTemporary
  BY DEF SetsGlobal, Running, Idle
<1>2. PICK name \in Constants(slots[TopFrame][1]) :
        /\ type[name] = "SYMBOL"
        /\ Request("define", <<name, Last(stack)>>, then, <<>>)
  BY DEF SetsGlobal
<1> DEFINE args == <<name, Last(stack)>>
<1>3. stack \in Seq(Value) /\ Len(stack) \in DOMAIN stack
  BY <1>1, TemporaryFacts
<1>4. Last(stack) \in Value /\ {Last(stack)} \cap Obj \subseteq Roots
  BY <1>1, TemporaryFacts
<1>5. name \in Heap /\ Is("SYMBOL", name) /\ name \in Reachable(Roots, slots)
  BY <1>1, <1>2, TopFrameFacts, MutatorFacts DEF Is
<1>6. args \in Seq(Value) /\ Len(args) = 2 /\ args[1] = name
  BY <1>4, <1>5 DEF Is, Value
<1>7. Pointees(args) = {name} \cup ({Last(stack)} \cap Obj)
  BY <1>5, PointeesPair DEF Is
<1>8. Roots \cup Pointees(<<>>) = Roots /\ Pointees(<<>>) = {}
  BY DEF Pointees
<1>9. Pointees(args) \subseteq Heap
        /\ Pointees(args) \subseteq Reachable(Roots, slots)
  BY <1>1, <1>4, <1>5, <1>7, MutatorFacts, RootsAreObjects, RootsReachable
<1>10. ArgsOK'
  <2>1. /\ op'.name = "define" /\ op'.args = args /\ UNCHANGED type
        /\ op'.pushed = 0 /\ stack' = stack
    BY <1>2, <1>3 DEF Request, heapVars
  <2>2. Len(stack) > 0
    BY <1>3
  <2> QED BY <1>5, <1>6, <2>1, <2>2 DEF ArgsOK, Constructs, Is
<1>11. <<>> \in Seq(Value) /\ Len(<<>>) <= 2
  OBVIOUS
<1>12. Request("define", args, then, <<>>)
  BY <1>2
<1>13. /\ "define" \in OpNames \ {"none"}
       /\ then \in {"none", "hold", "call", "capture", "pop", "set"}
  BY RequestNames
<1> HIDE DEF args
<1> QED BY <1>1, <1>6, <1>8, <1>9, <1>10, <1>11, <1>12, <1>13, RequestStep
-----------------------------------------------------------------------------
(***************************************************************************)
(* The steps that finish an operation, and the other moves.                *)
(***************************************************************************)

(* The fields and types of the allocated objects are as they should be.    *)
FieldsFit ==
  /\ \A o \in Heap : Pointees(slots[o]) \subseteq Heap
  /\ \A c \in Heap : type[c] = "CLOSURE" => FitsClosure(slots[c])

(* The roots hold allocated objects of the right types.                    *)
RootsFit ==
  /\ Roots \cup held \cup strings \subseteq Heap
  /\ \A c \in Pointees(frames) : Is("CLOSURE", c)
  /\ \A f \in Pointees(compilers) : Is("FUNCTION", f)
  /\ \A u \in Pointees(openUpvalues) : Is("UPVALUE", u)
  /\ \A s \in strings : Is("SYMBOL", s)

LEMMA MutatorFits ==
  ASSUME IInv, phase = "mutator"
  PROVE  /\ FieldsFit /\ RootsFit /\ HeapOK /\ RootsOK /\ OpOK
         /\ isOn \in BOOLEAN /\ parsing \in BOOLEAN /\ SessionOK /\ ArgsOK
         /\ Heap \subseteq Obj /\ Pointees(op.args) \subseteq Heap
<1>1. FieldsFit
  BY MutatorFacts DEF FieldsFit, TypesFit, IInv
<1>2. RootsFit
  BY MutatorFacts DEF RootsFit, TypesFit, IInv, InUse
<1> QED BY <1>1, <1>2, MutatorFacts DEF IInv, TypeOK, GcOK

(* An operation that is over.                                              *)
LEMMA IdleAfter ==
  ASSUME IInv, phase = "mutator", op' = NoOp, UNCHANGED gcVars,
         HeapOK', RootsOK', FieldsFit', RootsFit',
         Len(objects) <= Len(objects'),
         isOn' \in BOOLEAN, parsing' \in BOOLEAN, parsing' => ~isOn'
  PROVE  Core'
<1>1. Pointees(op'.args) = {}
  BY DEF NoOp, Pointees
<1>2. OpOK'
  <2>1. NoOp \in [name : OpNames, args : Seq(Value),
                  then : {"none", "hold", "initString", "native", "name",
                          "call", "capture", "pop", "set"},
                  pushed : 0..2]
    <3>1. <<>> \in Seq(Value) /\ "none" \in OpNames /\ 0 \in 0..2
      BY DEF OpNames
    <3> QED BY <3>1 DEF NoOp
  <2>2. Len(stack') \in Nat
    BY DEF RootsOK
  <2> QED BY <2>1, <2>2 DEF OpOK, NoOp
<1>3. ArgsOK'
  BY DEF ArgsOK, NoOp, Constructs
<1>4. SessionOK'
  BY DEF SessionOK, gcVars, Collecting
<1>5. InUse' \cup strings' \subseteq Heap'
  BY <1>1 DEF InUse, RootsFit
<1>6. LocalsAreProtected'
  BY <1>1 DEF LocalsAreProtected
<1>7. /\ \A o \in Heap' : Pointees(slots'[o]) \subseteq Heap'
      /\ \A c \in Heap' :
           type'[c] = "CLOSURE" => FitsClosure(slots[c])'
  BY DEF FieldsFit
<1>8. /\ \A c \in Pointees(frames') : Is("CLOSURE", c)'
      /\ \A f \in Pointees(compilers') : Is("FUNCTION", f)'
      /\ \A u \in Pointees(openUpvalues') : Is("UPVALUE", u)'
      /\ \A s \in strings' : Is("SYMBOL", s)'
  BY DEF RootsFit
<1> QED BY <1>2, <1>3, <1>4, <1>5, <1>6, <1>7, <1>8, MutatorStep

(* An operation that goes on: what its locals point to stays reachable.    *)
LEMMA WaitingAfter ==
  ASSUME IInv, phase = "mutator", op # NoOp, UNCHANGED <<session, gcVars>>,
         held' = held,
         HeapOK', RootsOK', OpOK', ArgsOK', FieldsFit', RootsFit',
         Len(objects) <= Len(objects'),
         Pointees(op'.args) \subseteq Heap',
         isOn => Pointees(op'.args) \subseteq Reachable(Roots', slots')
  PROVE  Core'
<1>1. isOn' = isOn /\ parsing' = parsing /\ phase' = phase
  BY DEF session, gcVars
<1>2. SessionOK'
  BY <1>1, MutatorFits DEF SessionOK, Collecting
<1>3. InUse' \cup strings' \subseteq Heap'
  BY DEF InUse, RootsFit
<1>4. LocalsAreProtected'
  BY <1>1 DEF LocalsAreProtected
<1>5. /\ \A o \in Heap' : Pointees(slots'[o]) \subseteq Heap'
      /\ \A c \in Heap' :
           type'[c] = "CLOSURE" => FitsClosure(slots[c])'
  BY DEF FieldsFit
<1>6. /\ \A c \in Pointees(frames') : Is("CLOSURE", c)'
      /\ \A f \in Pointees(compilers') : Is("FUNCTION", f)'
      /\ \A u \in Pointees(openUpvalues') : Is("UPVALUE", u)'
      /\ \A s \in strings' : Is("SYMBOL", s)'
  BY DEF RootsFit
<1>7. isOn' \in BOOLEAN /\ parsing' \in BOOLEAN
  BY <1>1, MutatorFits
<1> QED BY <1>2, <1>3, <1>4, <1>5, <1>6, <1>7, MutatorStep

(* Reachability survives steps that only add.                              *)
LEMMA ReachableKept ==
  ASSUME IInv, phase = "mutator", Roots \subseteq Roots',
         \A o \in Heap : Pointees(slots[o]) \subseteq Pointees(slots'[o])
  PROVE  Reachable(Roots, slots) \subseteq Reachable(Roots', slots')
<1>1. Heap \in SUBSET Obj /\ Roots \subseteq Heap /\ IsClosed(Heap, slots)
  BY MutatorFacts DEF IsClosed
<1> QED BY <1>1, ReachableGrows

(* A new object.                                                           *)
LEMMA NewObject ==
  ASSUME IInv, phase = "mutator", NEW o \in Obj \ Heap, NEW t \in ObjType,
         objects' = <<o>> \o objects, type' = [type EXCEPT ![o] = t]
  PROVE  /\ objects' \in Seq(Obj) /\ IsInjective(objects')
         /\ Len(objects) <= Len(objects')
         /\ Heap' = Heap \cup {o}
         /\ type' \in [Obj -> ObjType \cup {"FREE"}]
         /\ \A x \in Obj : x \in Heap' <=> type'[x] # "FREE"
         /\ \A x \in Obj \ {o} : type'[x] = type[x]
         /\ type'[o] = t
<1>1. objects \in Seq(Obj) /\ IsInjective(objects) /\ Len(objects) \in Nat
  BY DEF IInv, TypeOK, HeapOK
<1>2. /\ objects' \in Seq(Obj) /\ IsInjective(objects')
      /\ Len(objects') = Len(objects) + 1
      /\ Heap' = {o} \cup Heap
  BY <1>1, ToSetCons DEF Heap
<1>3. type \in [Obj -> ObjType \cup {"FREE"}]
        /\ \A x \in Obj : x \in Heap <=> type[x] # "FREE"
  BY DEF IInv, TypeOK, HeapOK
<1>4. t # "FREE"
  BY DEF ObjType, LeafTypes
<1> QED BY <1>1, <1>2, <1>3, <1>4

(* An object that keeps its type is as good a field as before.             *)
LEMMA StillFits ==
  ASSUME IInv, \A x \in Heap : type'[x] = type[x]
  PROVE  /\ \A t \in ObjType, v \in Obj : Is(t, v) => Is(t, v)'
         /\ \A fields \in Seq(Value) :
              FitsClosure(fields) => FitsClosure(fields)'
<1>1. /\ \A o \in Obj : o \in Heap <=> type[o] # "FREE"
      /\ \A t \in ObjType : t # "FREE"
  BY DEF IInv, TypeOK, HeapOK, ObjType, LeafTypes
<1>2. \A t \in ObjType, v \in Obj : Is(t, v) => Is(t, v)'
  BY <1>1 DEF Is
<1>3. ASSUME NEW fields \in Seq(Value), FitsClosure(fields)
      PROVE  FitsClosure(fields)'
  <2>1. "FUNCTION" \in ObjType /\ "UPVALUE" \in ObjType
    BY DEF ObjType
  <2> QED BY <1>2, <1>3, <2>1 DEF FitsClosure, Is
<1> QED BY <1>2, <1>3

(* Create: the new object is filled and nothing else changes.              *)
LEMMA Created ==
  ASSUME IInv, phase = "mutator", NEW o \in Obj, NEW t \in ObjType,
         NEW fields \in Seq(Value), Create(o, t, fields),
         HasShape(fields, t), Pointees(fields) \subseteq Heap,
         t = "CLOSURE" => FitsClosure(fields)
  PROVE  /\ HeapOK' /\ FieldsFit' /\ Len(objects) <= Len(objects')
         /\ Heap' = Heap \cup {o} /\ o \notin Heap /\ type'[o] = t
         /\ \A x \in Heap : type'[x] = type[x] /\ slots'[x] = slots[x]
<1>1. /\ o \notin Heap
      /\ objects' = <<o>> \o objects /\ type' = [type EXCEPT ![o] = t]
      /\ slots' = [slots EXCEPT ![o] = fields]
  BY DEF Create
<1>2. /\ objects' \in Seq(Obj) /\ IsInjective(objects')
      /\ Len(objects) <= Len(objects')
      /\ Heap' = Heap \cup {o}
      /\ type' \in [Obj -> ObjType \cup {"FREE"}]
      /\ \A x \in Obj : x \in Heap' <=> type'[x] # "FREE"
      /\ \A x \in Obj \ {o} : type'[x] = type[x]
      /\ type'[o] = t
  BY <1>1, NewObject
<1>3. /\ slots \in [Obj -> Seq(Value)] /\ FieldsFit /\ Heap \subseteq Obj
      /\ \A x \in Obj : HasShape(slots[x], type[x])
  BY MutatorFits DEF HeapOK
<1>4. /\ slots' \in [Obj -> Seq(Value)] /\ slots'[o] = fields
      /\ \A x \in Obj \ {o} : slots'[x] = slots[x]
  BY <1>1, <1>3
<1>5. HeapOK'
  BY <1>2, <1>3, <1>4 DEF HeapOK
<1>6. \A x \in Heap' : Pointees(slots'[x]) \subseteq Heap'
  BY <1>2, <1>3, <1>4 DEF FieldsFit
<1>7. \A x \in Heap : type'[x] = type[x]
  BY <1>1, <1>2, <1>3
<1>8. \A c \in Heap' : type'[c] = "CLOSURE" => FitsClosure(slots[c])'
  <2> SUFFICES ASSUME NEW c \in Heap', type'[c] = "CLOSURE"
               PROVE  FitsClosure(slots[c])'
    OBVIOUS
  <2>1. PICK old \in Seq(Value) : FitsClosure(old) /\ slots'[c] = old
    BY <1>1, <1>2, <1>3, <1>4 DEF FieldsFit
  <2>2. FitsClosure(old)'
    BY <1>7, <2>1, StillFits
  <2> QED BY <2>1, <2>2 DEF FitsClosure
<1> QED BY <1>1, <1>2, <1>3, <1>4, <1>5, <1>6, <1>8 DEF FieldsFit

(* What was in the roots and keeps its type is still fit to be there.      *)
LEMMA RootsStillFit ==
  ASSUME IInv, phase = "mutator", Heap \subseteq Heap',
         \A x \in Heap : type'[x] = type[x]
  PROVE  /\ Roots \cup held \cup strings \subseteq Heap'
         /\ \A c \in Pointees(frames) : Is("CLOSURE", c)'
         /\ \A f \in Pointees(compilers) : Is("FUNCTION", f)'
         /\ \A u \in Pointees(openUpvalues) : Is("UPVALUE", u)'
         /\ \A s \in strings : Is("SYMBOL", s)'
BY MutatorFits DEF RootsFit, Roots, Is

LEMMA FinishConstructorStep ==
  ASSUME IInv, FinishConstructor PROVE Core'
<1>1. /\ phase = "mutator" /\ op.name \in DOMAIN Constructs
      /\ stack' = Pops(op.pushed) /\ op' = NoOp
      /\ UNCHANGED <<frames, openUpvalues, globals, compilers, initString,
                     strings, session, gcVars>>
  BY DEF FinishConstructor
<1>2. PICK o \in Obj : /\ Create(o, Constructs[op.name], op.args)
                       /\ held' = held \cup {o}
  BY DEF FinishConstructor
<1> DEFINE t == Constructs[op.name]
<1>3. t \in ObjType /\ t # "CLOSURE"
  BY <1>1 DEF Constructs, ObjType
<1>4. /\ op.args \in Seq(Value) /\ HasShape(op.args, t)
      /\ Pointees(op.args) \subseteq Heap
  BY <1>1, MutatorFits DEF ArgsOK, OpOK
<1> HIDE DEF t
<1>5. /\ HeapOK' /\ FieldsFit' /\ Len(objects) <= Len(objects')
      /\ Heap' = Heap \cup {o}
      /\ \A x \in Heap : type'[x] = type[x]
  BY <1>1, <1>2, <1>3, <1>4, Created DEF t
<1>6. /\ stack' \in Seq(Value) /\ Pointees(stack') \subseteq Pointees(stack)
  BY <1>1, MutatorFits, PointeesPop DEF Pops, RootsOK, OpOK
<1>7. RootsOK'
  BY <1>1, <1>2, <1>6, MutatorFits DEF RootsOK
<1>8. RootsFit'
  <2>1. Roots' \subseteq Roots
    BY <1>1, <1>6 DEF Roots
  <2> QED BY <1>1, <1>2, <1>5, <2>1, RootsStillFit DEF RootsFit
<1>9. isOn' \in BOOLEAN /\ parsing' \in BOOLEAN /\ (parsing' => ~isOn')
  BY <1>1, MutatorFits DEF session, SessionOK
<1> QED BY <1>1, <1>5, <1>7, <1>8, <1>9, IdleAfter

(* What is left of the stack after n pops.                                 *)
LEMMA Popped ==
  ASSUME IInv, phase = "mutator"
  PROVE  /\ Pops(op.pushed) \in Seq(Value)
         /\ Len(Pops(op.pushed)) = Len(stack) - op.pushed
         /\ Pointees(Pops(op.pushed)) \subseteq Pointees(stack)
<1>1. stack \in Seq(Value) /\ op.pushed \in Nat /\ op.pushed <= Len(stack)
  BY DEF IInv, TypeOK, RootsOK, OpOK
<1> QED BY <1>1, PointeesPop DEF Pops

(* A write to the fields of one object.                                    *)
LEMMA Rewritten ==
  ASSUME IInv, phase = "mutator", UNCHANGED <<objects, type>>,
         NEW o \in Obj, NEW fields \in Seq(Value),
         slots' = [slots EXCEPT ![o] = fields],
         HasShape(fields, type[o]), Pointees(fields) \subseteq Heap,
         type[o] = "CLOSURE" => FitsClosure(fields)
  PROVE  /\ HeapOK' /\ FieldsFit' /\ Heap' = Heap
         /\ Len(objects) <= Len(objects')
         /\ slots'[o] = fields
         /\ \A x \in Obj \ {o} : slots'[x] = slots[x]
         /\ \A x \in Heap : type'[x] = type[x]
<1>1. HeapOK /\ FieldsFit /\ Heap \subseteq Obj
  BY MutatorFits
<1>2. /\ slots' \in [Obj -> Seq(Value)] /\ slots'[o] = fields
      /\ \A x \in Obj \ {o} : slots'[x] = slots[x]
  BY <1>1 DEF HeapOK
<1>3. Heap' = Heap
  BY DEF Heap
<1>4. HeapOK'
  BY <1>1, <1>2, <1>3 DEF HeapOK
<1>5. Len(objects) \in Nat
  BY <1>1 DEF HeapOK
<1>6. FieldsFit'
  <2>1. \A x \in Heap' : Pointees(slots'[x]) \subseteq Heap'
    BY <1>1, <1>2, <1>3 DEF FieldsFit
  <2>2. \A c \in Heap' : type'[c] = "CLOSURE" => FitsClosure(slots[c])'
    BY <1>1, <1>2, <1>3 DEF FieldsFit, FitsClosure, Is
  <2> QED BY <2>1, <2>2 DEF FieldsFit
<1> QED BY <1>2, <1>3, <1>4, <1>5, <1>6

(* A new object, and a write that makes an older one, p, point to it.      *)
LEMMA CreatedAndLinked ==
  ASSUME IInv, phase = "mutator",
         NEW o \in Obj \ Heap, NEW t \in ObjType, NEW fields \in Seq(Value),
         NEW p \in Heap, NEW pfields \in Seq(Value),
         objects' = <<o>> \o objects, type' = [type EXCEPT ![o] = t],
         slots' = [slots EXCEPT ![o] = fields, ![p] = pfields],
         t # "CLOSURE", HasShape(fields, t), HasShape(pfields, type[p]),
         Pointees(fields) \subseteq Heap,
         Pointees(pfields) \subseteq Heap \cup {o},
         type[p] = "CLOSURE" =>
           /\ Is("FUNCTION", pfields[1])
           /\ \A u \in Pointees(Tail(pfields)) : type'[u] = "UPVALUE"
  PROVE  /\ HeapOK' /\ FieldsFit' /\ Len(objects) <= Len(objects')
         /\ Heap' = Heap \cup {o} /\ type'[o] = t
         /\ slots'[p] = pfields /\ slots'[o] = fields
         /\ \A x \in Heap \ {p} : slots'[x] = slots[x]
         /\ \A x \in Heap : type'[x] = type[x]
<1>1. /\ objects' \in Seq(Obj) /\ IsInjective(objects')
      /\ Len(objects) <= Len(objects')
      /\ Heap' = Heap \cup {o}
      /\ type' \in [Obj -> ObjType \cup {"FREE"}]
      /\ \A x \in Obj : x \in Heap' <=> type'[x] # "FREE"
      /\ \A x \in Obj \ {o} : type'[x] = type[x]
      /\ type'[o] = t
  BY NewObject
<1>2. /\ HeapOK /\ FieldsFit /\ Heap \subseteq Obj /\ p \in Obj /\ p # o
  BY MutatorFits
<1>3. /\ slots' \in [Obj -> Seq(Value)]
      /\ slots'[o] = fields /\ slots'[p] = pfields
      /\ \A x \in Obj \ {o, p} : slots'[x] = slots[x]
  BY <1>2 DEF HeapOK
<1>4. \A x \in Obj : HasShape(slots'[x], type'[x])
  <2> SUFFICES ASSUME NEW x \in Obj PROVE HasShape(slots'[x], type'[x])
    OBVIOUS
  <2>1. CASE x = o
    BY <1>1, <1>3, <2>1
  <2>2. CASE x = p
    BY <1>1, <1>2, <1>3, <2>2
  <2>3. CASE x \notin {o, p}
    BY <1>1, <1>2, <1>3, <2>3 DEF HeapOK
  <2> QED BY <2>1, <2>2, <2>3
<1>5. HeapOK'
  BY <1>1, <1>3, <1>4 DEF HeapOK
<1>6. \A x \in Heap' : Pointees(slots'[x]) \subseteq Heap'
  BY <1>1, <1>2, <1>3 DEF FieldsFit
<1>7. \A x \in Heap : type'[x] = type[x]
  BY <1>1, <1>2
<1>8. \A c \in Heap' : type'[c] = "CLOSURE" => FitsClosure(slots[c])'
  <2> SUFFICES ASSUME NEW c \in Heap', type'[c] = "CLOSURE"
               PROVE  FitsClosure(slots[c])'
    OBVIOUS
  <2>1. c \in Heap /\ type[c] = "CLOSURE"
    BY <1>1, <1>2
  <2>2. CASE c = p
    <3>1. Is("FUNCTION", pfields[1])'
      BY <1>7, <2>1, <2>2, StillFits DEF Is, ObjType
    <3>2. \A u \in Pointees(Tail(pfields)) : u \in Obj /\ type'[u] = "UPVALUE"
      BY <2>1, <2>2 DEF Pointees
    <3> QED BY <1>3, <2>2, <3>1, <3>2 DEF FitsClosure, Is
  <2>3. CASE c # p
    <3>1. PICK old \in Seq(Value) : FitsClosure(old) /\ slots'[c] = old
      BY <1>2, <1>3, <2>1, <2>3 DEF FieldsFit
    <3>2. FitsClosure(old)'
      BY <1>7, <3>1, StillFits
    <3> QED BY <3>1, <3>2 DEF FitsClosure
  <2> QED BY <2>2, <2>3
<1>9. FieldsFit'
  BY <1>6, <1>8 DEF FieldsFit
<1> QED BY <1>1, <1>2, <1>3, <1>5, <1>9

(* The pair at the end of the list now points to the new pair.             *)
LEMMA FinishAppendElementStep ==
  ASSUME IInv, FinishAppendElement PROVE Core'
<1> DEFINE final == op.args[3]
           value == op.args[2]
<1>1. /\ phase = "mutator" /\ op.name = "append"
      /\ stack' = Pops(op.pushed) /\ op' = NoOp
      /\ UNCHANGED <<frames, openUpvalues, globals, compilers, initString,
                     strings, session, held, gcVars>>
  BY DEF FinishAppendElement, Finishing
<1>2. PICK o \in Obj \ Heap :
        /\ objects' = <<o>> \o objects
        /\ type' = [type EXCEPT ![o] = "PAIR"]
        /\ slots' = [slots EXCEPT ![o] = <<value, Nil>>,
                                  ![final] = <<slots[final][1], o>>]
  BY DEF FinishAppendElement
<1>3. /\ Len(op.args) = 3 /\ final \in Obj
      /\ type[final] = "PAIR" /\ op.args \in Seq(Value)
      /\ Pointees(op.args) \subseteq Heap
  BY <1>1, MutatorFits DEF ArgsOK, OpOK, Is
<1>4. value \in Value /\ {value} \cap Obj \subseteq Heap /\ final \in Heap
  <2>1. {2, 3} \subseteq DOMAIN op.args
    BY <1>3
  <2> QED BY <1>3, <2>1 DEF Pointees
<1>5. /\ slots[final][1] \in Value
      /\ {slots[final][1]} \cap Obj \subseteq Heap
  <2>1. HeapOK /\ FieldsFit
    BY <1>1, MutatorFits
  <2>2. slots[final] \in Seq(Value) /\ HasShape(slots[final], type[final])
    BY <1>3, <2>1 DEF HeapOK
  <2>3. 1 \in DOMAIN slots[final]
    BY <1>3, <2>2 DEF HasShape
  <2>4. Pointees(slots[final]) \subseteq Heap
    BY <1>4, <2>1 DEF FieldsFit
  <2> QED BY <2>2, <2>3, <2>4 DEF Pointees
<1> HIDE DEF final, value
<1>6. /\ <<value, Nil>> \in Seq(Value) /\ HasShape(<<value, Nil>>, "PAIR")
      /\ <<slots[final][1], o>> \in Seq(Value)
      /\ HasShape(<<slots[final][1], o>>, type[final])
      /\ "PAIR" \in ObjType
  BY <1>3, <1>4, <1>5 DEF Value, HasShape, LeafTypes, ObjType
<1>7. /\ Pointees(<<value, Nil>>) \subseteq Heap
      /\ Pointees(<<slots[final][1], o>>) \subseteq Heap \cup {o}
  BY <1>4, <1>5, PointeesPair
<1>8. /\ HeapOK' /\ FieldsFit' /\ Len(objects) <= Len(objects')
      /\ Heap' = Heap \cup {o}
      /\ \A x \in Heap : type'[x] = type[x]
  BY <1>1, <1>2, <1>3, <1>4, <1>6, <1>7, CreatedAndLinked
<1>9. stack' \in Seq(Value) /\ Pointees(stack') \subseteq Pointees(stack)
  BY <1>1, Popped
<1>10. RootsOK'
  BY <1>1, <1>9, MutatorFits DEF RootsOK
<1>11. RootsFit'
  <2>1. Roots' \subseteq Roots
    BY <1>1, <1>9 DEF Roots
  <2> QED BY <1>1, <1>8, <2>1, RootsStillFit DEF RootsFit
<1>12. isOn' \in BOOLEAN /\ parsing' \in BOOLEAN /\ (parsing' => ~isOn')
  BY <1>1, MutatorFits DEF session, SessionOK
<1> QED BY <1>1, <1>8, <1>10, <1>11, <1>12, IdleAfter

(* writeValueArray keeps its array's owner and its value on the way.       *)
LEMMA FinishWriteValueArrayStep ==
  ASSUME IInv, FinishWriteValueArray PROVE Core'
<1> DEFINE owner == op.args[1]
           value == op.args[2]
           fields == Append(slots[owner], value)
<1>1. /\ phase = "mutator" /\ op.name = "write"
      /\ slots' = [slots EXCEPT ![owner] = Append(@, value)]
      /\ stack' = Pops(op.pushed) /\ op' = NoOp
      /\ UNCHANGED <<objects, type, frames, openUpvalues, globals, compilers,
                     initString, strings, session, held, gcVars>>
  BY DEF FinishWriteValueArray, Finishing
<1>2. /\ Len(op.args) = 2 /\ op.args \in Seq(Value) /\ owner \in Obj
      /\ type[owner] \in {"VECTOR", "FUNCTION"}
      /\ Pointees(op.args) \subseteq Heap
  BY <1>1, MutatorFits DEF ArgsOK, OpOK, Is
<1>3. owner \in Heap /\ value \in Value /\ {value} \cap Obj \subseteq Heap
  <2>1. {1, 2} \subseteq DOMAIN op.args
    BY <1>2
  <2> QED BY <1>2, <2>1 DEF Pointees
<1>4. slots[owner] \in Seq(Value) /\ HasShape(slots[owner], type[owner])
        /\ Pointees(slots[owner]) \subseteq Heap
  BY <1>1, <1>2, <1>3, MutatorFits DEF HeapOK, FieldsFit
<1>5. fields \in Seq(Value) /\ fields # <<>>
  <2> DEFINE old == slots[owner]
  <2>1. old \in Seq(Value) /\ value \in Value
    BY <1>3, <1>4
  <2> HIDE DEF old, value
  <2>2. Append(old, value) \in Seq(Value) /\ Append(old, value) # <<>>
    BY <2>1
  <2> QED BY <2>2 DEF old
<1>6. HasShape(fields, type[owner]) /\ type[owner] # "CLOSURE"
  BY <1>2, <1>5 DEF HasShape, LeafTypes
<1>7. Pointees(fields) \subseteq Heap
  BY <1>3, <1>4, PointeesAppend
<1>8. slots' = [slots EXCEPT ![owner] = fields]
  BY <1>1
<1> HIDE DEF owner, value, fields
<1>9. /\ HeapOK' /\ FieldsFit' /\ Heap' = Heap
      /\ Len(objects) <= Len(objects')
      /\ \A x \in Heap : type'[x] = type[x]
  BY <1>1, <1>2, <1>5, <1>6, <1>7, <1>8, Rewritten
<1>10. stack' \in Seq(Value) /\ Pointees(stack') \subseteq Pointees(stack)
  BY <1>1, Popped
<1>11. RootsOK'
  BY <1>1, <1>10, MutatorFits DEF RootsOK
<1>12. RootsFit'
  <2>1. Roots' \subseteq Roots
    BY <1>1, <1>10 DEF Roots
  <2> QED BY <1>1, <1>9, <2>1, RootsStillFit DEF RootsFit
<1>13. isOn' \in BOOLEAN /\ parsing' \in BOOLEAN /\ (parsing' => ~isOn')
  BY <1>1, MutatorFits DEF session, SessionOK
<1> QED BY <1>1, <1>9, <1>11, <1>12, <1>13, IdleAfter

(* A new object that is at once pushed.                                    *)
LEMMA CreatedAndPushed ==
  ASSUME IInv, phase = "mutator", NEW o \in Obj, NEW base \in Seq(Value),
         Pointees(base) \subseteq Pointees(stack),
         HeapOK', Heap' = Heap \cup {o}, stack' = Append(base, o),
         \A x \in Heap : type'[x] = type[x],
         UNCHANGED <<frames, openUpvalues, globals, compilers, initString,
                     strings, held>>
  PROVE  RootsOK' /\ RootsFit' /\ o \in Roots'
<1>1. stack' \in Seq(Value)
        /\ Pointees(stack') = Pointees(base) \cup {o}
  BY PointeesAppend DEF Value
<1>2. RootsOK'
  BY <1>1, MutatorFits DEF RootsOK
<1>3. Roots' \subseteq Roots \cup {o} /\ o \in Roots'
  BY <1>1 DEF Roots
<1> QED BY <1>2, <1>3, RootsStillFit DEF RootsFit

(* The new symbol waits on the stack for the table of strings to grow.     *)
LEMMA AllocateStringStep ==
  ASSUME IInv, AllocateString PROVE Core'
<1>1. /\ phase = "mutator" /\ op.name = "symbol"
      /\ UNCHANGED <<frames, openUpvalues, globals, compilers, initString,
                     strings, session, held, gcVars>>
  BY DEF AllocateString, Finishing
<1>2. PICK o \in Obj :
        /\ Create(o, "SYMBOL", <<>>)
        /\ stack' = Append(stack, o)
        /\ op' = [op EXCEPT !.name = "intern", !.args = <<o>> \o op.args,
                            !.pushed = 1]
  BY DEF AllocateString
<1>3. /\ "SYMBOL" \in ObjType /\ <<>> \in Seq(Value)
      /\ HasShape(<<>>, "SYMBOL") /\ Pointees(<<>>) = {}
  BY DEF ObjType, LeafTypes, HasShape, Pointees
<1>4. /\ HeapOK' /\ FieldsFit' /\ Len(objects) <= Len(objects')
      /\ Heap' = Heap \cup {o} /\ o \notin Heap /\ type'[o] = "SYMBOL"
      /\ \A x \in Heap : type'[x] = type[x] /\ slots'[x] = slots[x]
  BY <1>1, <1>2, <1>3, Created
<1>5. /\ op.args \in Seq(Value) /\ stack \in Seq(Value)
      /\ Pointees(op.args) \subseteq Heap
      /\ op \in [name : OpNames, args : Seq(Value),
                 then : {"none", "hold", "initString", "native", "name",
                         "call", "capture", "pop", "set"},
                 pushed : 0..2]
      /\ op.then \in {"hold", "initString", "native", "name"}
      /\ op.then = "name" => Len(op.args) = 1 /\ Is("FUNCTION", op.args[1])
  BY <1>1, MutatorFits DEF OpOK, ArgsOK, RootsOK
<1>6. RootsOK' /\ RootsFit' /\ o \in Roots'
  BY <1>1, <1>2, <1>4, <1>5, CreatedAndPushed
<1>7. /\ op'.name = "intern" /\ op'.args = <<o>> \o op.args
      /\ op'.then = op.then /\ op'.pushed = 1
  BY <1>2, <1>5
<1>8. /\ <<o>> \in Seq(Value) /\ <<o>> \o op.args \in Seq(Value)
      /\ Len(<<o>> \o op.args) = Len(op.args) + 1
      /\ (<<o>> \o op.args)[1] = o
      /\ Len(op.args) = 1 => (<<o>> \o op.args)[2] = op.args[1]
  BY <1>5 DEF Value
<1>9. OpOK'
  <2>1. "intern" \in OpNames /\ 1 \in 0..2
    BY DEF OpNames
  <2>2. op' \in [name : OpNames, args : Seq(Value),
                 then : {"none", "hold", "initString", "native", "name",
                         "call", "capture", "pop", "set"},
                 pushed : 0..2]
    BY <1>2, <1>5, <1>8, <2>1
  <2>3. Len(stack') = Len(stack) + 1 /\ Len(stack) \in Nat
    BY <1>2, <1>5
  <2> QED BY <1>7, <2>2, <2>3 DEF OpOK
<1>10. ArgsOK'
  <2>1. Is("SYMBOL", o)'
    BY <1>4 DEF Is
  <2>2. ASSUME op.then = "name"
        PROVE  Len(op'.args) = 2 /\ Is("FUNCTION", op.args[2])'
    <3>1. op'.args[2] = op.args[1] /\ Len(op'.args) = 2
      BY <1>5, <1>7, <1>8, <2>2
    <3>2. op.args[1] \in Heap
      <4>1. 1 \in DOMAIN op.args
        BY <1>5, <2>2
      <4> QED BY <1>5, <2>2, <4>1 DEF Pointees, Is
    <3> QED BY <1>4, <1>5, <2>2, <3>1, <3>2 DEF Is
  <2>3. op'.args # <<>> /\ op'.args[1] = o
    <3>1. Len(<<o>> \o op.args) # 0 /\ Len(<<>>) = 0
      BY <1>5, <1>8
    <3> QED BY <1>7, <1>8, <3>1
  <2> QED BY <1>5, <1>7, <2>1, <2>2, <2>3 DEF ArgsOK, Constructs
<1>11. Pointees(op'.args) = {o} \cup Pointees(op.args)
  <2>1. Pointees(<<o>> \o op.args) = Pointees(<<o>>) \cup Pointees(op.args)
    BY <1>5, <1>8, PointeesConcat
  <2>2. Pointees(<<o>>) = {o}
    BY PointeesSingle
  <2> QED BY <1>7, <2>1, <2>2
<1>12. Roots \subseteq Roots'
  <2>1. o \in Value /\ {o} \cap Obj = {o}
    BY DEF Value
  <2>2. Pointees(stack') = Pointees(stack) \cup {o}
    BY <1>2, <1>5, <2>1, PointeesAppend
  <2> QED BY <1>1, <2>2 DEF Roots
<1>13. isOn => Pointees(op'.args) \subseteq Reachable(Roots', slots')
  <2> SUFFICES ASSUME isOn
               PROVE  Pointees(op'.args) \subseteq Reachable(Roots', slots')
    OBVIOUS
  <2>1. Pointees(op.args) \subseteq Reachable(Roots, slots)
    BY DEF IInv, LocalsAreProtected
  <2>2. Reachable(Roots, slots) \subseteq Reachable(Roots', slots')
    BY <1>1, <1>4, <1>12, ReachableKept
  <2>3. o \in Reachable(Roots', slots')
    <3>1. Roots' \in SUBSET Obj
      BY DEF Roots, Pointees
    <3> QED BY <1>6, <3>1, RootsReachable
  <2> QED BY <1>11, <2>1, <2>2, <2>3
<1> QED BY <1>1, <1>4, <1>5, <1>6, <1>9, <1>10, <1>11, <1>13, WaitingAfter
        DEF NoOp

(* What is known when the table of strings has room for the symbol.        *)
LEMMA InternFacts ==
  ASSUME IInv, Intern
  PROVE  /\ phase = "mutator" /\ op # NoOp /\ op.pushed = 1
         /\ op.args[1] \in Heap /\ Is("SYMBOL", op.args[1])
         /\ strings' = strings \cup {op.args[1]}
         /\ op.then = "name" =>
              op.args[2] \in Heap /\ Is("FUNCTION", op.args[2])
         /\ UNCHANGED <<objects, type, frames, openUpvalues, globals,
                        compilers, session, gcVars>>
         /\ HeapOK /\ FieldsFit /\ RootsFit /\ RootsOK /\ OpOK
         /\ Heap' = Heap /\ Heap \subseteq Obj
         /\ Len(objects) <= Len(objects')
<1>1. /\ phase = "mutator" /\ op.name = "intern"
      /\ strings' = strings \cup {op.args[1]}
      /\ UNCHANGED <<objects, type, frames, openUpvalues, globals,
                     compilers, session, gcVars>>
  BY DEF Intern, Finishing
<1>2. /\ HeapOK /\ FieldsFit /\ RootsFit /\ RootsOK /\ OpOK /\ ArgsOK
      /\ Pointees(op.args) \subseteq Heap /\ Heap \subseteq Obj
  BY <1>1, MutatorFits
<1>3. /\ op.args # <<>> /\ Is("SYMBOL", op.args[1]) /\ op.pushed = 1
      /\ op.then = "name" => Len(op.args) = 2 /\ Is("FUNCTION", op.args[2])
  BY <1>1, <1>2 DEF ArgsOK
<1>4. op.args \in Seq(Value)
  BY <1>2 DEF OpOK
<1>5. 1 \in DOMAIN op.args /\ (op.then = "name" => 2 \in DOMAIN op.args)
  BY <1>3, <1>4
<1>6. /\ op.args[1] \in Heap
      /\ op.then = "name" => op.args[2] \in Heap
  BY <1>2, <1>3, <1>5 DEF Pointees, Is
<1>7. Heap' = Heap
  BY <1>1 DEF Heap
<1>8. Len(objects) <= Len(objects')
  BY <1>1, <1>2 DEF HeapOK
<1> QED BY <1>1, <1>2, <1>3, <1>6, <1>7, <1>8 DEF NoOp

(* The symbol is in strings from now on; what its caller does with it      *)
(* keeps it, and the collector will find it.                               *)
LEMMA InternStep ==
  ASSUME IInv, Intern PROVE Core'
<1>0. PICK symbol : symbol = op.args[1]
  OBVIOUS
<1>1. /\ phase = "mutator" /\ op # NoOp /\ op.pushed = 1
      /\ symbol \in Heap /\ Is("SYMBOL", symbol)
      /\ strings' = strings \cup {symbol}
      /\ op.then = "name" =>
           op.args[2] \in Heap /\ Is("FUNCTION", op.args[2])
      /\ UNCHANGED <<objects, type, frames, openUpvalues, globals,
                     compilers, session, gcVars>>
      /\ HeapOK /\ FieldsFit /\ RootsFit /\ RootsOK /\ OpOK
      /\ Heap' = Heap /\ Heap \subseteq Obj
      /\ Len(objects) <= Len(objects')
  BY <1>0, InternFacts
<1>2. /\ isOn' \in BOOLEAN /\ parsing' \in BOOLEAN /\ (parsing' => ~isOn')
  BY <1>1, MutatorFits DEF session, SessionOK
<1>3. Pops(1) \in Seq(Value) /\ Pointees(Pops(1)) \subseteq Pointees(stack)
  BY <1>1, Popped
<1>4. /\ Roots \cup held \cup strings \subseteq Heap'
      /\ \A c \in Pointees(frames) : Is("CLOSURE", c)'
      /\ \A f \in Pointees(compilers) : Is("FUNCTION", f)'
      /\ \A u \in Pointees(openUpvalues) : Is("UPVALUE", u)'
      /\ \A s \in strings' : Is("SYMBOL", s)'
  <2>1. Is("SYMBOL", symbol)'
    BY <1>1 DEF Is
  <2> QED BY <1>1, <2>1, RootsStillFit
<1>5. ASSUME UNCHANGED slots PROVE HeapOK' /\ FieldsFit'
  BY <1>1, <1>5 DEF HeapOK, FieldsFit, FitsClosure, Is, Heap, HasShape
<1> DEFINE nextSymbol == [NoOp EXCEPT !.name = "symbol", !.then = "native"]
<1> HIDE DEF nextSymbol
<1>6. CASE /\ op.then = "hold"
          /\ held' = held \cup {symbol}
          /\ stack' = Pops(1) /\ op' = NoOp
          /\ UNCHANGED <<slots, initString>>
  <2>1. RootsOK'
    BY <1>1, <1>3, <1>6 DEF RootsOK
  <2>2. Roots' \subseteq Roots
    BY <1>1, <1>3, <1>6 DEF Roots
  <2>3. RootsFit'
    BY <1>1, <1>4, <1>6, <2>2 DEF RootsFit
  <2> QED BY <1>1, <1>2, <1>5, <1>6, <2>1, <2>3, IdleAfter
<1>7. CASE /\ op.then = "initString"
          /\ initString' = symbol
          /\ stack' = Pops(1)
          /\ op' \in {NoOp, nextSymbol}
          /\ UNCHANGED <<slots, held>>
  <2>1. RootsOK'
    <3>1. symbol \in Obj
      BY <1>1
    <3> QED BY <1>1, <1>3, <1>7, <3>1 DEF RootsOK, Value
  <2>2. Roots' \subseteq Roots \cup {symbol}
    BY <1>1, <1>3, <1>7 DEF Roots
  <2>3. RootsFit'
    <3>1. symbol \in Heap' /\ strings' \subseteq Heap' /\ Roots' \cup held' \subseteq Heap'
      BY <1>1, <1>4, <1>7, <2>2
    <3> QED BY <1>1, <1>4, <1>7, <3>1 DEF RootsFit
  <2>4. CASE op' = NoOp
    BY <1>1, <1>2, <1>5, <1>7, <2>1, <2>3, <2>4, IdleAfter
  <2>5. CASE op' = nextSymbol
    <3>1. op' = [name |-> "symbol", args |-> <<>>, then |-> "native",
                 pushed |-> 0]
      BY <2>5 DEF NoOp, nextSymbol
    <3>2. OpOK'
      <4>1. /\ "symbol" \in OpNames /\ <<>> \in Seq(Value) /\ 0 \in 0..2
          /\ Len(stack') \in Nat
        BY <1>3, <1>7 DEF OpNames
      <4> QED BY <3>1, <4>1 DEF OpOK
    <3>3. ArgsOK'
      BY <3>1 DEF ArgsOK, Constructs
    <3>4. Pointees(op'.args) = {}
      BY <3>1 DEF Pointees
    <3> QED BY <1>1, <1>5, <1>7, <2>1, <2>3, <3>2, <3>3, <3>4, WaitingAfter
  <2> QED BY <1>7, <2>4, <2>5
<1>8. CASE /\ op.then = "native"
          /\ op' = [NoOp EXCEPT !.name = "native", !.args = <<symbol>>]
          /\ UNCHANGED <<slots, stack, initString, held>>
  <2>1. op' = [name |-> "native", args |-> <<symbol>>, then |-> "none",
               pushed |-> 0]
    BY <1>8 DEF NoOp
  <2>2. RootsOK' /\ Roots' = Roots
    BY <1>1, <1>8 DEF RootsOK, Roots
  <2>3. RootsFit'
    BY <1>1, <1>4, <1>8, <2>2 DEF RootsFit
  <2>4. OpOK'
    <3>1. /\ "native" \in OpNames /\ 0 \in 0..2
          /\ Len(stack') \in Nat
      BY <2>2 DEF OpNames, RootsOK
    <3>2. <<symbol>> \in Seq(Value)
      BY <1>1 DEF Value
    <3> QED BY <2>1, <3>1, <3>2 DEF OpOK
  <2>5. ArgsOK'
    <3>1. Is("SYMBOL", symbol)' /\ Len(<<symbol>>) = 1 /\ <<symbol>>[1] = symbol
      BY <1>1 DEF Is
    <3>2. stack' # <<>>
      <4>1. Len(stack) # 0 /\ stack' = stack
        BY <1>1, <1>8 DEF OpOK, RootsOK
      <4> QED BY <4>1
    <3> QED BY <2>1, <3>1, <3>2 DEF ArgsOK, Constructs
  <2>6. Pointees(op'.args) \subseteq {symbol}
    BY <2>1, PointeesSingle
  <2>7. isOn => Pointees(op'.args) \subseteq Reachable(Roots', slots')
    <3>1. symbol \in Pointees(op.args)
      <4>1. op.args # <<>> /\ op.args \in Seq(Value)
        BY <1>1, MutatorFits DEF Intern, Finishing, ArgsOK, OpOK
      <4>2. 1 \in DOMAIN op.args
        BY <4>1
      <4> QED BY <1>0, <1>1, <4>2 DEF Pointees, Is
    <3>2. isOn => symbol \in Reachable(Roots, slots)
      BY <3>1 DEF IInv, LocalsAreProtected
    <3> QED BY <1>8, <2>2, <2>6, <3>2
  <2> QED BY <1>1, <1>5, <1>8, <2>2, <2>3, <2>4, <2>5, <2>6, <2>7,
             WaitingAfter
<1>9. CASE /\ op.then = "name"
          /\ slots' = [slots EXCEPT ![op.args[2]] = <<symbol>> \o Tail(@)]
          /\ stack' = Pops(1) /\ op' = NoOp
          /\ UNCHANGED <<initString, held>>
  <2> DEFINE f == op.args[2]
             fields == <<symbol>> \o Tail(slots[f])
  <2>1. f \in Heap /\ f \in Obj /\ type[f] = "FUNCTION"
    BY <1>1, <1>9 DEF Is
  <2>2. /\ slots[f] \in Seq(Value) /\ slots[f] # <<>>
        /\ Pointees(slots[f]) \subseteq Heap
    BY <1>1, <2>1 DEF HeapOK, HasShape, FieldsFit
  <2>3. /\ Tail(slots[f]) \in Seq(Value)
        /\ Pointees(Tail(slots[f])) \subseteq Heap
    BY <2>2, PointeesTail
  <2>4. <<symbol>> \in Seq(Value) /\ symbol \in Obj
    BY <1>1 DEF Value
  <2>5. fields \in Seq(Value) /\ fields # <<>>
    <3> DEFINE rest == Tail(slots[f])
    <3>1. rest \in Seq(Value)
      BY <2>3
    <3> HIDE DEF rest
    <3>2. <<symbol>> \o rest \in Seq(Value) /\ <<symbol>> \o rest # <<>>
      BY <2>4, <3>1
    <3> QED BY <3>2 DEF rest
  <2>6. Pointees(fields) \subseteq Heap
    <3>1. Pointees(<<symbol>>) \subseteq Heap
      BY <1>1, PointeesSingle
    <3> QED BY <2>3, <2>4, <3>1, PointeesConcat
  <2>7. slots' = [slots EXCEPT ![f] = fields]
    BY <1>9
  <2> HIDE DEF f, fields
  <2>8. HasShape(fields, type[f])
    BY <2>1, <2>5 DEF HasShape, LeafTypes
  <2>9. HeapOK' /\ FieldsFit'
    BY <1>1, <2>1, <2>5, <2>6, <2>7, <2>8, Rewritten
  <2>10. RootsOK'
    BY <1>1, <1>3, <1>9 DEF RootsOK
  <2>11. Roots' \subseteq Roots
    BY <1>1, <1>3, <1>9 DEF Roots
  <2>12. RootsFit'
    BY <1>1, <1>4, <1>9, <2>11 DEF RootsFit
  <2> QED BY <1>1, <1>2, <1>9, <2>9, <2>10, <2>12, IdleAfter
<1>10. \/ op.then = "hold" /\ held' = held \cup {symbol}
          /\ stack' = Pops(1) /\ op' = NoOp /\ UNCHANGED <<slots, initString>>
       \/ op.then = "initString" /\ initString' = symbol
          /\ stack' = Pops(1) /\ op' \in {NoOp, nextSymbol}
          /\ UNCHANGED <<slots, held>>
       \/ op.then = "native"
          /\ op' = [NoOp EXCEPT !.name = "native", !.args = <<symbol>>]
          /\ UNCHANGED <<slots, stack, initString, held>>
       \/ op.then = "name"
          /\ slots' = [slots EXCEPT ![op.args[2]] = <<symbol>> \o Tail(@)]
          /\ stack' = Pops(1) /\ op' = NoOp /\ UNCHANGED <<initString, held>>
  BY <1>0 DEF Intern, nextSymbol
<1> QED BY <1>6, <1>7, <1>8, <1>9, <1>10

(* The new native waits on the stack while the table of globals grows.     *)
LEMMA FinishNativeStep ==
  ASSUME IInv, FinishNative PROVE Core'
<1>1. /\ phase = "mutator" /\ op.name = "native" /\ op # NoOp
      /\ UNCHANGED <<frames, openUpvalues, globals, compilers, initString,
                     strings, session, held, gcVars>>
  BY DEF FinishNative, Finishing, NoOp
<1>2. PICK o \in Obj :
        /\ Create(o, "NATIVE", <<>>)
        /\ stack' = Append(stack, o)
        /\ op' = [name |-> "define", then |-> "pop",
                  args |-> op.args \o <<o>>, pushed |-> 1]
  BY DEF FinishNative
<1>3. /\ "NATIVE" \in ObjType /\ <<>> \in Seq(Value)
      /\ HasShape(<<>>, "NATIVE") /\ Pointees(<<>>) = {}
  BY DEF ObjType, LeafTypes, HasShape, Pointees
<1>4. /\ HeapOK' /\ FieldsFit' /\ Len(objects) <= Len(objects')
      /\ Heap' = Heap \cup {o}
      /\ \A x \in Heap : type'[x] = type[x] /\ slots'[x] = slots[x]
  BY <1>1, <1>2, <1>3, Created
<1>5. /\ op.args \in Seq(Value) /\ stack \in Seq(Value)
      /\ Pointees(op.args) \subseteq Heap /\ op.pushed \in Nat
      /\ Len(op.args) = 1 /\ Is("SYMBOL", op.args[1])
  BY <1>1, MutatorFits DEF OpOK, ArgsOK, RootsOK
<1>6. RootsOK' /\ RootsFit' /\ o \in Roots'
  BY <1>1, <1>2, <1>4, <1>5, CreatedAndPushed
<1> DEFINE args == op.args \o <<o>>
<1>7. PICK symbol \in Obj : op.args[1] = symbol /\ type[symbol] = "SYMBOL"
  BY <1>5 DEF Is
<1>8. /\ <<o>> \in Seq(Value) /\ args \in Seq(Value) /\ Len(args) = 2
      /\ args[1] = symbol
  <2>1. <<o>> \in Seq(Value) /\ Len(<<o>>) = 1
    BY DEF Value
  <2>3. args \in Seq(Value) /\ Len(args) = 2 /\ args[1] = op.args[1]
    BY <1>5, <2>1, ConcatFirst
  <2> QED BY <1>7, <2>1, <2>3
<1>9. /\ op'.name = "define" /\ op'.args = args
      /\ op'.then = "pop" /\ op'.pushed = 1
  BY <1>2
<1>10. Len(stack') = Len(stack) + 1 /\ Len(stack) \in Nat
  BY <1>2, <1>5
<1>11. Len(stack) > 0
  <2>1. stack # <<>>
    BY <1>1, MutatorFits DEF ArgsOK
  <2> QED BY <1>5, <2>1
<1>12. OpOK'
  <2> HIDE DEF args
  <2>1. "define" \in OpNames /\ 1 \in 0..2
    BY DEF OpNames
  <2>2. op' = [name |-> "define", args |-> args, then |-> "pop",
               pushed |-> 1]
    BY <1>2 DEF args
  <2> QED BY <1>8, <1>10, <2>1, <2>2 DEF OpOK
<1>13. ArgsOK'
  <2> HIDE DEF args
  <2>1. symbol \in Heap
    BY <1>7, <1>1, MutatorFits DEF HeapOK
  <2>2. Is("SYMBOL", symbol)'
    BY <1>4, <1>7, <2>1 DEF Is
  <2>3. op'.pushed < Len(stack')
    BY <1>9, <1>10, <1>11
  <2> QED BY <1>8, <1>9, <2>2, <2>3 DEF ArgsOK, Constructs
<1>14. Pointees(op'.args) = Pointees(op.args) \cup {o}
  <2>1. Pointees(<<o>>) = {o}
    BY PointeesSingle
  <2> QED BY <1>5, <1>8, <1>9, <2>1, PointeesConcat
<1>15. Roots \subseteq Roots'
  <2>1. o \in Value /\ {o} \cap Obj = {o}
    BY DEF Value
  <2>2. Pointees(stack') = Pointees(stack) \cup {o}
    BY <1>2, <1>5, <2>1, PointeesAppend
  <2> QED BY <1>1, <2>2 DEF Roots
<1>16. isOn => Pointees(op'.args) \subseteq Reachable(Roots', slots')
  <2> SUFFICES ASSUME isOn
               PROVE  Pointees(op'.args) \subseteq Reachable(Roots', slots')
    OBVIOUS
  <2>1. Pointees(op.args) \subseteq Reachable(Roots, slots)
    BY DEF IInv, LocalsAreProtected
  <2>2. Reachable(Roots, slots) \subseteq Reachable(Roots', slots')
    BY <1>1, <1>4, <1>15, ReachableKept
  <2>3. o \in Reachable(Roots', slots')
    <3>1. Roots' \in SUBSET Obj
      BY DEF Roots, Pointees
    <3> QED BY <1>6, <3>1, RootsReachable
  <2> QED BY <1>14, <2>1, <2>2, <2>3
<1>17. Pointees(op'.args) \subseteq Heap'
  BY <1>4, <1>5, <1>14
<1> QED BY <1>1, <1>4, <1>6, <1>12, <1>13, <1>16, <1>17, WaitingAfter

(* The value was in the operation's locals, and becomes a root.            *)
LEMMA DefineFacts ==
  ASSUME IInv, Finishing("define"),
         globals' = [globals EXCEPT ![op.args[1]] = op.args[2]],
         stack' \in Seq(Value), Pointees(stack') \subseteq Pointees(stack),
         UNCHANGED <<heapVars, frames, openUpvalues, compilers, initString,
                     strings, session, held>>
  PROVE  RootsOK' /\ RootsFit'
<1>1. phase = "mutator" /\ op.name = "define"
  BY DEF Finishing
<1>2. /\ RootsFit /\ RootsOK /\ Heap \subseteq Obj
      /\ op.args \in Seq(Value) /\ Pointees(op.args) \subseteq Heap
      /\ Len(op.args) = 2 /\ Is("SYMBOL", op.args[1])
  BY <1>1, MutatorFits DEF OpOK, ArgsOK
<1>3. PICK name \in Heap, value \in Value :
        /\ op.args[1] = name /\ op.args[2] = value
        /\ {value} \cap Obj \subseteq Heap
  <2>1. {1, 2} \subseteq DOMAIN op.args
    BY <1>2
  <2>2. op.args[1] \in Heap /\ op.args[2] \in Value
          /\ {op.args[2]} \cap Obj \subseteq Heap
    BY <1>2, <2>1 DEF Pointees, Is
  <2> QED BY <2>2
<1>4. type' = type /\ Heap' = Heap
  BY DEF heapVars, Heap
<1>5. /\ globals' \in [Obj -> Value \cup {Absent}]
      /\ globals' = [globals EXCEPT ![name] = value]
  BY <1>2, <1>3 DEF RootsOK
<1>6. RootsOK'
  BY <1>2, <1>5 DEF RootsOK
<1>7. Roots' \subseteq Roots \cup {name} \cup ({value} \cap Obj)
  <2>1. Pointees(globals') \subseteq Pointees(globals) \cup ({value} \cap Obj)
    BY <1>2, <1>5 DEF Pointees, RootsOK
  <2>2. {x \in Obj : globals'[x] # Absent}
          \subseteq {x \in Obj : globals[x] # Absent} \cup {name}
    BY <1>2, <1>5 DEF RootsOK
  <2> QED BY <2>1, <2>2 DEF Roots
<1>8. RootsFit'
  BY <1>2, <1>3, <1>4, <1>7 DEF RootsFit, Is
<1> QED BY <1>6, <1>8

(* The objects are left alone.                                             *)
LEMMA ObjectsLeftAlone ==
  ASSUME IInv, phase = "mutator", UNCHANGED heapVars
  PROVE  /\ HeapOK' /\ FieldsFit' /\ Len(objects) <= Len(objects')
         /\ Heap' = Heap /\ \A x \in Heap : type'[x] = type[x]
BY MutatorFits DEF HeapOK, FieldsFit, FitsClosure, Is, HasShape, heapVars, Heap

LEMMA FinishDefineStep ==
  ASSUME IInv, FinishDefine PROVE Core'
<1>1. /\ phase = "mutator" /\ op.name = "define" /\ Finishing("define")
      /\ globals' = [globals EXCEPT ![op.args[1]] = op.args[2]]
      /\ stack' = Pops(1 + op.pushed) /\ op' = NoOp
      /\ UNCHANGED <<heapVars, frames, openUpvalues, compilers, initString,
                     strings, session, held, gcVars>>
  BY DEF FinishDefine, Finishing
<1>2. stack' \in Seq(Value) /\ Pointees(stack') \subseteq Pointees(stack)
  <2>1. 1 + op.pushed \in Nat /\ 1 + op.pushed <= Len(stack)
          /\ stack \in Seq(Value)
    BY <1>1, MutatorFits DEF RootsOK, OpOK, ArgsOK
  <2> QED BY <1>1, <2>1, PointeesPop DEF Pops
<1>3. RootsOK' /\ RootsFit'
  BY <1>1, <1>2, DefineFacts
<1>4. isOn' \in BOOLEAN /\ parsing' \in BOOLEAN /\ (parsing' => ~isOn')
  BY <1>1, MutatorFits DEF session, SessionOK
<1> QED BY <1>1, <1>3, <1>4, ObjectsLeftAlone, IdleAfter

(* resetStack leaves the roots in globals and compilers.                   *)
LEMMA ResetFacts ==
  ASSUME IInv, phase = "mutator", ResetStack,
         UNCHANGED <<heapVars, globals, compilers, initString, strings, held>>
  PROVE  RootsOK' /\ RootsFit'
<1>1. /\ stack' = <<>> /\ frames' = <<>>
      /\ openUpvalues' = [i \in 1..MaxStack |-> Nil]
  BY DEF ResetStack
<1>2. /\ Pointees(stack') = {} /\ Pointees(frames') = {}
      /\ Pointees(openUpvalues') = {}
  BY <1>1 DEF Pointees
<1>3. openUpvalues' \in [1..MaxStack -> Value]
        /\ stack' \in Seq(Value) /\ frames' \in Seq(Obj)
  BY <1>1 DEF Value
<1>4. RootsOK' /\ Roots' \subseteq Roots
  BY <1>2, <1>3, MutatorFits DEF RootsOK, Roots
<1>5. RootsFit'
  BY <1>2, <1>4, MutatorFits, ObjectsLeftAlone DEF RootsFit, Is, heapVars
<1> QED BY <1>4, <1>5

(* An assignment to a global, or the error that there is no such global.   *)
LEMMA FinishSetGlobalStep ==
  ASSUME IInv, FinishSetGlobal PROVE Core'
<1>1. /\ phase = "mutator" /\ Finishing("define") /\ op' = NoOp
      /\ UNCHANGED <<heapVars, compilers, initString, strings, session, held,
                     gcVars>>
  BY DEF FinishSetGlobal, Finishing
<1>2. RootsOK' /\ RootsFit'
  <2>1. CASE /\ globals' = [globals EXCEPT ![op.args[1]] = op.args[2]]
             /\ UNCHANGED <<stack, frames, bases, openUpvalues, loose>>
    <3>1. stack' \in Seq(Value) /\ Pointees(stack') \subseteq Pointees(stack)
      BY <1>1, <2>1, MutatorFits DEF RootsOK
    <3> QED BY <1>1, <2>1, <3>1, DefineFacts
  <2>2. CASE ResetStack /\ UNCHANGED globals
    BY <1>1, <2>2, ResetFacts
  <2> QED BY <2>1, <2>2 DEF FinishSetGlobal
<1>3. isOn' \in BOOLEAN /\ parsing' \in BOOLEAN /\ (parsing' => ~isOn')
  BY <1>1, MutatorFits DEF session, SessionOK
<1> QED BY <1>1, <1>2, <1>3, ObjectsLeftAlone, IdleAfter

(* The new function is a root before its name is made.                     *)
LEMMA FinishInitCompilerStep ==
  ASSUME IInv, FinishInitCompiler PROVE Core'
<1>1. /\ phase = "mutator" /\ op.name = "function" /\ op # NoOp
      /\ UNCHANGED <<stack, frames, openUpvalues, globals, initString,
                     strings, session, held, gcVars>>
  BY DEF FinishInitCompiler, Finishing, NoOp
<1> DEFINE naming(o) == [NoOp EXCEPT !.name = "symbol", !.args = <<o>>,
                                     !.then = "name"]
<1>2. PICK o \in Obj, name \in strings \cup {Nil} :
        /\ Create(o, "FUNCTION", <<name>>)
        /\ compilers' = <<o>> \o compilers
        /\ op' \in {NoOp, naming(o)}
  BY DEF FinishInitCompiler
<1>3. /\ HeapOK /\ FieldsFit /\ RootsFit /\ RootsOK /\ Heap \subseteq Obj
      /\ (parsing => ~isOn) /\ isOn \in BOOLEAN /\ parsing \in BOOLEAN
  BY <1>1, MutatorFits DEF SessionOK
<1>4. /\ "FUNCTION" \in ObjType /\ <<name>> \in Seq(Value)
      /\ HasShape(<<name>>, "FUNCTION")
      /\ Pointees(<<name>>) \subseteq Heap
  <2>1. name \in Value /\ {name} \cap Obj \subseteq Heap
    BY <1>3 DEF RootsFit, Value
  <2>2. Pointees(<<name>>) \subseteq Heap
    BY <2>1, PointeesSingle
  <2>3. HasShape(<<name>>, "FUNCTION") /\ "FUNCTION" \in ObjType
    BY DEF HasShape, LeafTypes, ObjType
  <2> QED BY <2>1, <2>2, <2>3
<1>5. /\ HeapOK' /\ FieldsFit' /\ Len(objects) <= Len(objects')
      /\ Heap' = Heap \cup {o} /\ o \notin Heap /\ type'[o] = "FUNCTION"
      /\ \A x \in Heap : type'[x] = type[x] /\ slots'[x] = slots[x]
  BY <1>1, <1>2, <1>4, Created
<1>6. /\ compilers' \in Seq(Obj)
      /\ Pointees(compilers') = Pointees(compilers) \cup {o}
  <2>1. compilers \in Seq(Obj) /\ compilers \in Seq(Value)
          /\ <<o>> \in Seq(Obj) /\ <<o>> \in Seq(Value)
    BY <1>3 DEF RootsOK, Value
  <2>2. Pointees(<<o>>) = {o}
    BY PointeesSingle
  <2>3. Pointees(<<o>> \o compilers) = Pointees(<<o>>) \cup Pointees(compilers)
    BY <2>1, PointeesConcat
  <2>4. <<o>> \o compilers \in Seq(Obj)
    BY <2>1
  <2> QED BY <1>2, <2>2, <2>3, <2>4
<1>7. RootsOK'
  BY <1>1, <1>3, <1>6 DEF RootsOK
<1>8. Roots' = Roots \cup {o}
  BY <1>1, <1>6 DEF Roots
<1>9. RootsFit'
  <2>1. Is("FUNCTION", o)'
    BY <1>5 DEF Is
  <2> QED BY <1>1, <1>5, <1>6, <1>8, <2>1, RootsStillFit DEF RootsFit
<1>10. CASE op' = NoOp
  <2>1. isOn' = isOn /\ parsing' = parsing
    BY <1>1 DEF session
  <2> QED BY <1>1, <1>3, <1>5, <1>7, <1>9, <1>10, <2>1, IdleAfter
<1>11. CASE op' = naming(o)
  <2>1. op' = [name |-> "symbol", args |-> <<o>>, then |-> "name",
               pushed |-> 0]
    BY <1>11 DEF NoOp
  <2>2. <<o>> \in Seq(Value) /\ Len(<<o>>) = 1 /\ <<o>>[1] = o
    BY DEF Value
  <2>3. OpOK'
    <3>1. "symbol" \in OpNames /\ 0 \in 0..2 /\ Len(stack') \in Nat
      BY <1>7 DEF OpNames, RootsOK
    <3> QED BY <2>1, <2>2, <3>1 DEF OpOK
  <2>4. ArgsOK'
    <3>1. Is("FUNCTION", o)'
      BY <1>5 DEF Is
    <3> QED BY <2>1, <2>2, <3>1 DEF ArgsOK, Constructs
  <2>5. Pointees(op'.args) = {o}
    BY <2>1, PointeesSingle
  <2>6. {o} \subseteq Reachable(Roots', slots')
    <3>1. Roots' \in SUBSET Obj
      BY DEF Roots, Pointees
    <3> QED BY <1>8, <3>1, RootsReachable
  <2>7. {o} \subseteq Heap'
    BY <1>5
  <2> QED BY <1>1, <1>5, <1>7, <1>9, <2>3, <2>4, <2>5, <2>6, <2>7,
             WaitingAfter
<1> QED BY <1>2, <1>10, <1>11

(* The new closure is pushed; it is called, or captures its variables.     *)
LEMMA FinishClosureStep ==
  ASSUME IInv, FinishClosure PROVE Core'
<1>1. /\ phase = "mutator" /\ op.name = "closure" /\ op # NoOp
      /\ UNCHANGED <<openUpvalues, globals, compilers, initString, strings,
                     session, held, gcVars>>
  BY DEF FinishClosure, Finishing, NoOp
<1> DEFINE capture(o) == [NoOp EXCEPT !.name = "capture", !.args = <<o>>]
<1>2. PICK o \in Obj, n \in 0..UpvalueCount :
        /\ stack' = Append(Pops(op.pushed), o)
        /\ \/ /\ op.then = "call"
              /\ Create(o, "CLOSURE", op.args)
              /\ frames' = <<o>>
              /\ op' = NoOp
           \/ /\ op.then = "capture"
              /\ Create(o, "CLOSURE", op.args \o [i \in 1..n |-> Nil])
              /\ op' = capture(o)
              /\ UNCHANGED frames
  <2>1. 0 \in 0..UpvalueCount
    OBVIOUS
  <2> QED BY <2>1 DEF FinishClosure
<1> DEFINE nils == [i \in 1..n |-> Nil]
<1>3. /\ HeapOK /\ FieldsFit /\ RootsFit /\ RootsOK /\ Heap \subseteq Obj
      /\ (parsing => ~isOn) /\ isOn \in BOOLEAN /\ parsing \in BOOLEAN
      /\ op.args \in Seq(Value) /\ Pointees(op.args) \subseteq Heap
      /\ Len(op.args) = 1 /\ Is("FUNCTION", op.args[1])
      /\ op.then = "capture" => frames # <<>>
  BY <1>1, MutatorFits DEF SessionOK, OpOK, ArgsOK
<1>4. /\ "CLOSURE" \in ObjType /\ HasShape(op.args, "CLOSURE")
      /\ FitsClosure(op.args)
  <2>1. op.args # <<>>
    BY <1>3, EmptySeq
  <2>2. Pointees(Tail(op.args)) = {}
    BY <1>3, TailOfSingle
  <2> QED BY <1>3, <2>1, <2>2 DEF ObjType, HasShape, LeafTypes, FitsClosure
<1>5. /\ stack' \in Seq(Value)
      /\ Pointees(stack') \subseteq Pointees(stack) \cup {o}
      /\ o \in Pointees(stack')
  <2>1. o \in Value /\ {o} \cap Obj = {o}
    BY DEF Value
  <2>2. /\ Pops(op.pushed) \in Seq(Value)
        /\ Pointees(Pops(op.pushed)) \subseteq Pointees(stack)
    BY <1>1, Popped
  <2>3. Pointees(stack') = Pointees(Pops(op.pushed)) \cup {o}
    BY <1>2, <2>1, <2>2, PointeesAppend
  <2> QED BY <1>2, <2>1, <2>2, <2>3
<1>6. CASE /\ op.then = "call"
           /\ Create(o, "CLOSURE", op.args)
           /\ frames' = <<o>>
           /\ op' = NoOp
  <2>1. /\ HeapOK' /\ FieldsFit' /\ Len(objects) <= Len(objects')
        /\ Heap' = Heap \cup {o} /\ type'[o] = "CLOSURE"
        /\ \A x \in Heap : type'[x] = type[x]
    BY <1>1, <1>3, <1>4, <1>6, Created
  <2>2. frames' \in Seq(Obj) /\ Pointees(frames') = {o}
    BY <1>6, PointeesSingle
  <2>3. RootsOK'
    BY <1>1, <1>3, <1>5, <2>2 DEF RootsOK
  <2>4. Roots' \subseteq Roots \cup {o}
    BY <1>1, <1>5, <2>2 DEF Roots
  <2>5. RootsFit'
    <3>1. Is("CLOSURE", o)'
      BY <2>1 DEF Is
    <3> QED BY <1>1, <2>1, <2>2, <2>4, <3>1, RootsStillFit DEF RootsFit
  <2>6. isOn' = isOn /\ parsing' = parsing
    BY <1>1 DEF session
  <2> QED BY <1>1, <1>3, <1>6, <2>1, <2>3, <2>5, <2>6, IdleAfter
<1>7. CASE /\ op.then = "capture"
           /\ Create(o, "CLOSURE", op.args \o nils)
           /\ op' = capture(o)
           /\ UNCHANGED frames
  <2> DEFINE fields == op.args \o nils
  <2>1. nils \in Seq(Value) /\ Pointees(nils) = {}
    BY DEF Value, Pointees
  <2>2. /\ fields \in Seq(Value) /\ Pointees(fields) \subseteq Heap
        /\ fields # <<>> /\ fields[1] = op.args[1]
    <3> HIDE DEF nils
    <3> QED BY <1>3, <2>1, ConcatFirst, PointeesConcat
  <2>20. FitsClosure(fields)
    <3>1. \A j \in DOMAIN nils : nils[j] = Nil
      OBVIOUS
    <3>2. Pointees(Tail(fields)) = {}
      <4> HIDE DEF nils
      <4> QED BY <1>3, <2>1, <3>1, TailOfNils
    <3> HIDE DEF fields
    <3> QED BY <1>3, <2>2, <3>2 DEF FitsClosure
  <2>3. HasShape(fields, "CLOSURE")
    BY <2>2 DEF HasShape, LeafTypes
  <2>4. Create(o, "CLOSURE", fields)
    BY <1>7
  <2> HIDE DEF fields
  <2>5. /\ HeapOK' /\ FieldsFit' /\ Len(objects) <= Len(objects')
        /\ Heap' = Heap \cup {o} /\ type'[o] = "CLOSURE"
        /\ \A x \in Heap : type'[x] = type[x]
    BY <1>1, <1>3, <1>4, <2>2, <2>3, <2>4, <2>20, Created
  <2>6. RootsOK'
    BY <1>1, <1>3, <1>5, <1>7 DEF RootsOK
  <2>7. Roots' \subseteq Roots \cup {o} /\ o \in Roots'
    BY <1>1, <1>5, <1>7 DEF Roots
  <2>8. RootsFit'
    BY <1>1, <1>7, <2>5, <2>7, RootsStillFit DEF RootsFit
  <2>9. op' = [name |-> "capture", args |-> <<o>>, then |-> "none",
               pushed |-> 0]
    BY <1>7 DEF NoOp
  <2>10. <<o>> \in Seq(Value) /\ Len(<<o>>) = 1 /\ <<o>>[1] = o
    BY DEF Value
  <2>11. OpOK'
    <3>1. "capture" \in OpNames /\ 0 \in 0..2 /\ Len(stack') \in Nat
      BY <1>5 DEF OpNames
    <3> QED BY <2>9, <2>10, <3>1 DEF OpOK
  <2>12. ArgsOK'
    <3>1. Is("CLOSURE", o)' /\ frames' # <<>>
      BY <1>3, <1>7, <2>5 DEF Is
    <3> QED BY <2>9, <2>10, <3>1 DEF ArgsOK, Constructs
  <2>13. Pointees(op'.args) = {o}
    BY <2>9, PointeesSingle
  <2>14. {o} \subseteq Reachable(Roots', slots')
    <3>1. Roots' \in SUBSET Obj
      BY DEF Roots, Pointees
    <3> QED BY <2>7, <3>1, RootsReachable
  <2>15. {o} \subseteq Heap'
    BY <2>5
  <2> QED BY <1>1, <2>5, <2>6, <2>8, <2>11, <2>12, <2>13, <2>14, <2>15,
             WaitingAfter
<1> QED BY <1>2, <1>6, <1>7

(* The closure that is capturing, and what it captures next.               *)
LEMMA CaptureFacts ==
  ASSUME IInv, Finishing("capture"), NEW i \in 2..(1 + UpvalueCount),
         IsNext(i, op.args[1])
  PROVE  /\ phase = "mutator" /\ op # NoOp
         /\ op.args[1] \in Heap /\ op.args[1] \in Obj
         /\ type[op.args[1]] = "CLOSURE" /\ frames # <<>>
         /\ slots[op.args[1]] \in Seq(Value)
         /\ i \in 2..Len(slots[op.args[1]]) /\ slots[op.args[1]][i] = Nil
<1>1. phase = "mutator" /\ op.name = "capture"
  BY DEF Finishing
<1>2. /\ Len(op.args) = 1 /\ op.args \in Seq(Value) /\ frames # <<>>
      /\ Is("CLOSURE", op.args[1]) /\ Pointees(op.args) \subseteq Heap
      /\ HeapOK
  BY <1>1, MutatorFits DEF ArgsOK, OpOK
<1>3. 1 \in DOMAIN op.args
  BY <1>2
<1>4. op.args[1] \in Heap /\ op.args[1] \in Obj
  BY <1>2, <1>3 DEF Pointees, Is
<1> QED BY <1>1, <1>2, <1>4 DEF NoOp, IsNext, Uncaptured, HeapOK, Is

(* Filling a field that was Nil only adds a pointer.                       *)
LEMMA FieldFilled ==
  ASSUME NEW fields \in Seq(Value), NEW u \in Obj,
         NEW i \in 2..Len(fields), fields[i] = Nil
  PROVE  /\ [fields EXCEPT ![i] = u] \in Seq(Value)
         /\ Len([fields EXCEPT ![i] = u]) = Len(fields)
         /\ [fields EXCEPT ![i] = u] # <<>>
         /\ [fields EXCEPT ![i] = u][1] = fields[1]
         /\ Pointees([fields EXCEPT ![i] = u]) = Pointees(fields) \cup {u}
         /\ Pointees(Tail([fields EXCEPT ![i] = u]))
              \subseteq Pointees(Tail(fields)) \cup {u}
<1> DEFINE new == [fields EXCEPT ![i] = u]
<1>1. Len(fields) \in Nat /\ Len(fields) >= 2 /\ i \in DOMAIN fields
        /\ DOMAIN fields = 1..Len(fields) /\ i # 1 /\ 1 \in DOMAIN fields
  OBVIOUS
<1>2. u \in Value
  BY DEF Value
<1>3. new \in Seq(Value) /\ Len(new) = Len(fields)
  BY <1>1, <1>2, ExceptSeq
<1>4. /\ DOMAIN new = DOMAIN fields /\ new[i] = u
      /\ \A j \in DOMAIN fields \ {i} : new[j] = fields[j]
  BY <1>1
<1> HIDE DEF new
<1>5. Pointees(new) = Pointees(fields) \cup {u}
  BY <1>1, <1>4 DEF Pointees
<1>6. new # <<>>
  BY <1>1, <1>3
<1>7. new[1] = fields[1]
  BY <1>1, <1>4
<1>8. Pointees(Tail(new)) \subseteq Pointees(Tail(fields)) \cup {u}
  <2>1. \A j \in DOMAIN fields : new[j] \in {u, fields[j]}
    BY <1>4
  <2>2. fields # <<>>
    BY <1>1, EmptySeq
  <2> QED BY <1>3, <2>1, <2>2, TailFilled
<1> QED BY <1>3, <1>5, <1>6, <1>7, <1>8 DEF new

LEMMA CaptureNewStep ==
  ASSUME IInv, CaptureNew PROVE Core'
<1>1. PICK c : c = op.args[1]
  OBVIOUS
<1>2. PICK i \in 2..(1 + UpvalueCount), local \in 1..MaxStack,
           o \in Obj \ Heap :
        /\ IsNext(i, c)
        /\ openUpvalues[local] = Nil
        /\ objects' = <<o>> \o objects
        /\ type' = [type EXCEPT ![o] = "UPVALUE"]
        /\ slots' = [slots EXCEPT ![o] = <<Nil>>, ![c][i] = o]
        /\ openUpvalues' = [openUpvalues EXCEPT ![local] = o]
  <2>1. \A local \in Locals : local <= MaxStack => local \in 1..MaxStack
    <3>1. stack \in Seq(Value)
      BY DEF IInv, TypeOK, RootsOK
    <3> QED BY <3>1, LocalsAreSlots
  <2> QED BY <1>1, <2>1 DEF CaptureNew
<1>3. /\ Finishing("capture")
      /\ UNCHANGED <<stack, frames, globals, compilers, initString, strings,
                     session, held, op, gcVars>>
  BY DEF CaptureNew
<1>4. /\ phase = "mutator" /\ op # NoOp /\ c \in Heap /\ c \in Obj
      /\ type[c] = "CLOSURE" /\ slots[c] \in Seq(Value)
      /\ i \in 2..Len(slots[c]) /\ slots[c][i] = Nil
  BY <1>1, <1>2, <1>3, CaptureFacts
<1>5. /\ HeapOK /\ FieldsFit /\ RootsFit /\ RootsOK /\ Heap \subseteq Obj
      /\ OpOK /\ ArgsOK /\ Pointees(op.args) \subseteq Heap
  BY <1>4, MutatorFits
<1> DEFINE fields == [slots[c] EXCEPT ![i] = o]
<1>6. /\ fields \in Seq(Value) /\ fields # <<>> /\ fields[1] = slots[c][1]
      /\ Pointees(fields) = Pointees(slots[c]) \cup {o}
      /\ Pointees(Tail(fields)) \subseteq Pointees(Tail(slots[c])) \cup {o}
  <2>1. PICK old : old = slots[c]
    OBVIOUS
  <2>2. /\ old \in Seq(Value) /\ i \in 2..Len(old) /\ old[i] = Nil
        /\ o \in Obj
    BY <1>2, <1>4, <2>1
  <2>3. /\ [old EXCEPT ![i] = o] \in Seq(Value)
        /\ [old EXCEPT ![i] = o] # <<>>
        /\ [old EXCEPT ![i] = o][1] = old[1]
        /\ Pointees([old EXCEPT ![i] = o]) = Pointees(old) \cup {o}
        /\ Pointees(Tail([old EXCEPT ![i] = o]))
             \subseteq Pointees(Tail(old)) \cup {o}
    BY <2>2, FieldFilled
  <2> QED BY <2>1, <2>3
<1>7. slots' = [slots EXCEPT ![o] = <<Nil>>, ![c] = fields]
  BY <1>2, <1>4, <1>5 DEF HeapOK
<1> HIDE DEF fields
<1>8. /\ <<Nil>> \in Seq(Value) /\ HasShape(<<Nil>>, "UPVALUE")
      /\ "UPVALUE" \in ObjType /\ HasShape(fields, type[c])
      /\ Pointees(<<Nil>>) = {}
  <2>1. Pointees(<<Nil>>) = {}
    BY PointeesSingle
  <2>2. HasShape(<<Nil>>, "UPVALUE") /\ HasShape(fields, type[c])
    BY <1>4, <1>6 DEF HasShape, LeafTypes
  <2>3. <<Nil>> \in Seq(Value) /\ "UPVALUE" \in ObjType
    BY DEF Value, ObjType
  <2> QED BY <2>1, <2>2, <2>3
<1>9. /\ Pointees(fields) \subseteq Heap \cup {o}
      /\ Is("FUNCTION", fields[1])
      /\ \A u \in Pointees(Tail(fields)) : type'[u] = "UPVALUE"
  <2>1. /\ Is("FUNCTION", slots[c][1])
        /\ \A u \in Pointees(Tail(slots[c])) : Is("UPVALUE", u)
        /\ Pointees(slots[c]) \subseteq Heap
    BY <1>4, <1>5 DEF FieldsFit, FitsClosure
  <2>2. type \in [Obj -> ObjType \cup {"FREE"}]
    BY <1>5 DEF HeapOK
  <2> QED BY <1>2, <1>6, <2>1, <2>2 DEF Is
<1>10. /\ HeapOK' /\ FieldsFit' /\ Len(objects) <= Len(objects')
       /\ Heap' = Heap \cup {o} /\ type'[o] = "UPVALUE"
       /\ slots'[c] = fields
       /\ \A x \in Heap \ {c} : slots'[x] = slots[x]
       /\ \A x \in Heap : type'[x] = type[x]
  <2>1. /\ "UPVALUE" # "CLOSURE" /\ Pointees(<<Nil>>) \subseteq Heap
        /\ objects' = <<o>> \o objects
        /\ type' = [type EXCEPT ![o] = "UPVALUE"]
        /\ type[c] = "CLOSURE" =>
             /\ Is("FUNCTION", fields[1])
             /\ \A u \in Pointees(Tail(fields)) : type'[u] = "UPVALUE"
    BY <1>2, <1>8, <1>9
  <2>2. /\ phase = "mutator" /\ c \in Heap /\ fields \in Seq(Value)
        /\ <<Nil>> \in Seq(Value) /\ HasShape(<<Nil>>, "UPVALUE")
        /\ "UPVALUE" \in ObjType /\ HasShape(fields, type[c])
        /\ Pointees(fields) \subseteq Heap \cup {o}
    BY <1>4, <1>6, <1>8, <1>9
  <2>3. o \in Obj \ Heap
    BY <1>2
  <2>4. slots' = [slots EXCEPT ![o] = <<Nil>>, ![c] = fields]
    BY <1>7
  <2>5. PICK new, t : new = <<Nil>> /\ t = "UPVALUE"
    OBVIOUS
  <2>6. /\ phase = "mutator" /\ c \in Heap /\ fields \in Seq(Value)
        /\ t # "CLOSURE" /\ Pointees(new) \subseteq Heap
        /\ new \in Seq(Value) /\ HasShape(new, t) /\ t \in ObjType
        /\ objects' = <<o>> \o objects
        /\ type' = [type EXCEPT ![o] = t]
        /\ slots' = [slots EXCEPT ![o] = new, ![c] = fields]
        /\ HasShape(fields, type[c])
        /\ Pointees(fields) \subseteq Heap \cup {o}
        /\ type[c] = "CLOSURE" =>
             /\ Is("FUNCTION", fields[1])
             /\ \A u \in Pointees(Tail(fields)) : type'[u] = "UPVALUE"
    BY <2>1, <2>2, <2>4, <2>5
  <2>7. /\ HeapOK' /\ FieldsFit' /\ Len(objects) <= Len(objects')
        /\ Heap' = Heap \cup {o} /\ type'[o] = t /\ slots'[c] = fields
        /\ \A x \in Heap \ {c} : slots'[x] = slots[x]
        /\ \A x \in Heap : type'[x] = type[x]
    BY <2>3, <2>6, CreatedAndLinked
  <2> QED BY <2>5, <2>7
<1>11. /\ openUpvalues' \in [1..MaxStack -> Value]
       /\ Pointees(openUpvalues') = Pointees(openUpvalues) \cup {o}
  <2>1. openUpvalues \in [1..MaxStack -> Value] /\ o \in Value
    BY <1>5 DEF RootsOK, Value
  <2> QED BY <1>2, <2>1 DEF Pointees
<1>12. RootsOK'
  BY <1>3, <1>5, <1>11 DEF RootsOK
<1>13. Roots' = Roots \cup {o}
  BY <1>3, <1>11 DEF Roots
<1>14. RootsFit'
  <2>1. Is("UPVALUE", o)'
    BY <1>10 DEF Is
  <2> QED BY <1>3, <1>4, <1>10, <1>11, <1>13, <2>1, RootsStillFit
          DEF RootsFit
<1>15. OpOK' /\ op' = op /\ frames' = frames
  BY <1>3, <1>5 DEF OpOK
<1>16. ArgsOK'
  <2>1. /\ op.name = "capture" /\ Len(op.args) = 1 /\ frames # <<>>
        /\ Is("CLOSURE", c)'
    BY <1>3, <1>4, <1>5, <1>10 DEF Finishing, ArgsOK, Is
  <2>2. op.pushed = 0
    BY <1>5, <2>1 DEF ArgsOK
  <2> QED BY <1>1, <1>15, <2>1, <2>2 DEF ArgsOK, Constructs
<1>17. isOn => Pointees(op'.args) \subseteq Reachable(Roots', slots')
  <2>1. \A x \in Heap : Pointees(slots[x]) \subseteq Pointees(slots'[x])
    BY <1>6, <1>10
  <2>2. Reachable(Roots, slots) \subseteq Reachable(Roots', slots')
    BY <1>4, <1>13, <2>1, ReachableKept
  <2>3. isOn => Pointees(op.args) \subseteq Reachable(Roots, slots)
    BY DEF IInv, LocalsAreProtected
  <2> QED BY <1>15, <2>2, <2>3
<1>18. Pointees(op'.args) \subseteq Heap'
  BY <1>5, <1>10, <1>15
<1> QED BY <1>3, <1>4, <1>10, <1>12, <1>14, <1>15, <1>16, <1>17, <1>18,
           WaitingAfter

LEMMA CaptureExistingStep ==
  ASSUME IInv, CaptureExisting PROVE Core'
<1>1. PICK c : c = op.args[1]
  OBVIOUS
<1>2. PICK i \in 2..(1 + UpvalueCount),
           u \in Pointees(openUpvalues) \cup Captured :
        /\ IsNext(i, c)
        /\ slots' = [slots EXCEPT ![c][i] = u]
  <2>1. {openUpvalues[i] : i \in Locals \cap 1..MaxStack} \ {Nil}
          \subseteq Pointees(openUpvalues)
    <3>1. openUpvalues \in [1..MaxStack -> Value]
      BY DEF IInv, TypeOK, RootsOK
    <3> QED BY <3>1 DEF Pointees, Value
  <2> QED BY <1>1, <2>1 DEF CaptureExisting
<1>3. /\ Finishing("capture")
      /\ UNCHANGED <<objects, type, stack, frames, openUpvalues, globals,
                     compilers, initString, strings, session, held, op, gcVars>>
  BY DEF CaptureExisting
<1>4. /\ phase = "mutator" /\ op # NoOp /\ c \in Heap /\ c \in Obj
      /\ type[c] = "CLOSURE" /\ slots[c] \in Seq(Value) /\ frames # <<>>
      /\ i \in 2..Len(slots[c]) /\ slots[c][i] = Nil
  BY <1>1, <1>2, <1>3, CaptureFacts
<1>5. /\ HeapOK /\ FieldsFit /\ RootsFit /\ RootsOK /\ Heap \subseteq Obj
      /\ OpOK /\ ArgsOK /\ Pointees(op.args) \subseteq Heap
  BY <1>4, MutatorFits
<1>6. u \in Heap /\ u \in Obj /\ Is("UPVALUE", u)
  BY <1>2, <1>4, <1>5, TopFrameFacts DEF RootsFit, Roots
<1> DEFINE fields == [slots[c] EXCEPT ![i] = u]
<1>7. /\ fields \in Seq(Value) /\ fields # <<>> /\ fields[1] = slots[c][1]
      /\ Pointees(fields) = Pointees(slots[c]) \cup {u}
      /\ Pointees(Tail(fields)) \subseteq Pointees(Tail(slots[c])) \cup {u}
  <2>1. /\ slots[c] \in Seq(Value) /\ i \in 2..Len(slots[c])
        /\ slots[c][i] = Nil /\ u \in Obj
    BY <1>4, <1>6
  <2>2. PICK old : old = slots[c]
    OBVIOUS
  <2>3. old \in Seq(Value) /\ i \in 2..Len(old) /\ old[i] = Nil
    BY <2>1, <2>2
  <2>4. /\ [old EXCEPT ![i] = u] \in Seq(Value)
        /\ [old EXCEPT ![i] = u] # <<>>
        /\ [old EXCEPT ![i] = u][1] = old[1]
        /\ Pointees([old EXCEPT ![i] = u]) = Pointees(old) \cup {u}
        /\ Pointees(Tail([old EXCEPT ![i] = u]))
             \subseteq Pointees(Tail(old)) \cup {u}
    BY <2>1, <2>3, FieldFilled
  <2> QED BY <2>2, <2>4
<1>8. slots' = [slots EXCEPT ![c] = fields]
  BY <1>2, <1>4, <1>5 DEF HeapOK
<1> HIDE DEF fields
<1>9. /\ HasShape(fields, type[c]) /\ Pointees(fields) \subseteq Heap
      /\ FitsClosure(fields)
  BY <1>4, <1>5, <1>6, <1>7 DEF FieldsFit, FitsClosure, HasShape, LeafTypes
<1>10. /\ HeapOK' /\ FieldsFit' /\ Len(objects) <= Len(objects')
       /\ Heap' = Heap /\ slots'[c] = fields
       /\ \A x \in Obj \ {c} : slots'[x] = slots[x]
       /\ \A x \in Heap : type'[x] = type[x]
  BY <1>3, <1>4, <1>7, <1>8, <1>9, Rewritten
<1>11. RootsOK' /\ Roots' = Roots
  BY <1>3, <1>5 DEF RootsOK, Roots
<1>12. RootsFit'
  BY <1>3, <1>5, <1>10, <1>11 DEF RootsFit, Is
<1>13. OpOK' /\ op' = op /\ frames' = frames
  BY <1>3, <1>5 DEF OpOK
<1>14. ArgsOK'
  <2>1. /\ op.name = "capture" /\ Len(op.args) = 1 /\ frames # <<>>
        /\ Is("CLOSURE", c)'
    BY <1>3, <1>4, <1>5, <1>10 DEF Finishing, ArgsOK, Is
  <2>2. op.pushed = 0
    BY <1>5, <2>1 DEF ArgsOK
  <2> QED BY <1>1, <1>13, <2>1, <2>2 DEF ArgsOK, Constructs
<1>15. isOn => Pointees(op'.args) \subseteq Reachable(Roots', slots')
  <2>1. \A x \in Heap : Pointees(slots[x]) \subseteq Pointees(slots'[x])
    BY <1>5, <1>7, <1>10
  <2>2. Reachable(Roots, slots) \subseteq Reachable(Roots', slots')
    BY <1>4, <1>11, <2>1, ReachableKept
  <2>3. isOn => Pointees(op.args) \subseteq Reachable(Roots, slots)
    BY DEF IInv, LocalsAreProtected
  <2> QED BY <1>13, <2>2, <2>3
<1>16. Pointees(op'.args) \subseteq Heap'
  BY <1>5, <1>10, <1>13
<1> QED BY <1>3, <1>4, <1>10, <1>11, <1>12, <1>13, <1>14, <1>15, <1>16,
           WaitingAfter

LEMMA CaptureEndStep ==
  ASSUME IInv, CaptureEnd PROVE Core'
<1>1. /\ phase = "mutator" /\ op' = NoOp
      /\ UNCHANGED <<heapVars, roots, strings, session, held, gcVars>>
  BY DEF CaptureEnd, Finishing
<1>2. /\ HeapOK /\ FieldsFit /\ RootsFit /\ RootsOK
      /\ (parsing => ~isOn) /\ isOn \in BOOLEAN /\ parsing \in BOOLEAN
  BY <1>1, MutatorFits DEF SessionOK
<1>3. HeapOK' /\ FieldsFit' /\ Len(objects) <= Len(objects') /\ Heap' = Heap
  BY <1>1, ObjectsLeftAlone
<1>4. RootsOK' /\ Roots' = Roots
  BY <1>1, <1>2 DEF RootsOK, Roots, roots
<1>5. RootsFit'
  BY <1>1, <1>2, <1>3, <1>4 DEF RootsFit, Is, roots, heapVars
<1>6. isOn' = isOn /\ parsing' = parsing
  BY <1>1 DEF session
<1> QED BY <1>1, <1>2, <1>3, <1>4, <1>5, <1>6, IdleAfter

(* A move between operations that leaves the objects alone.                *)
LEMMA MoveStep ==
  ASSUME IInv, phase = "mutator", UNCHANGED <<heapVars, gcVars>>,
         op = NoOp, op' = op, RootsOK', strings' = strings,
         Roots' \cup held' \subseteq Heap,
         \A c \in Pointees(frames') : Is("CLOSURE", c),
         \A f \in Pointees(compilers') : Is("FUNCTION", f),
         \A u \in Pointees(openUpvalues') : Is("UPVALUE", u),
         isOn' \in BOOLEAN, parsing' \in BOOLEAN, parsing' => ~isOn'
  PROVE  Core'
<1>1. HeapOK /\ FieldsFit /\ RootsFit
  BY MutatorFits
<1>2. HeapOK' /\ FieldsFit' /\ Len(objects) <= Len(objects') /\ Heap' = Heap
  BY ObjectsLeftAlone
<1>3. RootsFit'
  BY <1>1, <1>2 DEF RootsFit, Is, heapVars
<1> QED BY <1>2, <1>3, IdleAfter

LEMMA IdleFits ==
  ASSUME IInv, Idle
  PROVE  /\ phase = "mutator" /\ op = NoOp
         /\ RootsOK /\ RootsFit /\ Roots \cup held \subseteq Heap
         /\ isOn \in BOOLEAN /\ parsing \in BOOLEAN /\ (parsing => ~isOn)
         /\ Heap \subseteq Obj
BY MutatorFits DEF Idle, RootsFit, SessionOK

LEMMA FindSymbolStep ==
  ASSUME IInv, FindSymbol PROVE Core'
<1>1. /\ Idle
      /\ UNCHANGED <<heapVars, roots, strings, session, op, gcVars>>
  BY DEF FindSymbol
<1>2. PICK s \in strings : held' = held \cup {s}
  BY DEF FindSymbol
<1>3. RootsOK' /\ Roots' = Roots
  BY <1>1, <1>2, IdleFits DEF RootsOK, Roots, roots
<1>4. Roots' \cup held' \subseteq Heap
  BY <1>1, <1>2, <1>3, IdleFits DEF RootsFit
<1> QED BY <1>1, <1>3, <1>4, IdleFits, MoveStep DEF RootsFit, roots, session

(* An instruction that only moves values to, from or along the stack.      *)
LEMMA StackStep ==
  ASSUME IInv, Idle,
         UNCHANGED <<heapVars, openUpvalues, globals, compilers, initString,
                     strings, session, held, op, gcVars>>,
         stack' \in Seq(Value), Pointees(stack') \subseteq Heap,
         frames' \in Seq(Obj), \A c \in Pointees(frames') : Is("CLOSURE", c)
  PROVE  Core'
<1>1. RootsOK'
  BY IdleFits DEF RootsOK
<1>2. Pointees(frames') \subseteq Heap
  BY DEF Is, Pointees, IInv, TypeOK, HeapOK
<1>3. Roots' \subseteq Roots \cup Heap
  BY <1>2 DEF Roots
<1>4. Roots' \cup held' \subseteq Heap
  BY <1>3, IdleFits
<1> QED BY <1>1, <1>4, IdleFits, MoveStep DEF RootsFit, session

(* A value on top of what is there, or of a part of it.                    *)
LEMMA StackFacts ==
  ASSUME IInv, Idle
  PROVE  /\ stack \in Seq(Value) /\ frames \in Seq(Obj)
         /\ Pointees(stack) \subseteq Heap
         /\ \A c \in Pointees(frames) : Is("CLOSURE", c)
BY IdleFits DEF RootsOK, RootsFit, Roots

LEMMA PushStep ==
  ASSUME IInv, Push PROVE Core'
<1>1. /\ Idle
      /\ UNCHANGED <<heapVars, frames, openUpvalues, globals, compilers,
                     initString, strings, session, held, op, gcVars>>
  BY DEF Push, Running
<1>2. PICK value \in AtHand \cup {Nil} : stack' = Append(stack, value)
  BY DEF Push
<1>3. value \in Value /\ {value} \cap Obj \subseteq Heap
  BY <1>1, IdleFits, AtHandInHeap DEF Value
<1>4. /\ stack' \in Seq(Value)
      /\ Pointees(stack') = Pointees(stack) \cup ({value} \cap Obj)
  BY <1>1, <1>2, <1>3, StackFacts, PointeesAppend
<1> QED BY <1>1, <1>3, <1>4, StackFacts, StackStep

(* Taking the top of the stack away.                                       *)
LEMMA FrontFacts ==
  ASSUME NEW s \in Seq(Value), s # <<>>
  PROVE  /\ Front(s) \in Seq(Value) /\ Pointees(Front(s)) \subseteq Pointees(s)
         /\ Last(s) \in Value /\ {Last(s)} \cap Obj \subseteq Pointees(s)
<1>1. Len(s) \in Nat /\ Len(s) >= 1 /\ Len(s) \in DOMAIN s
  OBVIOUS
<1>2. Front(s) = SubSeq(s, 1, Len(s) - 1)
  BY DEF Front
<1>3. Last(s) \in Value /\ {Last(s)} \cap Obj \subseteq Pointees(s)
  BY <1>1 DEF Last, Pointees
<1> QED BY <1>1, <1>2, <1>3, PointeesPop

LEMMA PopStep ==
  ASSUME IInv, Pop PROVE Core'
<1>1. /\ Idle /\ HasTemporary /\ stack' = Front(stack)
      /\ UNCHANGED <<heapVars, frames, openUpvalues, globals, compilers,
                     initString, strings, session, held, op, gcVars>>
  BY DEF Pop, Running
<1>2. stack' \in Seq(Value) /\ Pointees(stack') \subseteq Pointees(stack)
  BY <1>1, TemporaryFacts, FrontFacts
<1> QED BY <1>1, <1>2, StackFacts, StackStep

(* An assignment: the value is on the stack already.                       *)
LEMMA SetVariableStep ==
  ASSUME IInv, SetVariable PROVE Core'
<1>1. /\ Idle /\ HasTemporary
      /\ UNCHANGED <<heapVars, frames, openUpvalues, globals, compilers,
                     initString, strings, session, held, op, gcVars>>
  BY DEF SetVariable, Running
<1>2. PICK i \in DOMAIN stack : stack' = [stack EXCEPT ![i] = Last(stack)]
  BY DEF SetVariable
<1>3. /\ stack \in Seq(Value) /\ Last(stack) \in Value
      /\ {Last(stack)} \cap Obj \subseteq Pointees(stack)
  BY <1>1, TemporaryFacts, FrontFacts
<1>4. stack' \in Seq(Value)
  BY <1>2, <1>3, ExceptSeq
<1>5. DOMAIN stack' = DOMAIN stack
        /\ \A j \in DOMAIN stack : stack'[j] \in {stack[j], Last(stack)}
  BY <1>2, <1>3
<1>6. Pointees(stack') \subseteq Pointees(stack)
  BY <1>3, <1>5 DEF Pointees
<1> QED BY <1>1, <1>4, <1>6, StackFacts, StackStep

LEMMA SetClosedVariableStep ==
  ASSUME IInv, SetClosedVariable PROVE Core'
<1>1. /\ Idle /\ HasTemporary /\ frames # <<>>
      /\ UNCHANGED <<objects, type, roots, strings, session, held, op, gcVars>>
  BY DEF SetClosedVariable, Running
<1>2. PICK u \in Captured : slots' = [slots EXCEPT ![u] = <<Last(stack)>>]
  BY DEF SetClosedVariable
<1>3. /\ phase = "mutator" /\ op = NoOp /\ RootsOK /\ RootsFit
      /\ isOn \in BOOLEAN /\ parsing \in BOOLEAN /\ (parsing => ~isOn)
  BY <1>1, IdleFits
<1>4. u \in Obj /\ type[u] = "UPVALUE"
  BY <1>1, <1>2, <1>3, TopFrameFacts DEF Is
<1>5. Last(stack) \in Value /\ {Last(stack)} \cap Obj \subseteq Heap
  BY <1>1, <1>3, TemporaryFacts DEF RootsFit
<1>6. /\ <<Last(stack)>> \in Seq(Value)
      /\ HasShape(<<Last(stack)>>, type[u])
      /\ Pointees(<<Last(stack)>>) \subseteq Heap /\ type[u] # "CLOSURE"
  BY <1>4, <1>5, PointeesSingle DEF HasShape, LeafTypes
<1>7. /\ HeapOK' /\ FieldsFit' /\ Heap' = Heap
      /\ Len(objects) <= Len(objects')
      /\ \A x \in Heap : type'[x] = type[x]
  BY <1>1, <1>2, <1>3, <1>4, <1>6, Rewritten
<1>8. RootsOK' /\ Roots' = Roots
  BY <1>1, <1>3 DEF RootsOK, Roots, roots
<1>9. RootsFit'
  BY <1>1, <1>3, <1>7, <1>8 DEF RootsFit, Is, roots
<1>10. isOn' = isOn /\ parsing' = parsing
  BY <1>1 DEF session
<1> QED BY <1>1, <1>3, <1>7, <1>8, <1>9, <1>10, IdleAfter

(* What an open upvalue that is closed now takes over: a value on the      *)
(* stack, or one above it that was not freed.                              *)
LEMMA ClosedOver ==
  ASSUME IInv, phase = "mutator", \A i \in Strays : above[i] \notin Freed,
         NEW u \in Pointees(openUpvalues)
  PROVE  /\ SlotOf(u) \in 1..MaxStack /\ openUpvalues[SlotOf(u)] = u
         /\ InSlot(SlotOf(u)) \in Value
         /\ {InSlot(SlotOf(u))} \cap Obj \subseteq Heap
<1>1. /\ openUpvalues \in [1..MaxStack -> Value]
      /\ above \in [1..MaxStack -> Value] /\ stack \in Seq(Value)
      /\ MaxStack \in Nat
  BY DEF IInv, TypeOK, RootsOK, FramesOK
<1>2. SlotOf(u) \in 1..MaxStack /\ openUpvalues[SlotOf(u)] = u
  BY <1>1 DEF SlotOf, Pointees
<1>3. PICK i : i = SlotOf(u)
  OBVIOUS
<1>4. i \in 1..MaxStack /\ openUpvalues[i] # Nil
  BY <1>2, <1>3 DEF Pointees
<1>5. CASE i <= Len(stack)
  <2>1. i \in DOMAIN stack /\ InSlot(i) = stack[i]
    BY <1>1, <1>4, <1>5 DEF InSlot
  <2>2. stack[i] \in Value /\ {stack[i]} \cap Obj \subseteq Pointees(stack)
    BY <1>1, <2>1 DEF Pointees
  <2>3. Pointees(stack) \subseteq Heap
    BY MutatorFacts DEF Roots
  <2> QED BY <1>2, <1>3, <2>1, <2>2, <2>3
<1>6. CASE ~(i <= Len(stack))
  <2>1. InSlot(i) = above[i] /\ i \in Strays
    BY <1>1, <1>4, <1>6 DEF InSlot, Strays
  <2>2. above[i] \in Value /\ above[i] \notin Freed
    BY <1>1, <1>4, <2>1
  <2> QED BY <1>2, <1>3, <2>1, <2>2 DEF Freed
<1> QED BY <1>5, <1>6

(* What the upvalues take over is still allocated.                         *)
LEMMA CloseUpvalueStep ==
  ASSUME IInv, CloseUpvalue PROVE Core'
<1>1. PICK last : last = Len(stack)
  OBVIOUS
<1> DEFINE closed == {openUpvalues[i] : i \in last..MaxStack} \ {Nil}
<1>2. /\ Idle /\ Len(stack) \in Locals /\ stack' = Front(stack)
      /\ \A i \in Strays : above[i] \notin Freed
      /\ CloseUpvalues(last)
      /\ UNCHANGED <<objects, type, frames, globals, compilers, initString,
                     strings, session, held, op, gcVars>>
  BY <1>1 DEF CloseUpvalue, Running
<1>3. /\ slots' = [u \in Obj |-> IF u \in closed THEN <<InSlot(SlotOf(u))>>
                                 ELSE slots[u]]
      /\ openUpvalues' = [i \in 1..MaxStack |->
                            IF i < last THEN openUpvalues[i] ELSE Nil]
  BY <1>2 DEF CloseUpvalues
<1>4. /\ phase = "mutator" /\ op = NoOp /\ RootsOK /\ RootsFit
      /\ HeapOK /\ FieldsFit /\ Heap \subseteq Obj
      /\ isOn \in BOOLEAN /\ parsing \in BOOLEAN /\ (parsing => ~isOn)
  BY <1>2, IdleFits, MutatorFits
<1>5. last \in DOMAIN stack /\ stack \in Seq(Value) /\ last \in Nat \ {0}
  BY <1>1, <1>2, <1>4, LocalsAreSlots DEF RootsOK
<1>6. openUpvalues \in [1..MaxStack -> Value] /\ MaxStack \in Nat
  BY <1>4 DEF RootsOK
<1>7. closed \subseteq Pointees(openUpvalues)
  BY <1>5, <1>6 DEF Pointees, Value
<1> HIDE DEF closed
<1>8. \A u \in closed : u \in Obj /\ u \in Heap /\ type[u] = "UPVALUE"
  BY <1>4, <1>7 DEF RootsFit, Is, Roots
<1>9. \A u \in closed :
        /\ InSlot(SlotOf(u)) \in Value
        /\ {InSlot(SlotOf(u))} \cap Obj \subseteq Heap
  BY <1>2, <1>4, <1>7, ClosedOver
<1>10. \A u \in closed : /\ <<InSlot(SlotOf(u))>> \in Seq(Value)
                         /\ HasShape(<<InSlot(SlotOf(u))>>, type[u])
                         /\ Pointees(<<InSlot(SlotOf(u))>>) \subseteq Heap
  <2> SUFFICES ASSUME NEW u \in closed
               PROVE  /\ <<InSlot(SlotOf(u))>> \in Seq(Value)
                      /\ HasShape(<<InSlot(SlotOf(u))>>, type[u])
                      /\ Pointees(<<InSlot(SlotOf(u))>>) \subseteq Heap
    OBVIOUS
  <2>1. PICK v : v = InSlot(SlotOf(u))
    OBVIOUS
  <2>2. v \in Value /\ {v} \cap Obj \subseteq Heap
    BY <1>9, <2>1
  <2>3. <<v>> \in Seq(Value) /\ Len(<<v>>) = 1 /\ type[u] = "UPVALUE"
    BY <1>8, <2>2
  <2>4. Pointees(<<v>>) \subseteq Heap
    BY <2>2, PointeesSingle
  <2> QED BY <2>1, <2>3, <2>4 DEF HasShape, LeafTypes
<1>11. Heap' = Heap /\ Len(objects) \in Nat
  BY <1>2, <1>4 DEF Heap, HeapOK
<1>12. /\ slots' \in [Obj -> Seq(Value)]
       /\ \A x \in Obj \ closed : slots'[x] = slots[x]
       /\ \A x \in Obj : HasShape(slots'[x], type'[x])
       /\ \A x \in Heap : Pointees(slots'[x]) \subseteq Heap
  BY <1>2, <1>3, <1>4, <1>10 DEF HeapOK, FieldsFit
<1>13. HeapOK'
  BY <1>2, <1>4, <1>11, <1>12 DEF HeapOK
<1>14. FieldsFit'
  <2>1. \A c \in Heap' : type'[c] = "CLOSURE" => FitsClosure(slots[c])'
    BY <1>2, <1>4, <1>8, <1>11, <1>12 DEF FieldsFit, FitsClosure, Is
  <2> QED BY <1>11, <1>12, <2>1 DEF FieldsFit
<1>15. stack' \in Seq(Value) /\ Pointees(stack') \subseteq Pointees(stack)
  <2>1. stack # <<>>
    BY <1>5, EmptySeq
  <2> QED BY <1>2, <1>5, <2>1, FrontFacts
<1>16. /\ openUpvalues' \in [1..MaxStack -> Value]
       /\ Pointees(openUpvalues') \subseteq Pointees(openUpvalues)
  BY <1>3, <1>5, <1>6 DEF Pointees, Value
<1>17. RootsOK' /\ Roots' \subseteq Roots
  BY <1>2, <1>4, <1>15, <1>16 DEF RootsOK, Roots
<1>18. RootsFit'
  BY <1>2, <1>4, <1>11, <1>16, <1>17 DEF RootsFit, Is
<1>19. isOn' = isOn /\ parsing' = parsing /\ op' = NoOp
       /\ Len(objects) <= Len(objects')
  BY <1>2, <1>4, <1>11 DEF session
<1> QED BY <1>2, <1>4, <1>13, <1>14, <1>17, <1>18, <1>19, IdleAfter

LEMMA CallStep ==
  ASSUME IInv, Call PROVE Core'
<1>1. /\ Idle
      /\ UNCHANGED <<heapVars, stack, openUpvalues, globals, compilers,
                     initString, strings, session, held, op, gcVars>>
  BY DEF Call, Running
<1>2. PICK i \in Locals : /\ stack[i] \in Obj /\ type[stack[i]] = "CLOSURE"
                          /\ frames' = Append(frames, stack[i])
  BY DEF Call
<1>3. PICK c : c = stack[i]
  OBVIOUS
<1>4. /\ c \in Obj /\ c \in Value /\ frames \in Seq(Obj)
      /\ frames \in Seq(Value) /\ {c} \cap Obj = {c} /\ Is("CLOSURE", c)
  BY <1>1, <1>2, <1>3, StackFacts DEF Value, Is
<1>5. frames' \in Seq(Obj) /\ Pointees(frames') = Pointees(frames) \cup {c}
  <2>1. Pointees(Append(frames, c)) = Pointees(frames) \cup {c}
    BY <1>4, PointeesAppend
  <2> QED BY <1>2, <1>3, <1>4, <2>1
<1> QED BY <1>1, <1>4, <1>5, StackFacts, StackStep

(* The frames that are left when the running function returns.             *)
LEMMA FrontFrames ==
  ASSUME IInv, Idle, frames # <<>>
  PROVE  /\ Front(frames) \in Seq(Obj)
         /\ \A c \in Pointees(Front(frames)) : Is("CLOSURE", c)
<1>1. frames \in Seq(Obj) /\ frames \in Seq(Value)
  BY StackFacts DEF Value
<1>2. Front(frames) \in Seq(Obj)
  <2>1. Front(frames) = SubSeq(frames, 1, Len(frames) - 1)
    BY DEF Front
  <2> QED BY <1>1, <2>1
<1>3. Pointees(Front(frames)) \subseteq Pointees(frames)
  BY <1>1, FrontFacts
<1> QED BY <1>2, <1>3, StackFacts

(* What is left of the stack below the running function.                   *)
LEMMA RestOfStack ==
  ASSUME IInv, HasTemporary, Len(frames) > 1,
         NEW rest, rest = SubSeq(stack, 1, Last(bases) - 1)
  PROVE  rest \in Seq(Value) /\ Pointees(rest) \subseteq Pointees(stack)
<1>1. stack \in Seq(Value)
  BY TemporaryFacts
<1>2. Last(bases) \in 1..Len(stack)
  <2>1. /\ bases \in Seq(Nat \ {0}) /\ Len(bases) = Len(frames)
        /\ frames \in Seq(Obj)
    BY DEF IInv, TypeOK, RootsOK, FramesOK
  <2>2. Len(bases) \in DOMAIN bases /\ frames # <<>>
    BY <2>1
  <2>3. Last(bases) \in Nat \ {0}
    BY <2>1, <2>2 DEF Last
  <2>4. Len(stack) >= Last(bases) + 1
    BY <1>1, <2>2, <2>3 DEF HasTemporary, AreTemporaries, Locals
  <2> QED BY <1>1, <2>3, <2>4
<1>3. PICK n \in Nat : n = Len(stack) - (Last(bases) - 1)
  BY <1>1, <1>2
<1>4. n <= Len(stack) /\ Len(stack) - n = Last(bases) - 1
  BY <1>1, <1>2, <1>3
<1> QED BY <1>1, <1>4, PointeesPop

(* A script returns with its function and its result on the stack.         *)
LEMMA ScriptsStack ==
  ASSUME IInv, HasTemporary, Len(frames) = 1, Len(stack) = Last(bases) + 1
  PROVE  stack \in Seq(Value) /\ 2 <= Len(stack)
<1>1. /\ bases \in Seq(Nat \ {0}) /\ Len(bases) = Len(frames)
  BY DEF IInv, TypeOK, FramesOK
<1>2. Last(bases) \in Nat \ {0}
  BY <1>1 DEF Last
<1> QED BY <1>2, TemporaryFacts

LEMMA ReturnToCallerStep ==
  ASSUME IInv, ReturnToCaller PROVE Core'
<1>1. /\ Idle /\ HasTemporary /\ Len(frames) > 1
      /\ stack' = Append(SubSeq(stack, 1, Last(bases) - 1), Last(stack))
      /\ frames' = Front(frames)
      /\ UNCHANGED <<heapVars, openUpvalues, globals, compilers, initString,
                     strings, session, held, op, gcVars>>
  BY DEF ReturnToCaller, Running
<1>2. /\ stack \in Seq(Value) /\ Last(stack) \in Value
      /\ {Last(stack)} \cap Obj \subseteq Pointees(stack)
  BY <1>1, TemporaryFacts, FrontFacts
<1>3. PICK rest : rest = SubSeq(stack, 1, Last(bases) - 1)
  OBVIOUS
<1>4. rest \in Seq(Value) /\ Pointees(rest) \subseteq Pointees(stack)
  BY <1>1, <1>3, RestOfStack
<1>5. /\ stack' \in Seq(Value)
      /\ Pointees(stack') = Pointees(rest) \cup ({Last(stack)} \cap Obj)
  <2>1. PICK v \in Value : v = Last(stack)
    BY <1>2
  <2>2. stack' = Append(rest, v)
    BY <1>1, <1>3, <2>1
  <2>3. Pointees(stack') = Pointees(rest) \cup ({v} \cap Obj)
    BY <1>4, <2>2, PointeesAppend
  <2> QED BY <1>4, <2>1, <2>2, <2>3
<1>6. frames # <<>>
  BY <1>1, EmptySeq
<1> QED BY <1>1, <1>2, <1>4, <1>5, <1>6, FrontFrames, StackFacts, StackStep

LEMMA ReturnFromScriptStep ==
  ASSUME IInv, ReturnFromScript PROVE Core'
<1>1. /\ Idle /\ HasTemporary /\ Len(stack) = Last(bases) + 1
      /\ Len(frames) = 1 /\ stack' = Pops(2) /\ frames' = <<>>
      /\ UNCHANGED <<heapVars, openUpvalues, globals, compilers, initString,
                     strings, session, held, op, gcVars>>
  BY DEF ReturnFromScript, Running
<1>2. stack \in Seq(Value) /\ 2 <= Len(stack)
  BY <1>1, ScriptsStack
<1>3. stack' \in Seq(Value) /\ Pointees(stack') \subseteq Pointees(stack)
  BY <1>1, <1>2, PointeesPop DEF Pops
<1>4. frames' \in Seq(Obj) /\ Pointees(frames') = {}
  BY <1>1 DEF Pointees
<1> QED BY <1>1, <1>3, <1>4, StackFacts, StackStep

(* What a function left above the top is pushed if it was not freed.       *)
LEMMA GetLeftVariableStep ==
  ASSUME IInv, GetLeftVariable PROVE Core'
<1>1. /\ Idle
      /\ UNCHANGED <<heapVars, frames, openUpvalues, globals, compilers,
                     initString, strings, session, held, op, gcVars>>
  BY DEF GetLeftVariable, Running
<1>2. PICK i \in LeftVariables : /\ above[i] \notin Freed
                                 /\ stack' = Append(stack, above[i])
  BY DEF GetLeftVariable
<1>3. PICK value : value = above[i]
  OBVIOUS
<1>4. value \in Value /\ {value} \cap Obj \subseteq Heap
  <2>1. above \in [1..MaxStack -> Value] /\ i \in 1..MaxStack
    BY DEF IInv, TypeOK, FramesOK, LeftVariables, Strays
  <2> QED BY <1>2, <1>3, <2>1 DEF Freed
<1>5. /\ stack' \in Seq(Value)
      /\ Pointees(stack') = Pointees(stack) \cup ({value} \cap Obj)
  BY <1>1, <1>2, <1>3, <1>4, StackFacts, PointeesAppend
<1> QED BY <1>1, <1>4, <1>5, StackFacts, StackStep

LEMMA SetLeftVariableStep ==
  ASSUME IInv, SetLeftVariable PROVE Core'
<1>1. /\ Idle
      /\ UNCHANGED <<heapVars, stack, frames, openUpvalues, globals,
                     compilers, initString, strings, session, held, op, gcVars>>
  BY DEF SetLeftVariable, Running
<1> QED BY <1>1, StackFacts, StackStep

(* Nothing is said of what comes after the use of a freed object; the      *)
(* state in which it is used is still a good one.                          *)
LEMMA UseFreedStep ==
  ASSUME IInv, UseFreed PROVE Core'
<1>1. /\ phase = "mutator" /\ phase' = "undefined"
      /\ UNCHANGED <<objects, type, slots>>
      /\ UNCHANGED <<stack, frames, openUpvalues, globals, compilers,
                     initString>>
      /\ UNCHANGED <<strings, isOn, parsing, held, op>>
      /\ UNCHANGED <<marked, gray, cursor>>
  BY DEF UseFreed, Running, Idle, heapVars, roots, session
<1>2. Heap' = Heap /\ Roots' = Roots
  BY <1>1 DEF Heap, Roots
<1>3. Survivors' = Survivors /\ InUse' = InUse
  BY <1>1, <1>2 DEF Survivors, InUse
<1>4. HeapOK' /\ RootsOK' /\ OpOK' /\ GcOK'
  <2>1. HeapOK'
    BY <1>1, <1>2 DEF IInv, TypeOK, HeapOK, HasShape
  <2>2. RootsOK' /\ OpOK' /\ GcOK'
    BY <1>1 DEF IInv, TypeOK, RootsOK, OpOK, GcOK
  <2> QED BY <2>1, <2>2
<1>5. ArgsOK' /\ TypesFit'
  BY <1>1, <1>3 DEF IInv, ArgsOK, TypesFit, FitsClosure, Is
<1>6. SessionOK' /\ MarksAreClear' /\ MarksOK' /\ TriColour'
  BY <1>1, <1>2, MutatorFacts
     DEF IInv, SessionOK, MarksAreClear, MarksOK, TriColour, Collecting
<1>7. NoDangling' /\ LocalsAreProtected'
  BY <1>1, <1>2, <1>3 DEF IInv, NoDangling, LocalsAreProtected
<1> QED BY <1>4, <1>5, <1>6, <1>7 DEF Core

LEMMA RuntimeErrorStep ==
  ASSUME IInv, RuntimeError PROVE Core'
<1>1. /\ phase = "mutator" /\ op' = NoOp /\ ResetStack
      /\ UNCHANGED <<heapVars, globals, compilers, initString, strings,
                     session, held, gcVars>>
  BY DEF RuntimeError, Running, Idle
<1>2. RootsOK' /\ RootsFit'
  BY <1>1, ResetFacts
<1>3. isOn' \in BOOLEAN /\ parsing' \in BOOLEAN /\ (parsing' => ~isOn')
  BY <1>1, MutatorFits DEF session, SessionOK
<1> QED BY <1>1, <1>2, <1>3, ObjectsLeftAlone, IdleAfter

LEMMA EndCompilerStep ==
  ASSUME IInv, EndCompiler PROVE Core'
<1>1. /\ Idle /\ compilers # <<>> /\ held' = held \cup {compilers[1]}
      /\ compilers' = Tail(compilers)
      /\ UNCHANGED <<heapVars, stack, frames, openUpvalues, globals,
                     initString, strings, session, op, gcVars>>
  BY DEF EndCompiler, Running
<1>2. compilers \in Seq(Obj) /\ compilers \in Seq(Value)
  BY <1>1, IdleFits DEF RootsOK, Value
<1>3. compilers' \in Seq(Obj) /\ compilers[1] \in Pointees(compilers)
        /\ compilers[1] \in Obj
  BY <1>1, <1>2 DEF Pointees
<1>4. Pointees(compilers') \subseteq Pointees(compilers)
  BY <1>1, <1>2, PointeesTail
<1>5. RootsOK' /\ Roots' \subseteq Roots
  BY <1>1, <1>3, <1>4, IdleFits DEF RootsOK, Roots
<1>6. Roots' \cup held' \subseteq Heap
  BY <1>1, <1>3, <1>5, IdleFits DEF Roots
<1> QED BY <1>1, <1>4, <1>5, <1>6, IdleFits, MoveStep DEF RootsFit, session

LEMMA StartParseStep ==
  ASSUME IInv, StartParse PROVE Core'
<1>1. /\ Idle /\ parsing' = TRUE /\ isOn' = FALSE /\ held' = {}
      /\ UNCHANGED <<heapVars, roots, strings, op, gcVars>>
  BY DEF StartParse
<1>2. RootsOK' /\ Roots' = Roots
  BY <1>1, IdleFits DEF RootsOK, Roots, roots
<1>3. Roots' \cup held' \subseteq Heap
  BY <1>1, <1>2, IdleFits
<1> QED BY <1>1, <1>2, <1>3, IdleFits, MoveStep DEF RootsFit, roots

LEMMA ParseErrorStep ==
  ASSUME IInv, ParseError PROVE Core'
<1>1. /\ Idle /\ parsing' = FALSE /\ held' = {}
      /\ UNCHANGED <<heapVars, roots, strings, isOn, op, gcVars>>
  BY DEF ParseError
<1>2. RootsOK' /\ Roots' = Roots
  BY <1>1, IdleFits DEF RootsOK, Roots, roots
<1>3. Roots' \cup held' \subseteq Heap
  BY <1>1, <1>2, IdleFits
<1> QED BY <1>1, <1>2, <1>3, IdleFits, MoveStep DEF RootsFit, roots
-----------------------------------------------------------------------------
LEMMA StutterStep ==
  ASSUME IInv, UNCHANGED vars PROVE Core'
<1>1. /\ UNCHANGED <<objects, type, slots>> /\ UNCHANGED roots
      /\ UNCHANGED <<stack, frames, openUpvalues, globals, compilers,
                     initString>>
      /\ UNCHANGED <<strings, isOn, parsing, held, op>>
      /\ UNCHANGED <<phase, marked, gray, cursor>>
  BY DEF vars, heapVars, roots, session, gcVars
<1>2. Heap' = Heap /\ Roots' = Roots
  BY <1>1 DEF Heap, Roots
<1>3. Survivors' = Survivors /\ InUse' = InUse
  BY <1>1, <1>2 DEF Survivors, InUse
<1>4. HeapOK' /\ RootsOK' /\ OpOK' /\ GcOK'
  <2>1. HeapOK'
    BY <1>1, <1>2 DEF IInv, TypeOK, HeapOK, HasShape
  <2>2. RootsOK' /\ OpOK' /\ GcOK'
    BY <1>1 DEF IInv, TypeOK, RootsOK, OpOK, GcOK
  <2> QED BY <2>1, <2>2
<1>5. ArgsOK' /\ TypesFit'
  BY <1>1, <1>3 DEF IInv, ArgsOK, TypesFit, FitsClosure, Is
<1>6. SessionOK' /\ MarksAreClear' /\ MarksOK' /\ TriColour'
  BY <1>1, <1>2 DEF IInv, SessionOK, MarksAreClear, MarksOK, TriColour,
                    Collecting
<1>7. NoDangling' /\ LocalsAreProtected'
  BY <1>1, <1>2, <1>3 DEF IInv, NoDangling, LocalsAreProtected
<1> QED BY <1>4, <1>5, <1>6, <1>7 DEF Core

LEMMA RequestsStep == ASSUME IInv, Requests PROVE Core'
BY NewSyntaxStep, GuardedConsStep, NewPairStep, AppendElementStep,
   NewVectorStep, VectorAppendStep, MakeConstantStep, NewSymbolStep,
   InitCompilerStep, InterpretStep, OpClosureStep, SetsGlobalStep
   DEF Requests, DefineGlobal, SetGlobal

LEMMA FinishesStep == ASSUME IInv, Finishes PROVE Core'
BY FinishConstructorStep, FinishAppendElementStep, FinishWriteValueArrayStep,
   AllocateStringStep, InternStep, FinishNativeStep, FinishDefineStep,
   FinishSetGlobalStep, FinishInitCompilerStep, FinishClosureStep, CaptureNewStep,
   CaptureExistingStep, CaptureEndStep
   DEF Finishes

LEMMA MovesStep == ASSUME IInv, Moves PROVE Core'
BY FindSymbolStep, PushStep, PopStep, SetVariableStep, SetClosedVariableStep,
   CloseUpvalueStep, CallStep, ReturnToCallerStep, ReturnFromScriptStep,
   GetLeftVariableStep, SetLeftVariableStep, UseFreedStep, RuntimeErrorStep,
   EndCompilerStep, StartParseStep, ParseErrorStep
   DEF Moves

LEMMA CollectorStepStep == ASSUME IInv, CollectorStep PROVE Core'
BY BlackenStep, RemoveWhiteStep, SweepKeepStep, SweepFreeStep, SweepEndStep
   DEF CollectorStep

-----------------------------------------------------------------------------
(***************************************************************************)
(* The variables that the collector does not look at.                      *)
(***************************************************************************)

(* What stays in memory above the top was a value before.                  *)
LEMMA MemoryFacts ==
  ASSUME IInv, MemoryStays PROVE above' \in [1..MaxStack -> Value]
<1>1. /\ above \in [1..MaxStack -> Value] /\ stack \in Seq(Value)
      /\ MaxStack \in Nat
  BY DEF IInv, TypeOK, RootsOK, FramesOK
<1>2. \A i \in 1..MaxStack : InSlot(i) \in Value
  <2> SUFFICES ASSUME NEW i \in 1..MaxStack PROVE InSlot(i) \in Value
    OBVIOUS
  <2>1. CASE i <= Len(stack)
    <3>1. i \in DOMAIN stack
      BY <1>1, <2>1
    <3> QED BY <1>1, <2>1, <3>1 DEF InSlot
  <2>2. CASE ~(i <= Len(stack))
    BY <1>1, <2>2 DEF InSlot
  <2> QED BY <2>1, <2>2
<1>3. Nil \in Value
  BY DEF Value
<1> QED BY <1>2, <1>3 DEF MemoryStays

(* Most steps neither call nor return.                                     *)
Quiet ==
  /\ UNCHANGED <<frames, bases>>
  /\ MemoryStays \/ UNCHANGED above
  /\ loose' \subseteq loose \cup Pointees(openUpvalues)

LEMMA QuietStep == ASSUME IInv, Quiet PROVE FramesOK'
<1>1. FramesOK
  BY DEF IInv, TypeOK
<1>2. above' \in [1..MaxStack -> Value]
  BY <1>1, MemoryFacts DEF Quiet, FramesOK
<1> QED BY <1>1, <1>2 DEF Quiet, FramesOK, Pointees

LEMMA RequestsAreQuiet == ASSUME Requests PROVE Quiet
<1>1. ASSUME NEW name, NEW args, NEW then, NEW protect,
             Request(name, args, then, protect)
      PROVE  Quiet
  BY <1>1 DEF Request, Quiet
<1> QED BY <1>1 DEF Requests, NewSyntax, GuardedCons, NewPair, AppendElement,
                   NewVector, VectorAppend, MakeConstant, NewSymbol,
                   InitCompiler, Interpret, OpClosure, DefineGlobal,
                   SetGlobal, SetsGlobal

LEMMA CollectorIsQuiet ==
  ASSUME CollectorStep \/ Collect \/ Grow \/ FreeAST \/ UNCHANGED vars
  PROVE  Quiet
BY DEF CollectorStep, Blacken, RemoveWhite, SweepKeep, SweepFree, SweepEnd,
       Collect, Grow, FreeAST, MarkRoots, vars, roots, Quiet

(* A runtime error leaves no frame.                                        *)
LEMMA ResetFrames ==
  ASSUME IInv, ResetStack, MemoryStays PROVE FramesOK'
<1>1. bases' = <<>> /\ frames' = <<>> /\ bases' \in Seq(Nat \ {0})
  BY DEF ResetStack
<1>2. loose' \subseteq Obj
  BY DEF ResetStack, IInv, TypeOK, FramesOK, Pointees
<1> QED BY <1>1, <1>2, MemoryFacts DEF FramesOK

(* interpret calls the closure it has just pushed.                         *)
LEMMA FinishClosureFrames ==
  ASSUME IInv, FinishClosure PROVE FramesOK'
<1>1. MemoryStays /\ loose' = loose
  BY DEF FinishClosure
<1>2. above' \in [1..MaxStack -> Value] /\ FramesOK
  BY <1>1, MemoryFacts DEF IInv, TypeOK
<1>3. PICK o \in Obj :
        /\ stack' = Append(Pops(op.pushed), o)
        /\ \/ frames' = <<o>> /\ bases' = <<Len(stack')>>
           \/ UNCHANGED <<frames, bases>>
  BY DEF FinishClosure
<1>4. CASE frames' = <<o>> /\ bases' = <<Len(stack')>>
  <2>1. phase = "mutator"
    BY DEF FinishClosure, Finishing
  <2>2. Pops(op.pushed) \in Seq(Value)
    BY <2>1, Popped
  <2>3. Len(stack') \in Nat \ {0}
    BY <1>3, <2>2 DEF Value
  <2>4. bases' \in Seq(Nat \ {0}) /\ Len(bases') = Len(frames')
    BY <1>4, <2>3
  <2> QED BY <1>1, <1>2, <2>4 DEF FramesOK
<1>5. CASE UNCHANGED <<frames, bases>>
  BY <1>1, <1>2, <1>5 DEF FramesOK
<1> QED BY <1>3, <1>4, <1>5

LEMMA FinishesFrames == ASSUME IInv, Finishes PROVE FramesOK'
<1>1. ASSUME \/ FinishConstructor \/ FinishAppendElement
             \/ FinishWriteValueArray \/ AllocateString \/ Intern
             \/ FinishNative \/ FinishDefine \/ FinishInitCompiler
             \/ CaptureNew \/ CaptureExisting \/ CaptureEnd
      PROVE  FramesOK'
  <2>1. Quiet
    BY <1>1 DEF Quiet, FinishConstructor, FinishAppendElement,
                FinishWriteValueArray, AllocateString, Intern, FinishNative,
                FinishDefine, FinishInitCompiler, CaptureNew, CaptureExisting,
                CaptureEnd, roots
  <2> QED BY <2>1, QuietStep
<1>2. CASE FinishSetGlobal
  <2>1. MemoryStays
    BY <1>2 DEF FinishSetGlobal
  <2>2. CASE UNCHANGED <<stack, frames, bases, openUpvalues, loose>>
    BY <2>1, <2>2, QuietStep DEF Quiet
  <2>3. CASE ResetStack
    BY <2>1, <2>3, ResetFrames
  <2> QED BY <1>2, <2>2, <2>3 DEF FinishSetGlobal
<1> QED BY <1>1, <1>2, FinishClosureFrames DEF Finishes

LEMMA CallFrames == ASSUME IInv, Call PROVE FramesOK'
<1>1. PICK i \in Locals : /\ frames' = Append(frames, stack[i])
                          /\ bases' = Append(bases, i)
                          /\ stack[i] \in Obj
  BY DEF Call
<1>2. /\ FramesOK /\ stack \in Seq(Value) /\ frames \in Seq(Obj)
      /\ bases \in Seq(Nat \ {0}) /\ Len(bases) = Len(frames)
  BY DEF IInv, TypeOK, RootsOK, FramesOK
<1>3. i \in Nat \ {0}
  BY <1>2, LocalsAreSlots
<1>4. bases' \in Seq(Nat \ {0}) /\ Len(bases') = Len(frames')
  BY <1>1, <1>2, <1>3
<1> QED BY <1>2, <1>4 DEF FramesOK, Call

LEMMA ReturnFrames ==
  ASSUME IInv, ReturnToCaller \/ ReturnFromScript PROVE FramesOK'
<1>1. /\ FramesOK /\ frames \in Seq(Obj) /\ bases \in Seq(Nat \ {0})
      /\ Len(bases) = Len(frames)
      /\ openUpvalues \in [1..MaxStack -> Value]
  BY DEF IInv, TypeOK, RootsOK, FramesOK
<1>2. above' \in [1..MaxStack -> Value]
  BY MemoryFacts DEF ReturnToCaller, ReturnFromScript
<1>3. CASE ReturnToCaller
  <2>1. Len(frames) > 1 /\ frames' = Front(frames) /\ bases' = Front(bases)
    BY <1>3 DEF ReturnToCaller
  <2>2. bases' \in Seq(Nat \ {0}) /\ Len(bases') = Len(frames')
    BY <1>1, <2>1 DEF Front
  <2>3. Last(bases) \in Nat \ {0}
    <3>1. Len(bases) \in DOMAIN bases
      BY <1>1, <2>1
    <3> QED BY <1>1, <3>1 DEF Last
  <2>4. {openUpvalues[i] : i \in Last(bases)..MaxStack} \ {Nil} \subseteq Obj
    BY <1>1, <2>3 DEF Value
  <2>5. loose' \subseteq Obj
    BY <1>1, <1>3, <2>4 DEF ReturnToCaller, FramesOK
  <2> QED BY <1>2, <2>2, <2>5 DEF FramesOK
<1>4. CASE ReturnFromScript
  BY <1>1, <1>2, <1>4 DEF ReturnFromScript, FramesOK
<1> QED BY <1>3, <1>4

LEMMA MovesFrames == ASSUME IInv, Moves PROVE FramesOK'
<1>1. ASSUME \/ FindSymbol \/ Push \/ Pop \/ SetVariable \/ SetClosedVariable
             \/ CloseUpvalue \/ GetLeftVariable \/ UseFreed
             \/ EndCompiler \/ StartParse \/ ParseError
      PROVE  FramesOK'
  <2>1. Quiet
    BY <1>1 DEF Quiet, FindSymbol, Push, Pop, SetVariable, SetClosedVariable,
                CloseUpvalue, CloseUpvalues, GetLeftVariable, UseFreed,
                EndCompiler, StartParse, ParseError, roots
  <2> QED BY <2>1, QuietStep
<1>2. CASE SetLeftVariable
  <2>1. /\ HasTemporary /\ FramesOK
        /\ UNCHANGED <<frames, bases, loose>>
    BY <1>2 DEF SetLeftVariable, IInv, TypeOK
  <2>2. Last(stack) \in Value
    BY <2>1, TemporaryFacts
  <2>3. above' \in [1..MaxStack -> Value]
    BY <1>2, <2>1, <2>2 DEF SetLeftVariable, FramesOK
  <2> QED BY <2>1, <2>3 DEF FramesOK
<1>3. CASE RuntimeError
  BY <1>3, ResetFrames DEF RuntimeError
<1> QED BY <1>1, <1>2, <1>3, CallFrames, ReturnFrames DEF Moves

LEMMA FramesStep == ASSUME IInv, [Next]_vars PROVE FramesOK'
BY RequestsAreQuiet, CollectorIsQuiet, QuietStep, FinishesFrames, MovesFrames
   DEF Next

LEMMA CoreStep == ASSUME IInv, [Next]_vars PROVE Core'
BY RequestsStep, FinishesStep, MovesStep, CollectStep, GrowStep,
   FreeASTStep, CollectorStepStep, StutterStep DEF Next

(***************************************************************************)
(* The invariant holds: what the collector relies on and what it promises, *)
(* for any number of objects, any bounds and any mix of object types.  The *)
(* variables that a return leaves above the top of the stack are not part  *)
(* of what it promises: OnlyLeftVariablesDangle is about those.            *)
(***************************************************************************)
THEOREM Invariant == Spec => []IInv
<1>1. IInv /\ [Next]_vars => IInv'
  BY CoreStep, FramesStep DEF Core, IInv, TypeOK
<1> QED BY <1>1, InitIInv, PTL DEF Spec

(* Every variable keeps its type, and every object the shape of its type.  *)
THEOREM TypeCorrect == Spec => []TypeOK
<1>1. IInv => TypeOK
  BY DEF IInv
<1> QED BY <1>1, Invariant, PTL

(***************************************************************************)
(* No collection, wherever an allocation triggers it, frees an object that *)
(* the interpreter can still use: one that is reachable from the stack     *)
(* below its top, the frames, the globals, the closed upvalues, or what C  *)
(* variables hold.  What an upvalue finds in a slot above the top, where a *)
(* return has left it open, is not among those, and can be freed.          *)
(***************************************************************************)
THEOREM NothingDangles == Spec => []NoDangling
<1>1. IInv => NoDangling
  BY DEF IInv
<1> QED BY <1>1, Invariant, PTL

(* No scanned object points to an unmarked one while marking goes on.      *)
THEOREM MarkingIsTriColour == Spec => []TriColour
<1>1. IInv => TriColour
  BY DEF IInv
<1> QED BY <1>1, Invariant, PTL

(* No mark survives a collection.                                          *)
THEOREM NoMarkSurvives == Spec => []MarksAreClear
<1>1. IInv => MarksAreClear
  BY DEF IInv
<1> QED BY <1>1, Invariant, PTL

(* The pushes of every allocating operation protect all it still needs.    *)
THEOREM WaitingLocalsAreProtected == Spec => []LocalsAreProtected
<1>1. IInv => LocalsAreProtected
  BY DEF IInv
<1> QED BY <1>1, Invariant, PTL

(* Only sweep shortens the list of objects, and it runs with isOn alone.   *)
LEMMA HeapGrowsWhileOff ==
  ASSUME IInv, [Next]_vars, ~isOn PROVE Heap \subseteq Heap'
<1>1. ~Collecting /\ HeapOK
  BY DEF IInv, SessionOK, TypeOK
<1>2. objects \in Seq(Obj)
  BY <1>1 DEF HeapOK
<1>3. ASSUME UNCHANGED objects PROVE Heap \subseteq Heap'
  BY <1>3 DEF Heap
<1>4. ASSUME NEW o \in Obj, objects' = <<o>> \o objects
      PROVE  Heap \subseteq Heap'
  BY <1>2, <1>4, ToSetCons DEF Heap
<1>5. CASE Requests
  BY <1>3, <1>5 DEF Requests, NewSyntax, GuardedCons, NewPair, AppendElement,
     NewVector, VectorAppend, MakeConstant, NewSymbol, InitCompiler,
     Interpret, OpClosure, DefineGlobal, SetGlobal, SetsGlobal, Request,
     heapVars
<1>6. CASE Finishes
  BY <1>3, <1>4, <1>6 DEF Finishes, FinishConstructor, FinishAppendElement,
     FinishWriteValueArray, AllocateString, Intern, FinishNative,
     FinishDefine, FinishSetGlobal, FinishInitCompiler, FinishClosure, CaptureNew,
     CaptureExisting, CaptureEnd, Create, heapVars
<1>7. CASE Moves
  BY <1>3, <1>7 DEF Moves, FindSymbol, Push, Pop, SetVariable,
     SetClosedVariable, CloseUpvalue, Call, ReturnToCaller, ReturnFromScript,
     GetLeftVariable, SetLeftVariable, UseFreed, RuntimeError, EndCompiler,
     StartParse, ParseError, heapVars
<1>8. CASE Collect \/ Grow \/ FreeAST
  BY <1>3, <1>8 DEF Collect, Grow, FreeAST, MarkRoots, heapVars
<1>9. CASE CollectorStep
  BY <1>1, <1>9 DEF CollectorStep, Blacken, RemoveWhite, SweepKeep, SweepFree,
     SweepEnd, Collecting
<1>10. CASE UNCHANGED vars
  BY <1>3, <1>10 DEF vars, heapVars
<1> QED BY <1>5, <1>6, <1>7, <1>8, <1>9, <1>10 DEF Next

(* While the parser has turned the collector off, no object is freed.      *)
THEOREM OffMeansKept == Spec => NothingFreedWhileOff
<1>1. IInv /\ [Next]_vars => [~isOn => Heap \subseteq Heap']_vars
  BY HeapGrowsWhileOff
<1> QED BY <1>1, Invariant, PTL DEF Spec, NothingFreedWhileOff

LEMMA HeapIsFinite ==
  ASSUME HeapOK PROVE IsFiniteSet(Heap) /\ Heap \subseteq Obj
<1>1. objects \in [1..Len(objects) -> Obj] /\ Len(objects) \in Nat
  BY DEF HeapOK
<1>2. objects \in Surjection(1..Len(objects), Heap)
  BY <1>1 DEF Surjection, Heap, ToSet
<1>3. IsFiniteSet(1..Len(objects))
  BY <1>1, FS_Interval
<1>4. IsFiniteSet(Heap)
  BY <1>2, <1>3, FS_Surjection
<1> QED BY <1>1, <1>4 DEF Heap, ToSet

LEMMA FewerIn ==
  ASSUME NEW S, IsFiniteSet(S), NEW T \in SUBSET S, S # T
  PROVE  Cardinality(T) < Cardinality(S)
<1>1. /\ Cardinality(T) <= Cardinality(S) /\ Cardinality(T) # Cardinality(S)
      /\ Cardinality(S) \in Nat /\ Cardinality(T) \in Nat
  BY FS_Subset, FS_CardinalityType
<1> QED BY <1>1

(* Each step of a collection leaves fewer to come.                         *)
LEMMA FewerStepsLeft ==
  ASSUME IInv, Next, Collecting
  PROVE  StepsLeft' < StepsLeft
<1> DEFINE u == Cardinality(Untraced)
           n == Len(objects)
           afterU == Cardinality(Untraced')
           afterN == Len(objects')
<1>1. HeapOK /\ objects \in Seq(Obj) /\ n \in Nat
  BY DEF IInv, TypeOK, HeapOK
<1>2. gray \subseteq marked /\ cursor \in 1..(n + 1)
  BY DEF IInv, TypeOK, GcOK
<1>3. cursor \in Nat /\ 1 <= cursor /\ cursor <= n + 1
  <2> HIDE DEF n
  <2> QED BY <1>1, <1>2
<1>4. IsFiniteSet(Untraced) /\ u \in Nat
  <2>1. IsFiniteSet(Heap) /\ Untraced \in SUBSET Heap
    BY <1>1, HeapIsFinite DEF Untraced
  <2>2. IsFiniteSet(Untraced)
    BY <2>1, FS_Subset
  <2> QED BY <2>2, FS_CardinalityType
<1>5. CASE Blacken
  <2>1. PICK o \in gray : /\ marked' = marked \cup MarkedBy(o)
                          /\ gray' = (gray \ {o}) \cup (MarkedBy(o) \ marked)
    BY <1>5 DEF Blacken
  <2>2. phase = "trace" /\ phase' = "trace" /\ objects' = objects
    BY <1>5 DEF Blacken, heapVars
  <2>3. o \in Heap
    BY <2>2 DEF IInv, MarksOK, TypeOK, GcOK
  <2>4. Heap' = Heap
    BY <2>2 DEF Heap
  <2>5. Untraced' \subseteq Untraced /\ o \in Untraced /\ o \notin Untraced'
    BY <1>2, <2>1, <2>3, <2>4 DEF Untraced
  <2>6. afterU < u
    BY <1>4, <2>5, FewerIn
  <2>7. afterU \in Nat
    BY <1>4, <2>5, FS_Subset, FS_CardinalityType
  <2>8. StepsLeft = u + n + 2 /\ StepsLeft' = afterU + n + 2
    BY <2>2 DEF StepsLeft
  <2> HIDE DEF u, n, afterU, afterN
  <2> QED BY <1>1, <1>4, <2>6, <2>7, <2>8
<1>6. CASE RemoveWhite
  <2>1. /\ phase = "trace" /\ phase' = "sweep" /\ cursor' = 1
        /\ objects' = objects
    BY <1>6 DEF RemoveWhite, heapVars
  <2>2. StepsLeft = u + n + 2 /\ StepsLeft' = n + 2 - 1
    BY <2>1 DEF StepsLeft
  <2> HIDE DEF u, n, afterU, afterN
  <2> QED BY <1>1, <1>4, <2>2
<1>7. CASE SweepKeep
  <2>1. /\ phase = "sweep" /\ phase' = "sweep" /\ cursor' = cursor + 1
        /\ objects' = objects
    BY <1>7 DEF SweepKeep, heapVars
  <2>2. StepsLeft = n + 2 - cursor /\ StepsLeft' = n + 2 - (cursor + 1)
    BY <2>1 DEF StepsLeft
  <2> HIDE DEF n
  <2> QED BY <1>1, <1>3, <2>2
<1>8. CASE SweepFree
  <2>1. /\ phase = "sweep" /\ phase' = "sweep" /\ cursor' = cursor
        /\ cursor <= n /\ objects' = RemoveAt(objects, cursor)
    BY <1>8 DEF SweepFree, gcVars
  <2>2. cursor \in 1..n
    <3> HIDE DEF n
    <3> QED BY <1>1, <1>3, <2>1
  <2>3. IsInjective(objects) /\ cursor \in 1..Len(objects)
    BY <1>1, <2>2 DEF HeapOK
  <2>4. afterN = n - 1
    BY <1>1, <2>1, <2>3, ToSetRemoveAt
  <2>5. StepsLeft = n + 2 - cursor /\ StepsLeft' = afterN + 2 - cursor
    BY <2>1 DEF StepsLeft
  <2> HIDE DEF n, afterN
  <2> QED BY <1>1, <1>3, <2>4, <2>5
<1>9. CASE SweepEnd
  <2>1. phase = "sweep" /\ phase' = "mutator"
    BY <1>9 DEF SweepEnd
  <2>2. StepsLeft = n + 2 - cursor /\ StepsLeft' = 0
    BY <2>1 DEF StepsLeft
  <2> HIDE DEF n
  <2> QED BY <1>1, <1>3, <2>2
<1>10. ~Idle /\ ~Running /\ \A name : ~Finishing(name)
  BY DEF Idle, Running, Finishing, Collecting
<1>11. ~Requests
  BY <1>10 DEF Requests, NewSyntax, GuardedCons, NewPair, AppendElement,
     NewVector, VectorAppend, MakeConstant, NewSymbol, InitCompiler,
     Interpret, OpClosure, DefineGlobal, SetGlobal, SetsGlobal
<1>12. ~Finishes
  BY <1>10 DEF Finishes, FinishConstructor, FinishAppendElement,
     FinishWriteValueArray, AllocateString, Intern, FinishNative,
     FinishDefine, FinishSetGlobal, FinishInitCompiler, FinishClosure,
     CaptureNew, CaptureExisting, CaptureEnd, Collecting
<1>13. ~Moves
  BY <1>10 DEF Moves, FindSymbol, Push, Pop, SetVariable, SetClosedVariable,
     CloseUpvalue, Call, ReturnToCaller, ReturnFromScript, GetLeftVariable,
     SetLeftVariable, UseFreed, RuntimeError, EndCompiler, StartParse,
     ParseError
<1>14. ~Collect /\ ~Grow /\ ~FreeAST
  BY <1>10 DEF Collect, Grow, FreeAST, MarkRoots, Collecting
<1> QED BY <1>5, <1>6, <1>7, <1>8, <1>9, <1>11, <1>12, <1>13, <1>14
        DEF Next, CollectorStep

(* There are never more of them than two for each object, and two.         *)
LEMMA FewStepsLeft ==
  ASSUME IInv PROVE StepsLeft \in 0..(2 * Len(objects) + 2)
<1> DEFINE u == Cardinality(Untraced)
           n == Len(objects)
<1>1. HeapOK /\ objects \in [1..n -> Obj] /\ n \in Nat
  BY DEF IInv, TypeOK, HeapOK
<1>2. cursor \in 1..(n + 1)
  BY DEF IInv, TypeOK, GcOK
<1>3. IsFiniteSet(1..n) /\ Cardinality(1..n) = n
  <2> HIDE DEF n
  <2>1. 1 \in Int /\ n \in Int /\ n \in Nat
    BY <1>1
  <2>2. /\ IsFiniteSet(1..n)
        /\ Cardinality(1..n) = IF 1 > n THEN 0 ELSE n - 1 + 1
    BY <2>1, FS_Interval
  <2>3. (IF 1 > n THEN 0 ELSE n - 1 + 1) = n
    BY <2>1
  <2> QED BY <2>2, <2>3
<1>4. u \in Nat /\ u <= n
  <2>1. objects \in Surjection(1..n, Heap)
    BY <1>1 DEF Surjection, Heap, ToSet
  <2>2. IsFiniteSet(Heap) /\ Cardinality(Heap) <= n
    BY <1>3, <2>1, FS_Surjection
  <2>3. Untraced \in SUBSET Heap
    BY DEF Untraced
  <2>4. u <= Cardinality(Heap) /\ u \in Nat /\ Cardinality(Heap) \in Nat
    BY <2>2, <2>3, FS_Subset, FS_CardinalityType
  <2> HIDE DEF u, n
  <2> QED BY <1>1, <2>2, <2>4
<1>5. StepsLeft \in {u + n + 2, n + 2 - cursor, 0}
  BY DEF StepsLeft
<1> HIDE DEF u, n
<1>6. cursor \in Nat /\ 1 <= cursor /\ cursor <= n + 1
  BY <1>1, <1>2
<1>7. StepsLeft \in 0..(2 * n + 2)
  BY <1>1, <1>4, <1>5, <1>6
<1> QED BY <1>7 DEF n

(***************************************************************************)
(* A collection of n objects takes 2 * n + 2 steps at most, whatever they  *)
(* point to: in no state does it run in circles.                           *)
(***************************************************************************)
THEOREM CollectionsAdvance == Spec => CollectionAdvances
<1>1. IInv /\ [Next]_vars => [Collecting => StepsLeft' < StepsLeft]_vars
  BY FewerStepsLeft
<1> QED BY <1>1, Invariant, PTL DEF Spec, CollectionAdvances

(* A collection has at most two steps for each object to go, and two.      *)
THEOREM CollectionsAreShort == Spec => [](StepsLeft \in 0..(2 * Len(objects) + 2))
BY FewStepsLeft, Invariant, PTL
-----------------------------------------------------------------------------
(***************************************************************************)
(* Collector implements ManagedHeap, for every set of addresses, every     *)
(* bound and every choice of types: the interpreter's steps are Mutate and *)
(* Allocate, the step from marking to sweeping is Collect, and all other   *)
(* steps of a collection leave the abstract heap as it is.                 *)
(***************************************************************************)
(* What the interpreter can reach, in the terms of Collector.              *)
Live == Reachable(InUse, slots)

(* Marking marks nothing that is garbage: a collection frees all of it.    *)
OnlyLiveIsMarked == phase = "trace" => marked \subseteq Live

RInv == IInv /\ OnlyLiveIsMarked

(* What the interpreter holds is live, and so is what it points to.        *)
LEMMA InUseIsLive ==
  ASSUME IInv
  PROVE  /\ InUse \in SUBSET Obj /\ InUse \subseteq Live
         /\ Roots \subseteq Live /\ held \subseteq Live
         /\ Pointees(op.args) \subseteq Live
         /\ Reachable(Roots, slots) \subseteq Live
         /\ \A o \in Live : Pointees(slots[o]) \subseteq Live
<1>1. InUse \in SUBSET Obj
  <2>1. held \subseteq Obj /\ Pointees(op.args) \subseteq Obj
    BY DEF IInv, TypeOK, RootsOK, Pointees
  <2> QED BY <2>1, RootsAreObjects DEF InUse
<1>2. InUse \subseteq Live
  BY <1>1, RootsReachable DEF Live
<1>3. Reachable(Roots, slots) \subseteq Live
  BY DEF Reachable, Live, InUse
<1>4. \A o \in Live : Pointees(slots[o]) \subseteq Live
  BY ReachableClosed DEF Live
<1> QED BY <1>1, <1>2, <1>3, <1>4 DEF InUse

(* Both modules are about the same graphs.                                 *)
LEMMA SameGraph ==
  /\ Abstract!Value = Value
  /\ \A s : Abstract!Pointees(s) = Pointees(s)
  /\ \A S, fields : Abstract!IsClosed(S, fields) <=> IsClosed(S, fields)
  /\ \A from, fields :
        Abstract!Reachable(from, fields) = Reachable(from, fields)
<1>1. Abstract!Value = Value
  BY DEF Abstract!Value, Value
<1>2. \A s : Abstract!Pointees(s) = Pointees(s)
  BY DEF Abstract!Pointees, Pointees
<1>3. \A S, fields : Abstract!IsClosed(S, fields) <=> IsClosed(S, fields)
  BY <1>2 DEF Abstract!IsClosed, IsClosed
<1>4. \A from, fields :
        Abstract!Reachable(from, fields) = Reachable(from, fields)
  BY <1>3 DEF Abstract!Reachable, Reachable
<1> QED BY <1>1, <1>2, <1>3, <1>4

(* What the abstract heap looks like before sweep begins.                  *)
LEMMA Pictured ==
  ASSUME IInv, phase # "sweep"
  PROVE  /\ Survivors = Heap /\ Contents = slots
         /\ Abstract!Live = Live /\ Live \subseteq Heap
<1>1. Survivors = Heap
  BY DEF Survivors
<1>2. /\ slots \in [Obj -> Seq(Value)]
      /\ \A o \in Obj : o \notin Heap => slots[o] = <<>>
      /\ Heap \subseteq Obj
  BY DEF IInv, TypeOK, HeapOK, HasShape, Heap, ToSet
<1>3. Contents = slots
  BY <1>1, <1>2 DEF Contents
<1>4. Abstract!Live = Live
  BY <1>3, SameGraph DEF Abstract!Live, Live
<1>5. Live \subseteq Heap
  <2>1. InUse \subseteq Heap /\ IsClosed(Heap, slots)
    BY <1>1 DEF IInv, NoDangling, IsClosed
  <2> QED BY <1>2, <2>1, ReachableInClosed DEF Live
<1> QED BY <1>1, <1>3, <1>4, <1>5

(* What the abstract heap looks like after a step that sweeps nothing.     *)
LEMMA PicturedAfter ==
  ASSUME IInv', phase' # "sweep"
  PROVE  /\ Survivors' = Heap' /\ Contents' = slots'
         /\ slots' \in [Obj -> Seq(Value)]
<1>1. Survivors' = Heap'
  BY DEF Survivors
<1>2. /\ slots' \in [Obj -> Seq(Value)]
      /\ \A o \in Obj : o \notin Heap' => slots'[o] = <<>>
  BY DEF IInv, TypeOK, HeapOK, HasShape
<1>3. Contents' = slots'
  BY <1>1, <1>2 DEF Contents
<1> QED BY <1>1, <1>2, <1>3
-----------------------------------------------------------------------------
(***************************************************************************)
(* The interpreter.                                                        *)
(***************************************************************************)

(* References move, and reachable objects are written to.                  *)
LEMMA MutateMap ==
  ASSUME IInv, IInv', phase = "mutator", phase' = "mutator", Heap' = Heap,
         \A o \in Obj : slots'[o] # slots[o] =>
                          o \in Live /\ Pointees(slots'[o]) \subseteq Live,
         InUse' \subseteq Live \cup strings,
         strings' = strings \/ \E o \in Live : strings' = strings \cup {o}
  PROVE  Abstract!Next
<1>1. /\ Survivors = Heap /\ Contents = slots /\ Abstract!Live = Live
      /\ Survivors' = Heap' /\ Contents' = slots'
      /\ slots' \in [Obj -> Seq(Value)]
  BY Pictured, PicturedAfter
<1>2. Abstract!WritesFields({})
  BY <1>1, SameGraph DEF Abstract!WritesFields
<1>3. strings' \in {strings \cup {o} : o \in Live} \cup {strings}
  OBVIOUS
<1>4. Abstract!Mutate
  BY <1>1, <1>2, <1>3 DEF Abstract!Mutate
<1> QED BY <1>4 DEF Abstract!Next

(* Nothing but references in the roots and C variables moves.              *)
LEMMA MoveMap ==
  ASSUME IInv, IInv', phase = "mutator", phase' = "mutator",
         UNCHANGED <<heapVars, strings>>, InUse' \subseteq Live \cup strings
  PROVE  Abstract!Next
<1>1. Heap' = Heap /\ slots' = slots /\ strings' = strings
  BY DEF heapVars, Heap
<1> QED BY <1>1, MutateMap

(* A new object, which a reachable object may come to point to.            *)
LEMMA AllocateMap ==
  ASSUME IInv, IInv', phase = "mutator", phase' = "mutator",
         NEW o \in Obj \ Heap, Heap' = Heap \cup {o},
         \A x \in Obj \ {o} :
            slots'[x] # slots[x] =>
              x \in Live /\ Pointees(slots'[x]) \subseteq Live \cup {o},
         Pointees(slots'[o]) \subseteq Live \cup strings,
         InUse' \subseteq Live \cup {o},
         strings' = strings, isOn' = isOn
  PROVE  Abstract!Next
<1>1. /\ Survivors = Heap /\ Contents = slots /\ Abstract!Live = Live
      /\ Survivors' = Heap' /\ Contents' = slots'
      /\ slots' \in [Obj -> Seq(Value)]
  BY Pictured, PicturedAfter
<1>2. Abstract!WritesFields({o})
  BY <1>1, SameGraph DEF Abstract!WritesFields
<1>3. Abstract!Allocate
  BY <1>1, <1>2 DEF Abstract!Allocate
<1> QED BY <1>3 DEF Abstract!Next

(* A constructor's last step, whose object has live fields, is Allocate.   *)
LEMMA CreateMap ==
  ASSUME IInv, IInv', phase = "mutator", phase' = "mutator",
         NEW o \in Obj, NEW t, NEW fields, Create(o, t, fields),
         Pointees(fields) \subseteq Live \cup strings,
         InUse' \subseteq Live \cup {o},
         strings' = strings, isOn' = isOn
  PROVE  Abstract!Next
<1>1. o \in Obj \ Heap /\ objects' = <<o>> \o objects
        /\ slots' = [slots EXCEPT ![o] = fields]
  BY DEF Create
<1>2. objects \in Seq(Obj) /\ slots \in [Obj -> Seq(Value)]
  BY DEF IInv, TypeOK, HeapOK
<1>3. Heap' = Heap \cup {o}
  BY <1>1, <1>2, ToSetCons DEF Heap
<1>4. slots'[o] = fields /\ \A x \in Obj \ {o} : slots'[x] = slots[x]
  BY <1>1, <1>2
<1> QED BY <1>1, <1>3, <1>4, AllocateMap

(* A request protects what it holds, and all of it is reachable.           *)
LEMMA RequestMap ==
  ASSUME IInv, IInv', Idle, NEW name, NEW args, NEW then,
         NEW protect \in Seq(Value), Request(name, args, then, protect),
         Pointees(args) \subseteq Live, Pointees(protect) \subseteq Live
  PROVE  Abstract!Next
<1>1. /\ phase = "mutator" /\ phase' = "mutator"
      /\ UNCHANGED <<heapVars, strings>>
      /\ UNCHANGED <<frames, openUpvalues, globals, compilers, initString>>
      /\ held' \subseteq held /\ op'.args = args
      /\ stack' = stack \o protect
  BY DEF Request, Idle, gcVars
<1>2. Pointees(stack') = Pointees(stack) \cup Pointees(protect)
  <2>1. stack \in Seq(Value)
    BY DEF IInv, TypeOK, RootsOK
  <2> QED BY <1>1, <2>1, PointeesConcat
<1>3. Roots' = Roots \cup Pointees(protect)
  BY <1>1, <1>2 DEF Roots
<1>4. InUse' \subseteq Live
  BY <1>1, <1>3, InUseIsLive DEF InUse
<1> QED BY <1>1, <1>4, MoveMap

(* What an instruction can name is live.                                   *)
LEMMA AtHandIsLive ==
  ASSUME IInv, phase = "mutator"
  PROVE  /\ AtHand \subseteq Live /\ AtHand \subseteq Obj
         /\ frames # <<>> =>
              /\ Constants(slots[TopFrame][1]) \subseteq Live
              /\ Captured \subseteq Live
<1>1. Pointees(stack) \cup Pointees(globals) \cup held \subseteq Live
  BY InUseIsLive DEF Roots
<1>2. ASSUME frames # <<>>
      PROVE  /\ Constants(slots[TopFrame][1]) \subseteq Live
             /\ Captured \subseteq Live
  BY <1>2, TopFrameFacts, InUseIsLive
<1>3. ASSUME frames # <<>>, NEW u \in Captured
      PROVE  Pointees(slots[u]) \subseteq Live
  BY <1>2, <1>3, InUseIsLive
<1>4. AtHand \subseteq Live
  BY <1>1, <1>2, <1>3 DEF AtHand, Operands
<1>5. AtHand \subseteq Obj
  BY AtHandInHeap
<1> QED BY <1>2, <1>4, <1>5

(* An operation that begins frees and writes nothing.                      *)
LEMMA RequestsMap == ASSUME IInv, IInv', Requests PROVE Abstract!Next
<1>1. Idle /\ phase = "mutator"
  BY DEF Requests, NewSyntax, GuardedCons, NewPair, AppendElement, NewVector,
     VectorAppend, MakeConstant, NewSymbol, InitCompiler, Interpret,
     OpClosure, DefineGlobal, SetGlobal, SetsGlobal, Running, Idle
<1>2. Pointees(<<>>) = {} /\ <<>> \in Seq(Value)
  BY DEF Pointees
<1>3. ASSUME NEW v \in AtHand \cup {Nil}
      PROVE  /\ v \in Value /\ <<v>> \in Seq(Value)
             /\ {v} \cap Obj \subseteq Live
             /\ Pointees(<<v>>) \subseteq Live
             /\ Guarded(v) \in Seq(Value) /\ Pointees(Guarded(v)) \subseteq Live
  <2>1. v \in Value /\ <<v>> \in Seq(Value) /\ {v} \cap Obj \subseteq Live
    BY <1>1, AtHandIsLive DEF Value
  <2>2. Pointees(<<v>>) \subseteq Live
    BY <2>1, PointeesSingle
  <2> QED BY <1>2, <2>1, <2>2 DEF Guarded
<1>4. CASE NewSyntax
  <2>1. PICK value \in AtHand \cup {Nil} :
          Request("syntax", <<value>>, "hold", <<value>>)
    BY <1>4 DEF NewSyntax
  <2> QED BY <1>1, <1>3, <2>1, RequestMap
<1>5. CASE GuardedCons
  <2>1. PICK car \in AtHand \cup {Nil}, cdr \in AtHand \cup {Nil} :
          Request("cons", <<car, cdr>>, "hold", Guarded(car) \o Guarded(cdr))
    BY <1>5 DEF GuardedCons
  <2>2. Pointees(<<car, cdr>>) \subseteq Live
    BY <1>3, PointeesPair
  <2>3. PICK a, d : a = Guarded(car) /\ d = Guarded(cdr)
    OBVIOUS
  <2>4. /\ a \in Seq(Value) /\ d \in Seq(Value)
        /\ Pointees(a) \subseteq Live /\ Pointees(d) \subseteq Live
    BY <1>3, <2>3
  <2>5. a \o d \in Seq(Value)
    BY <2>4
  <2>6. Pointees(a \o d) \subseteq Live
    BY <2>4, PointeesConcat
  <2> QED BY <1>1, <2>1, <2>2, <2>3, <2>5, <2>6, RequestMap
<1>6. CASE NewPair
  <2>1. PICK car \in held \cup {Nil} :
          Request("pair", <<car, Nil>>, "hold", <<>>)
    BY <1>6 DEF NewPair
  <2>2. Pointees(<<car, Nil>>) \subseteq Live
    BY InUseIsLive, PointeesPair
  <2> QED BY <1>1, <1>2, <2>1, <2>2, RequestMap
<1>7. CASE AppendElement
  <2>1. PICK pair \in AtHand, value \in AtHand \cup {Nil},
             final \in Heap :
          /\ IsPair(pair) /\ IsFinalPair(final, pair)
          /\ Request("append", <<pair, value, final>>, "none",
                     <<value, pair>>)
    BY <1>7 DEF AppendElement
  <2>2. final \in Live
    <3>1. final \in Obj
      BY <1>1, <2>1, AtHandInHeap
    <3>2. Live \in SUBSET Obj
      BY DEF Live, Reachable
    <3>3. pair \in Live
      BY <1>1, AtHandIsLive
    <3>4. final \in Reachable(Live, slots)
      BY <2>1, <3>1, <3>2, <3>3, FinalPairReachable
    <3>5. IsClosed(Live, slots)
      BY InUseIsLive DEF IsClosed
    <3>6. Reachable(Live, slots) \subseteq Live
      BY <3>2, <3>5, ReachableInClosed
    <3> QED BY <3>4, <3>6
  <2>3. /\ pair \in Live /\ {value} \cap Obj \subseteq Live
        /\ pair \in Value /\ value \in Value
    BY <1>1, <1>3, AtHandIsLive DEF Value
  <2>4. /\ Pointees(<<pair, value, final>>) \subseteq Live
        /\ Pointees(<<value, pair>>) \subseteq Live
        /\ <<value, pair>> \in Seq(Value)
    BY <2>2, <2>3, PointeesPair, PointeesTriple
  <2> QED BY <1>1, <2>1, <2>4, RequestMap
<1>8. CASE NewVector
  BY <1>1, <1>2, <1>8, RequestMap DEF NewVector
<1>9. CASE VectorAppend
  <2>1. PICK vector \in IF isOn THEN Pointees(stack) ELSE held,
             value \in AtHand \cup {Nil} :
          Request("write", <<vector, value>>, "none", <<value>>)
    BY <1>9 DEF VectorAppend
  <2>2. vector \in Live
    BY InUseIsLive DEF Roots
  <2>3. Pointees(<<vector, value>>) \subseteq Live
    <3>1. {value} \cap Obj \subseteq Live
      BY <1>3
    <3>2. Pointees(<<vector, value>>) = {vector, value} \cap Obj
      BY PointeesPair
    <3> QED BY <2>2, <3>1, <3>2
  <2> QED BY <1>1, <1>3, <2>1, <2>3, RequestMap
<1>10. CASE MakeConstant
  <2>1. PICK value \in held \cup {Nil} :
          Request("write", <<compilers[1], value>>, "none", <<value>>)
    BY <1>10 DEF MakeConstant
  <2>2. compilers[1] \in Live
    <3>1. compilers \in Seq(Obj) /\ compilers # <<>>
      BY <1>10 DEF MakeConstant, IInv, TypeOK, RootsOK
    <3>2. compilers[1] \in Pointees(compilers)
      BY <3>1 DEF Pointees
    <3> QED BY <3>2, InUseIsLive DEF Roots
  <2>3. value \in AtHand \cup {Nil}
    BY DEF AtHand
  <2>4. Pointees(<<compilers[1], value>>) \subseteq Live
    <3>1. {value} \cap Obj \subseteq Live
      BY <1>3, <2>3
    <3>2. Pointees(<<compilers[1], value>>) = {compilers[1], value} \cap Obj
      BY PointeesPair
    <3> QED BY <2>2, <3>1, <3>2
  <2> QED BY <1>1, <1>3, <2>1, <2>3, <2>4, RequestMap
<1>11. CASE NewSymbol
  BY <1>1, <1>2, <1>11, RequestMap DEF NewSymbol
<1>12. CASE InitCompiler
  BY <1>1, <1>2, <1>12, RequestMap DEF InitCompiler
<1>13. CASE Interpret
  <2>1. PICK f \in held : Request("closure", <<f>>, "call", <<f>>)
    BY <1>13 DEF Interpret
  <2>2. f \in AtHand \cup {Nil}
    BY DEF AtHand
  <2> QED BY <1>1, <1>3, <2>1, <2>2, RequestMap
<1>14. CASE OpClosure
  <2>1. frames # <<>>
    BY <1>14 DEF OpClosure
  <2>2. PICK f \in Constants(slots[TopFrame][1]) :
          Request("closure", <<f>>, "capture", <<>>)
    BY <1>14 DEF OpClosure
  <2>3. Pointees(<<f>>) \subseteq Live
    BY <1>1, <2>1, AtHandIsLive, PointeesSingle
  <2> QED BY <1>1, <1>2, <2>2, <2>3, RequestMap
<1>15. ASSUME NEW then, SetsGlobal(then) PROVE Abstract!Next
  <2>1. frames # <<>> /\ HasTemporary
    BY <1>15 DEF SetsGlobal
  <2>2. PICK name \in Constants(slots[TopFrame][1]) :
          Request("define", <<name, Last(stack)>>, then, <<>>)
    BY <1>15 DEF SetsGlobal
  <2>3. {Last(stack)} \cap Obj \subseteq Live
    BY <2>1, TemporaryFacts, InUseIsLive
  <2>4. Pointees(<<name, Last(stack)>>) \subseteq Live
    BY <1>1, <2>1, <2>3, AtHandIsLive, PointeesPair
  <2> QED BY <1>1, <1>2, <2>2, <2>4, RequestMap
<1> QED BY <1>4, <1>5, <1>6, <1>7, <1>8, <1>9, <1>10, <1>11, <1>12, <1>13,
           <1>14, <1>15 DEF Requests, DefineGlobal, SetGlobal
-----------------------------------------------------------------------------
(* An operation is over: its locals are gone.                              *)
LEMMA LocalsGone ==
  ASSUME op' = NoOp PROVE InUse' = Roots' \cup held'
<1>1. Pointees(op'.args) = {}
  BY DEF NoOp, Pointees
<1> QED BY <1>1 DEF InUse

(* What mutator steps leave alone.                                         *)
LEMMA LocalsAreLive ==
  ASSUME IInv, phase = "mutator"
  PROVE  /\ op.args \in Seq(Value) /\ Pointees(op.args) \subseteq Live
         /\ \A i \in DOMAIN op.args : {op.args[i]} \cap Obj \subseteq Live
         /\ stack \in Seq(Value) /\ slots \in [Obj -> Seq(Value)]
         /\ Live \subseteq Heap /\ Heap \subseteq Obj
         /\ objects \in Seq(Obj)
<1>1. /\ op.args \in Seq(Value) /\ stack \in Seq(Value)
      /\ slots \in [Obj -> Seq(Value)] /\ Heap \subseteq Obj
      /\ objects \in Seq(Obj)
  BY MutatorFits DEF OpOK, RootsOK, HeapOK
<1>2. Pointees(op.args) \subseteq Live
  BY InUseIsLive
<1>3. \A i \in DOMAIN op.args : {op.args[i]} \cap Obj \subseteq Live
  BY <1>2 DEF Pointees
<1>4. Live \subseteq Heap
  BY Pictured
<1> QED BY <1>1, <1>2, <1>3, <1>4

(* A constructor's fields are among its arguments, which are live.         *)
LEMMA FinishConstructorMap ==
  ASSUME IInv, IInv', FinishConstructor PROVE Abstract!Next
<1>1. /\ phase = "mutator" /\ phase' = "mutator"
      /\ stack' = Pops(op.pushed) /\ op' = NoOp
      /\ UNCHANGED <<frames, openUpvalues, globals, compilers, initString>>
      /\ strings' = strings /\ isOn' = isOn
  BY DEF FinishConstructor, gcVars, session
<1>2. PICK o \in Obj : /\ Create(o, Constructs[op.name], op.args)
                       /\ held' = held \cup {o}
  BY DEF FinishConstructor
<1>3. Roots' \subseteq Roots
  BY <1>1, Popped DEF Roots
<1>4. InUse' \subseteq Live \cup {o}
  BY <1>1, <1>2, <1>3, LocalsGone, InUseIsLive
<1>5. Pointees(op.args) \subseteq Live
  BY InUseIsLive
<1> QED BY <1>1, <1>2, <1>4, <1>5, CreateMap

(* The pair at the end of the list is reachable when it is written to.     *)
LEMMA FinishAppendElementMap ==
  ASSUME IInv, IInv', FinishAppendElement PROVE Abstract!Next
<1> DEFINE final == op.args[3]
           value == op.args[2]
<1>1. /\ phase = "mutator" /\ phase' = "mutator" /\ op.name = "append"
      /\ stack' = Pops(op.pushed) /\ op' = NoOp
      /\ UNCHANGED <<frames, openUpvalues, globals, compilers, initString>>
      /\ strings' = strings /\ isOn' = isOn /\ held' = held
  BY DEF FinishAppendElement, Finishing, gcVars, session
<1>2. PICK o \in Obj \ Heap :
        /\ objects' = <<o>> \o objects
        /\ slots' = [slots EXCEPT ![o] = <<value, Nil>>,
                                  ![final] = <<slots[final][1], o>>]
  BY DEF FinishAppendElement
<1>3. Heap' = Heap \cup {o}
  BY <1>1, <1>2, LocalsAreLive, ToSetCons DEF Heap
<1>4. /\ {value} \cap Obj \subseteq Live
      /\ final \in Live /\ type[final] = "PAIR"
  <2>1. /\ Len(op.args) = 3 /\ final \in Obj
        /\ type[final] = "PAIR" /\ op.args \in Seq(Value)
    BY <1>1, MutatorFits DEF ArgsOK, OpOK, Is
  <2>2. 2 \in DOMAIN op.args /\ 3 \in DOMAIN op.args
    BY <2>1
  <2> QED BY <1>1, <2>1, <2>2, LocalsAreLive
<1>5. {slots[final][1]} \cap Obj \subseteq Live
  <2>1. slots[final] \in Seq(Value) /\ HasShape(slots[final], type[final])
    BY <1>1, <1>4, MutatorFits, LocalsAreLive DEF HeapOK
  <2>2. 1 \in DOMAIN slots[final]
    BY <1>4, <2>1 DEF HasShape
  <2>3. Pointees(slots[final]) \subseteq Live
    BY <1>4, InUseIsLive
  <2> QED BY <2>2, <2>3 DEF Pointees
<1> HIDE DEF final, value
<1>6. /\ Pointees(<<value, Nil>>) \subseteq Live
      /\ Pointees(<<slots[final][1], o>>) \subseteq Live \cup {o}
  BY <1>4, <1>5, PointeesPair
<1>7. final # o /\ final \in Obj
  BY <1>1, <1>4, LocalsAreLive
<1>8. /\ slots'[o] = <<value, Nil>> /\ slots'[final] = <<slots[final][1], o>>
      /\ \A x \in Obj \ {o, final} : slots'[x] = slots[x]
  BY <1>1, <1>2, <1>7, LocalsAreLive
<1>9. Roots' \subseteq Roots
  BY <1>1, Popped DEF Roots
<1>10. InUse' \subseteq Live
  BY <1>1, <1>9, LocalsGone, InUseIsLive
<1> QED BY <1>1, <1>3, <1>4, <1>6, <1>8, <1>10, AllocateMap

(* A chunk comes to hold a constant that was waiting, so a live one.       *)
LEMMA FinishWriteValueArrayMap ==
  ASSUME IInv, IInv', FinishWriteValueArray PROVE Abstract!Next
<1> DEFINE owner == op.args[1]
           value == op.args[2]
<1>1. /\ phase = "mutator" /\ phase' = "mutator" /\ op.name = "write"
      /\ slots' = [slots EXCEPT ![owner] = Append(@, value)]
      /\ stack' = Pops(op.pushed) /\ op' = NoOp
      /\ UNCHANGED <<objects, frames, openUpvalues, globals, compilers,
                     initString>>
      /\ strings' = strings /\ held' = held
  BY DEF FinishWriteValueArray, Finishing, gcVars
<1>2. /\ owner \in Live /\ value \in Value /\ {value} \cap Obj \subseteq Live
  <2>1. Len(op.args) = 2 /\ op.args \in Seq(Value) /\ owner \in Obj
    BY <1>1, MutatorFits DEF ArgsOK, OpOK, Is
  <2>2. 1 \in DOMAIN op.args /\ 2 \in DOMAIN op.args
    BY <2>1
  <2>3. value \in Value
    BY <2>1, <2>2
  <2>4. owner \in Live /\ {value} \cap Obj \subseteq Live
    BY <1>1, <2>1, <2>2, LocalsAreLive
  <2> QED BY <2>3, <2>4
<1> HIDE DEF owner, value
<1>3. slots[owner] \in Seq(Value) /\ owner \in Obj
        /\ Pointees(slots[owner]) \subseteq Live
  BY <1>1, <1>2, LocalsAreLive, InUseIsLive
<1>4. Pointees(Append(slots[owner], value)) \subseteq Live
  BY <1>2, <1>3, PointeesAppend
<1>5. /\ slots'[owner] = Append(slots[owner], value)
      /\ \A x \in Obj \ {owner} : slots'[x] = slots[x]
  BY <1>1, <1>3, LocalsAreLive
<1>6. Roots' \subseteq Roots
  BY <1>1, Popped DEF Roots
<1>7. InUse' \subseteq Live
  BY <1>1, <1>6, LocalsGone, InUseIsLive
<1>8. Heap' = Heap
  BY <1>1 DEF Heap
<1> QED BY <1>1, <1>2, <1>4, <1>5, <1>7, <1>8, MutateMap

(* The new symbol is on the stack.                                         *)
LEMMA PushedRoots ==
  ASSUME NEW o \in Obj, NEW base \in Seq(Value),
         Pointees(base) \subseteq Pointees(stack), stack' = Append(base, o),
         UNCHANGED <<frames, openUpvalues, globals, compilers, initString>>
  PROVE  Roots' \subseteq Roots \cup {o}
<1>1. o \in Value /\ {o} \cap Obj = {o}
  BY DEF Value
<1>2. Pointees(stack') = Pointees(base) \cup {o}
  BY <1>1, PointeesAppend
<1> QED BY <1>2 DEF Roots

(* A symbol is new, and on the stack before anything else happens.         *)
LEMMA AllocateStringMap ==
  ASSUME IInv, IInv', AllocateString PROVE Abstract!Next
<1>1. /\ phase = "mutator" /\ phase' = "mutator"
      /\ UNCHANGED <<frames, openUpvalues, globals, compilers, initString>>
      /\ strings' = strings /\ isOn' = isOn /\ held' = held
  BY DEF AllocateString, Finishing, gcVars, session
<1>2. PICK o \in Obj :
        /\ Create(o, "SYMBOL", <<>>)
        /\ stack' = Append(stack, o)
        /\ op' = [op EXCEPT !.name = "intern", !.args = <<o>> \o op.args,
                            !.pushed = 1]
  BY DEF AllocateString
<1>3. op'.args = <<o>> \o op.args
  BY <1>1, <1>2, MutatorFits DEF OpOK
<1>4. Pointees(op'.args) = {o} \cup Pointees(op.args)
  <2>1. <<o>> \in Seq(Value) /\ Pointees(<<o>>) = {o}
    BY PointeesSingle DEF Value
  <2> QED BY <1>1, <1>3, <2>1, LocalsAreLive, PointeesConcat
<1>5. Roots' \subseteq Roots \cup {o}
  BY <1>1, <1>2, LocalsAreLive, PushedRoots
<1>6. InUse' \subseteq Live \cup {o}
  BY <1>1, <1>4, <1>5, InUseIsLive DEF InUse
<1>7. Pointees(<<>>) = {}
  BY DEF Pointees
<1> QED BY <1>1, <1>2, <1>6, <1>7, CreateMap

(* What Intern keeps in its locals when it writes to no object.            *)
LEMMA InternArgs ==
  ASSUME Intern PROVE op'.args \in {<<>>, <<op.args[1]>>}
<1>1. \/ op' = NoOp
      \/ op' = [NoOp EXCEPT !.name = "symbol", !.then = "native"]
      \/ op' = [NoOp EXCEPT !.name = "native", !.args = <<op.args[1]>>]
  BY DEF Intern
<1>2. CASE op' = NoOp
  BY <1>2 DEF NoOp
<1>3. CASE op' = [NoOp EXCEPT !.name = "symbol", !.then = "native"]
  <2>1. op' = [name |-> "symbol", args |-> <<>>, then |-> "native",
               pushed |-> 0]
    BY <1>3 DEF NoOp
  <2> QED BY <2>1
<1>4. CASE op' = [NoOp EXCEPT !.name = "native", !.args = <<op.args[1]>>]
  <2>1. op' = [name |-> "native", args |-> <<op.args[1]>>, then |-> "none",
               pushed |-> 0]
    BY <1>4 DEF NoOp
  <2> QED BY <2>1
<1> QED BY <1>1, <1>2, <1>3, <1>4

(* The symbol enters the table while it is reachable.                      *)
LEMMA InternMap ==
  ASSUME IInv, IInv', Intern PROVE Abstract!Next
<1>0. PICK symbol : symbol = op.args[1]
  OBVIOUS
<1>1. /\ phase = "mutator" /\ phase' = "mutator" /\ op.pushed = 1
      /\ strings' = strings \cup {symbol}
      /\ UNCHANGED <<frames, openUpvalues, globals, compilers>>
      /\ Heap' = Heap
      /\ op.then = "name" => Is("FUNCTION", op.args[2])
  BY <1>0, InternFacts DEF gcVars
<1>2. symbol \in Live /\ symbol \in Obj
  <2>1. op.args # <<>> /\ op.args \in Seq(Value)
    BY <1>1, MutatorFits DEF Intern, Finishing, ArgsOK, OpOK
  <2>2. 1 \in DOMAIN op.args /\ symbol \in Obj
    BY <1>0, <2>1, InternFacts DEF Is
  <2> QED BY <1>0, <1>1, <2>2, LocalsAreLive
<1>3. Pointees(Pops(1)) \subseteq Pointees(stack)
  BY <1>1, Popped
<1>4. \E o \in Live : strings' = strings \cup {o}
  BY <1>1, <1>2
<1>5. /\ Roots \subseteq Live /\ held \subseteq Live
      /\ Pointees(op.args) \subseteq Live
  BY InUseIsLive
<1>6. CASE slots' = slots
  <2>1. /\ Pointees(stack') \subseteq Pointees(stack)
        /\ held' \subseteq held \cup {symbol}
        /\ initString' \in {initString, symbol}
    BY <1>0, <1>3 DEF Intern
  <2>2. Roots' \subseteq Live
    BY <1>1, <1>2, <1>5, <2>1 DEF Roots
  <2>3. Pointees(op'.args) \subseteq Live
    <3>1. op'.args \in {<<>>, <<symbol>>}
      BY <1>0, InternArgs
    <3> QED BY <1>2, <3>1, PointeesSingle DEF Pointees
  <2>4. InUse' \subseteq Live
    BY <1>2, <1>5, <2>1, <2>2, <2>3 DEF InUse
  <2> QED BY <1>1, <1>4, <1>6, <2>4, MutateMap
<1>7. CASE /\ op.then = "name"
           /\ slots' = [slots EXCEPT ![op.args[2]] = <<symbol>> \o Tail(@)]
           /\ stack' = Pops(1) /\ op' = NoOp
           /\ UNCHANGED <<initString, held>>
  <2> DEFINE f == op.args[2]
             fields == <<symbol>> \o Tail(slots[f])
  <2>1. f \in Live /\ f \in Obj
    <3>1. op.args \in Seq(Value) /\ Len(op.args) = 2 /\ f \in Obj
      BY <1>1, <1>7, MutatorFits DEF Intern, Finishing, ArgsOK, OpOK, Is
    <3>2. 2 \in DOMAIN op.args
      BY <3>1
    <3> QED BY <1>1, <3>1, <3>2, LocalsAreLive
  <2>2. slots[f] \in Seq(Value) /\ slots[f] # <<>>
    BY <1>1, <1>7, <2>1, MutatorFits DEF HeapOK, HasShape, Is
  <2>3. Tail(slots[f]) \in Seq(Value) /\ Pointees(Tail(slots[f])) \subseteq Live
    BY <2>1, <2>2, PointeesTail, InUseIsLive
  <2>4. Pointees(fields) \subseteq Live
    <3>1. <<symbol>> \in Seq(Value) /\ Pointees(<<symbol>>) = {symbol}
      BY <1>2, PointeesSingle DEF Value
    <3> QED BY <1>2, <2>3, <3>1, PointeesConcat
  <2>5. slots'[f] = fields /\ \A x \in Obj \ {f} : slots'[x] = slots[x]
    BY <1>1, <1>7, <2>1, LocalsAreLive
  <2> HIDE DEF f, fields
  <2>6. Roots' \subseteq Roots
    BY <1>1, <1>3, <1>7 DEF Roots
  <2>7. InUse' \subseteq Live
    BY <1>5, <1>7, <2>6, LocalsGone
  <2> QED BY <1>1, <1>4, <2>1, <2>4, <2>5, <2>7, MutateMap
<1> QED BY <1>0, <1>6, <1>7 DEF Intern

(* A native function is new, and on the stack with its name.               *)
LEMMA FinishNativeMap ==
  ASSUME IInv, IInv', FinishNative PROVE Abstract!Next
<1>1. /\ phase = "mutator" /\ phase' = "mutator"
      /\ UNCHANGED <<frames, openUpvalues, globals, compilers, initString>>
      /\ strings' = strings /\ isOn' = isOn /\ held' = held
  BY DEF FinishNative, Finishing, gcVars, session
<1>2. PICK o \in Obj :
        /\ Create(o, "NATIVE", <<>>)
        /\ stack' = Append(stack, o)
        /\ op'.args = op.args \o <<o>>
  <2>1. PICK o \in Obj :
          /\ Create(o, "NATIVE", <<>>)
          /\ stack' = Append(stack, o)
          /\ op' = [name |-> "define", then |-> "pop",
                    args |-> op.args \o <<o>>, pushed |-> 1]
    BY DEF FinishNative
  <2>2. op'.args = op.args \o <<o>>
    BY <2>1
  <2> QED BY <2>1, <2>2
<1>3. Pointees(op'.args) = Pointees(op.args) \cup {o}
  <2>1. <<o>> \in Seq(Value) /\ Pointees(<<o>>) = {o}
    BY PointeesSingle DEF Value
  <2> QED BY <1>1, <1>2, <2>1, LocalsAreLive, PointeesConcat
<1>4. Roots' \subseteq Roots \cup {o}
  BY <1>1, <1>2, LocalsAreLive, PushedRoots
<1>5. InUse' \subseteq Live \cup {o}
  BY <1>1, <1>3, <1>4, InUseIsLive DEF InUse
<1>6. Pointees(<<>>) = {}
  BY DEF Pointees
<1> QED BY <1>1, <1>2, <1>5, <1>6, CreateMap

(* The name and the value of a global were in the operation's locals.      *)
LEMMA DefinedIsLive ==
  ASSUME IInv, Finishing("define"),
         globals' = [globals EXCEPT ![op.args[1]] = op.args[2]],
         Pointees(stack') \subseteq Pointees(stack),
         UNCHANGED <<frames, openUpvalues, compilers, initString>>
  PROVE  Roots' \subseteq Live
<1>1. phase = "mutator" /\ op.name = "define"
  BY DEF Finishing
<1>2. /\ RootsOK /\ op.args \in Seq(Value)
      /\ Len(op.args) = 2 /\ Is("SYMBOL", op.args[1])
  BY <1>1, MutatorFits DEF OpOK, ArgsOK
<1>3. PICK name \in Live, value \in Value :
        /\ op.args[1] = name /\ op.args[2] = value
        /\ {value} \cap Obj \subseteq Live
  <2>1. 1 \in DOMAIN op.args /\ 2 \in DOMAIN op.args
    BY <1>2
  <2>2. op.args[2] \in Value
    BY <1>2, <2>1
  <2>3. op.args[1] \in Live /\ {op.args[2]} \cap Obj \subseteq Live
    BY <1>1, <1>2, <2>1, LocalsAreLive DEF Is
  <2> QED BY <2>2, <2>3
<1>4. globals' = [globals EXCEPT ![name] = value]
  BY <1>3
<1>5. Roots' \subseteq Roots \cup {name} \cup ({value} \cap Obj)
  <2>1. Pointees(globals') \subseteq Pointees(globals) \cup ({value} \cap Obj)
    BY <1>2, <1>4 DEF Pointees, RootsOK
  <2>2. {x \in Obj : globals'[x] # Absent}
          \subseteq {x \in Obj : globals[x] # Absent} \cup {name}
    BY <1>2, <1>4 DEF RootsOK
  <2> QED BY <2>1, <2>2 DEF Roots
<1> QED BY <1>3, <1>5, InUseIsLive

LEMMA FinishDefineMap ==
  ASSUME IInv, IInv', FinishDefine PROVE Abstract!Next
<1>1. /\ phase = "mutator" /\ phase' = "mutator" /\ Finishing("define")
      /\ globals' = [globals EXCEPT ![op.args[1]] = op.args[2]]
      /\ stack' = Pops(1 + op.pushed) /\ op' = NoOp
      /\ UNCHANGED <<heapVars, strings>>
      /\ UNCHANGED <<frames, openUpvalues, compilers, initString, held>>
  BY DEF FinishDefine, Finishing, gcVars
<1>2. Pointees(stack') \subseteq Pointees(stack)
  <2>1. 1 + op.pushed \in Nat /\ 1 + op.pushed <= Len(stack)
          /\ stack \in Seq(Value)
    BY <1>1, MutatorFits DEF RootsOK, OpOK, ArgsOK, Finishing
  <2> QED BY <1>1, <2>1, PointeesPop DEF Pops
<1>3. InUse' \subseteq Live
  BY <1>1, <1>2, DefinedIsLive, LocalsGone, InUseIsLive
<1> QED BY <1>1, <1>3, MoveMap

(* An error leaves less to use than there was.                             *)
LEMMA ResetIsLive ==
  ASSUME IInv, phase = "mutator", ResetStack,
         UNCHANGED <<globals, compilers, initString>>
  PROVE  Roots' \subseteq Live
<1>1. /\ Pointees(stack') = {} /\ Pointees(frames') = {}
      /\ Pointees(openUpvalues') = {}
  BY DEF ResetStack, Pointees
<1>2. Roots' \subseteq Roots
  BY <1>1 DEF Roots
<1> QED BY <1>2, InUseIsLive

LEMMA FinishSetGlobalMap ==
  ASSUME IInv, IInv', FinishSetGlobal PROVE Abstract!Next
<1>1. /\ phase = "mutator" /\ phase' = "mutator" /\ Finishing("define")
      /\ op' = NoOp /\ held' = held
      /\ UNCHANGED <<heapVars, strings>>
      /\ UNCHANGED <<compilers, initString>>
  BY DEF FinishSetGlobal, Finishing, gcVars
<1>2. Roots' \subseteq Live
  <2>1. CASE /\ globals' = [globals EXCEPT ![op.args[1]] = op.args[2]]
             /\ UNCHANGED <<stack, frames, bases, openUpvalues, loose>>
    BY <1>1, <2>1, DefinedIsLive
  <2>2. CASE ResetStack /\ UNCHANGED globals
    BY <1>1, <2>2, ResetIsLive
  <2> QED BY <2>1, <2>2 DEF FinishSetGlobal
<1>3. InUse' \subseteq Live
  BY <1>1, <1>2, LocalsGone, InUseIsLive
<1> QED BY <1>1, <1>3, MoveMap

(* The new function may hold a symbol that the table of strings returned.  *)
LEMMA FinishInitCompilerMap ==
  ASSUME IInv, IInv', FinishInitCompiler PROVE Abstract!Next
<1>1. /\ phase = "mutator" /\ phase' = "mutator"
      /\ UNCHANGED <<stack, frames, openUpvalues, globals, initString>>
      /\ strings' = strings /\ isOn' = isOn /\ held' = held
  BY DEF FinishInitCompiler, Finishing, gcVars, session
<1>2. PICK o \in Obj, name \in strings \cup {Nil} :
        /\ Create(o, "FUNCTION", <<name>>)
        /\ compilers' = <<o>> \o compilers
        /\ op' \in {NoOp, [NoOp EXCEPT !.name = "symbol", !.args = <<o>>,
                                       !.then = "name"]}
  BY DEF FinishInitCompiler
<1>3. Pointees(<<o>>) = {o} /\ Pointees(<<name>>) = {name} \cap Obj
  <2>1. {o} \cap Obj = {o}
    OBVIOUS
  <2> QED BY <2>1, PointeesSingle
<1>4. Pointees(<<name>>) \subseteq Live \cup strings
  BY <1>2, <1>3
<1>5. Pointees(op'.args) \subseteq {o}
  <2>1. CASE op' = NoOp
    BY <2>1 DEF NoOp, Pointees
  <2>2. CASE op' = [NoOp EXCEPT !.name = "symbol", !.args = <<o>>,
                                  !.then = "name"]
    <3>1. op' = [name |-> "symbol", args |-> <<o>>, then |-> "name",
                 pushed |-> 0]
      BY <2>2 DEF NoOp
    <3>2. op'.args = <<o>>
      BY <3>1
    <3> QED BY <1>3, <3>2
  <2> QED BY <1>2, <2>1, <2>2
<1>6. Roots' = Roots \cup {o}
  <2>1. compilers \in Seq(Value) /\ <<o>> \in Seq(Value)
    BY <1>1, MutatorFits DEF RootsOK, Value
  <2>2. Pointees(compilers') = {o} \cup Pointees(compilers)
    BY <1>2, <1>3, <2>1, PointeesConcat
  <2> QED BY <1>1, <2>2 DEF Roots
<1>7. InUse' \subseteq Live \cup {o}
  BY <1>1, <1>5, <1>6, InUseIsLive DEF InUse
<1> QED BY <1>1, <1>2, <1>4, <1>7, CreateMap

(* A closure's fields are its function and Nil, which are live.            *)
LEMMA FinishClosureMap ==
  ASSUME IInv, IInv', FinishClosure PROVE Abstract!Next
<1> DEFINE nils(n) == [i \in 1..n |-> Nil]
<1>1. /\ phase = "mutator" /\ phase' = "mutator"
      /\ UNCHANGED <<openUpvalues, globals, compilers, initString>>
      /\ strings' = strings /\ isOn' = isOn /\ held' = held
  BY DEF FinishClosure, Finishing, gcVars, session
<1>21. PICK o \in Obj, n \in 0..UpvalueCount :
         \E fields \in {op.args, op.args \o nils(n)} :
           /\ stack' = Append(Pops(op.pushed), o)
           /\ Create(o, "CLOSURE", fields)
           /\ frames' \in {frames, <<o>>}
           /\ op' \in {NoOp, [NoOp EXCEPT !.name = "capture", !.args = <<o>>]}
  <2>1. 0 \in 0..UpvalueCount
    BY CollectorAssumption
  <2> QED BY <2>1 DEF FinishClosure
<1>2. PICK fields \in {op.args, op.args \o nils(n)} :
        /\ stack' = Append(Pops(op.pushed), o)
        /\ Create(o, "CLOSURE", fields)
        /\ frames' \in {frames, <<o>>}
        /\ op' \in {NoOp, [NoOp EXCEPT !.name = "capture", !.args = <<o>>]}
  BY <1>21
<1>3. Pointees(<<o>>) = {o}
  BY PointeesSingle
<1>4. Pointees(fields) \subseteq Live
  <2> DEFINE some == nils(n)
  <2>1. some \in Seq(Value) /\ Pointees(some) = {}
    BY DEF Value, Pointees
  <2>0. fields \in {op.args, op.args \o some}
    BY <1>2
  <2> HIDE DEF some
  <2>2. /\ op.args \in Seq(Value) /\ Pointees(op.args) \subseteq Live
    BY <1>1, LocalsAreLive
  <2>3. Pointees(op.args \o some) \subseteq Live
    BY <2>1, <2>2, PointeesConcat
  <2> QED BY <2>0, <2>2, <2>3
<1>5. Pointees(op'.args) \subseteq {o}
  <2>1. CASE op' = NoOp
    BY <2>1 DEF NoOp, Pointees
  <2>2. CASE op' = [NoOp EXCEPT !.name = "capture", !.args = <<o>>]
    <3>1. op' = [name |-> "capture", args |-> <<o>>, then |-> "none",
                 pushed |-> 0]
      BY <2>2 DEF NoOp
    <3>2. op'.args = <<o>>
      BY <3>1
    <3> QED BY <1>3, <3>2
  <2> QED BY <1>2, <2>1, <2>2
<1>6. Pointees(stack') \subseteq Pointees(stack) \cup {o}
  <2>1. o \in Value /\ {o} \cap Obj = {o}
    BY DEF Value
  <2>2. /\ Pops(op.pushed) \in Seq(Value)
        /\ Pointees(Pops(op.pushed)) \subseteq Pointees(stack)
    BY <1>1, Popped
  <2> QED BY <1>2, <2>1, <2>2, PointeesAppend
<1>7. Roots' \subseteq Roots \cup {o}
  BY <1>1, <1>2, <1>3, <1>6 DEF Roots
<1>8. InUse' \subseteq Live \cup {o}
  BY <1>1, <1>5, <1>7, InUseIsLive DEF InUse
<1> QED BY <1>1, <1>2, <1>4, <1>8, CreateMap

(* The closure that captures is one of the operation's locals.             *)
LEMMA CapturingIsLive ==
  ASSUME IInv, Finishing("capture") PROVE op.args[1] \in Live
<1>1. /\ phase = "mutator" /\ Len(op.args) = 1 /\ op.args \in Seq(Value)
      /\ op.args[1] \in Obj
  BY MutatorFits DEF Finishing, ArgsOK, OpOK, Is
<1>2. 1 \in DOMAIN op.args
  BY <1>1
<1> QED BY <1>1, <1>2, LocalsAreLive

(* A new upvalue goes into a closure that is live.                         *)
LEMMA CaptureNewMap ==
  ASSUME IInv, IInv', CaptureNew PROVE Abstract!Next
<1>1. PICK c : c = op.args[1]
  OBVIOUS
<1>2. PICK i \in 2..(1 + UpvalueCount), local \in 1..MaxStack,
           o \in Obj \ Heap :
        /\ IsNext(i, c)
        /\ objects' = <<o>> \o objects
        /\ slots' = [slots EXCEPT ![o] = <<Nil>>, ![c][i] = o]
        /\ openUpvalues' = [openUpvalues EXCEPT ![local] = o]
  <2>1. \A local \in Locals : local <= MaxStack => local \in 1..MaxStack
    <3>1. stack \in Seq(Value)
      BY DEF IInv, TypeOK, RootsOK
    <3> QED BY <3>1, LocalsAreSlots
  <2> QED BY <1>1, <2>1 DEF CaptureNew
<1>3. /\ Finishing("capture") /\ phase = "mutator" /\ phase' = "mutator"
      /\ UNCHANGED <<stack, frames, globals, compilers, initString>>
      /\ strings' = strings /\ isOn' = isOn /\ held' = held /\ op' = op
  BY DEF CaptureNew, Finishing, gcVars, session
<1>4. /\ c \in Obj /\ c \in Heap /\ slots[c] \in Seq(Value)
      /\ i \in 2..Len(slots[c]) /\ slots[c][i] = Nil
  BY <1>1, <1>2, <1>3, CaptureFacts
<1>5. c \in Live
  BY <1>1, <1>3, <1>4, CapturingIsLive
<1> DEFINE fields == [slots[c] EXCEPT ![i] = o]
<1>6. Pointees(fields) = Pointees(slots[c]) \cup {o}
  <2>1. PICK old : old = slots[c]
    OBVIOUS
  <2>2. /\ old \in Seq(Value) /\ i \in 2..Len(old) /\ old[i] = Nil
        /\ o \in Obj
    BY <1>2, <1>4, <2>1
  <2>3. Pointees([old EXCEPT ![i] = o]) = Pointees(old) \cup {o}
    BY <2>2, FieldFilled
  <2> QED BY <2>1, <2>3
<1>7. slots' = [slots EXCEPT ![o] = <<Nil>>, ![c] = fields] /\ c # o
  BY <1>2, <1>3, <1>4, LocalsAreLive
<1> HIDE DEF fields
<1>8. /\ slots'[o] = <<Nil>> /\ slots'[c] = fields
      /\ \A x \in Obj \ {o, c} : slots'[x] = slots[x]
  BY <1>3, <1>4, <1>7, LocalsAreLive
<1>9. Pointees(slots'[c]) \subseteq Live \cup {o} /\ Pointees(slots'[o]) = {}
  BY <1>5, <1>6, <1>8, InUseIsLive, PointeesSingle
<1>10. Roots' \subseteq Roots \cup {o}
  <2>1. openUpvalues \in [1..MaxStack -> Value]
    BY <1>3, MutatorFits DEF RootsOK
  <2>2. Pointees(openUpvalues') \subseteq Pointees(openUpvalues) \cup {o}
    BY <1>2, <2>1 DEF Pointees
  <2> QED BY <1>3, <2>2 DEF Roots
<1>11. InUse' \subseteq Live \cup {o}
  BY <1>3, <1>10, InUseIsLive DEF InUse
<1>12. Heap' = Heap \cup {o}
  BY <1>2, <1>3, LocalsAreLive, ToSetCons DEF Heap
<1> QED BY <1>3, <1>5, <1>8, <1>9, <1>11, <1>12, AllocateMap

(* An upvalue that is open, or the frame's own, is live already.           *)
LEMMA CaptureExistingMap ==
  ASSUME IInv, IInv', CaptureExisting PROVE Abstract!Next
<1>1. PICK c : c = op.args[1]
  OBVIOUS
<1>2. PICK i \in 2..(1 + UpvalueCount),
           u \in Pointees(openUpvalues) \cup Captured :
        /\ IsNext(i, c)
        /\ slots' = [slots EXCEPT ![c][i] = u]
  <2>1. {openUpvalues[i] : i \in Locals \cap 1..MaxStack} \ {Nil}
          \subseteq Pointees(openUpvalues)
    <3>1. openUpvalues \in [1..MaxStack -> Value]
      BY DEF IInv, TypeOK, RootsOK
    <3> QED BY <3>1 DEF Pointees, Value
  <2> QED BY <1>1, <2>1 DEF CaptureExisting
<1>3. /\ Finishing("capture") /\ phase = "mutator" /\ phase' = "mutator"
      /\ objects' = objects
      /\ UNCHANGED <<stack, frames, openUpvalues, globals, compilers,
                     initString>>
      /\ strings' = strings /\ held' = held /\ op' = op
  BY DEF CaptureExisting, Finishing, gcVars
<1>4. /\ c \in Obj /\ slots[c] \in Seq(Value) /\ frames # <<>>
      /\ i \in 2..Len(slots[c]) /\ slots[c][i] = Nil
  BY <1>1, <1>2, <1>3, CaptureFacts
<1>5. c \in Live
  BY <1>1, <1>3, <1>4, CapturingIsLive
<1>6. u \in Live /\ u \in Obj
  <2>1. Pointees(openUpvalues) \subseteq Live
    BY InUseIsLive DEF Roots
  <2>2. u \in Live
    BY <1>2, <1>3, <1>4, <2>1, AtHandIsLive
  <2> QED BY <1>3, <2>2, LocalsAreLive
<1> DEFINE fields == [slots[c] EXCEPT ![i] = u]
<1>7. Pointees(fields) = Pointees(slots[c]) \cup {u}
  <2>1. PICK old : old = slots[c]
    OBVIOUS
  <2>2. old \in Seq(Value) /\ i \in 2..Len(old) /\ old[i] = Nil
    BY <1>4, <2>1
  <2>3. Pointees([old EXCEPT ![i] = u]) = Pointees(old) \cup {u}
    BY <1>6, <2>2, FieldFilled
  <2> QED BY <2>1, <2>3
<1>8. slots' = [slots EXCEPT ![c] = fields]
  BY <1>2, <1>3, <1>4, LocalsAreLive
<1> HIDE DEF fields
<1>9. slots'[c] = fields /\ \A x \in Obj \ {c} : slots'[x] = slots[x]
  BY <1>3, <1>4, <1>8, LocalsAreLive
<1>10. Pointees(slots'[c]) \subseteq Live
  BY <1>5, <1>6, <1>7, <1>9, InUseIsLive
<1>11. Heap' = Heap /\ InUse' = InUse
  BY <1>3 DEF Heap, InUse, Roots
<1> QED BY <1>3, <1>5, <1>9, <1>10, <1>11, InUseIsLive, MutateMap

(* A closure that is complete lets its locals go.                          *)
LEMMA CaptureEndMap ==
  ASSUME IInv, IInv', CaptureEnd PROVE Abstract!Next
<1>1. /\ phase = "mutator" /\ phase' = "mutator" /\ op' = NoOp
      /\ UNCHANGED <<heapVars, strings>> /\ UNCHANGED roots /\ held' = held
  BY DEF CaptureEnd, Finishing, gcVars
<1>2. Roots' = Roots
  BY <1>1 DEF Roots, roots
<1> QED BY <1>1, <1>2, LocalsGone, InUseIsLive, MoveMap

(* Every step that ends an operation is Mutate or Allocate.                *)
LEMMA FinishesMap == ASSUME IInv, IInv', Finishes PROVE Abstract!Next
BY FinishConstructorMap, FinishAppendElementMap, FinishWriteValueArrayMap,
   AllocateStringMap, InternMap, FinishNativeMap, FinishDefineMap,
   FinishSetGlobalMap, FinishInitCompilerMap, FinishClosureMap, CaptureNewMap,
   CaptureExistingMap, CaptureEndMap
   DEF Finishes
-----------------------------------------------------------------------------
(* Where nothing is left above the top, an open upvalue takes over a value *)
(* that is on the stack.                                                   *)
LEMMA ClosedOverIsLive ==
  ASSUME IInv, Strays = {}, NEW u \in Pointees(openUpvalues)
  PROVE  {InSlot(SlotOf(u))} \cap Obj \subseteq Live
<1>1. /\ openUpvalues \in [1..MaxStack -> Value] /\ stack \in Seq(Value)
      /\ MaxStack \in Nat
  BY DEF IInv, TypeOK, RootsOK
<1>2. PICK i : i = SlotOf(u)
  OBVIOUS
<1>3. i \in 1..MaxStack /\ openUpvalues[i] = u /\ u # Nil
  BY <1>1, <1>2 DEF SlotOf, Pointees
<1>4. i \in DOMAIN stack
  BY <1>1, <1>3 DEF Strays
<1>5. {stack[i]} \cap Obj \subseteq Pointees(stack)
  BY <1>4 DEF Pointees
<1>6. InSlot(i) = stack[i]
  BY <1>1, <1>4 DEF InSlot
<1> QED BY <1>2, <1>5, <1>6, InUseIsLive DEF Roots

(* The upvalues that take their variables over are open, and so reachable. *)
LEMMA CloseUpvalueMap ==
  ASSUME IInv, IInv', CloseUpvalue, Strays = {} PROVE Abstract!Next
<1>1. PICK last : last = Len(stack)
  OBVIOUS
<1> DEFINE closed == {openUpvalues[i] : i \in last..MaxStack} \ {Nil}
<1>2. /\ Idle /\ last \in Locals /\ stack' = Front(stack)
      /\ slots' = [u \in Obj |-> IF u \in closed THEN <<InSlot(SlotOf(u))>>
                                 ELSE slots[u]]
      /\ openUpvalues' = [i \in 1..MaxStack |->
                            IF i < last THEN openUpvalues[i] ELSE Nil]
      /\ UNCHANGED <<objects, frames, globals, compilers, initString>>
      /\ strings' = strings /\ held' = held /\ op' = op
      /\ phase = "mutator" /\ phase' = "mutator"
  BY <1>1 DEF CloseUpvalue, CloseUpvalues, Running, Idle, gcVars
<1>3. /\ stack \in Seq(Value) /\ openUpvalues \in [1..MaxStack -> Value]
      /\ MaxStack \in Nat /\ slots \in [Obj -> Seq(Value)]
  BY DEF IInv, TypeOK, RootsOK, HeapOK
<1>4. last \in Nat \ {0} /\ stack # <<>>
  BY <1>1, <1>2, <1>3, LocalsAreSlots, EmptySeq
<1>5. closed \subseteq Pointees(openUpvalues)
  BY <1>3, <1>4 DEF Pointees, Value
<1> HIDE DEF closed
<1>6. ASSUME NEW u \in closed
      PROVE  u \in Live /\ Pointees(<<InSlot(SlotOf(u))>>) \subseteq Live
  <2>1. PICK v : v = InSlot(SlotOf(u))
    OBVIOUS
  <2>2. {v} \cap Obj \subseteq Live
    BY <1>5, <1>6, <2>1, ClosedOverIsLive
  <2>3. Pointees(<<v>>) \subseteq Live
    BY <2>2, PointeesSingle
  <2> QED BY <1>5, <1>6, <2>1, <2>3, InUseIsLive DEF Roots
<1>7. \A x \in Obj : slots'[x] # slots[x] =>
                       x \in Live /\ Pointees(slots'[x]) \subseteq Live
  BY <1>2, <1>6
<1>8. /\ Pointees(stack') \subseteq Pointees(stack)
      /\ Pointees(openUpvalues') \subseteq Pointees(openUpvalues)
  <2>1. Pointees(stack') \subseteq Pointees(stack)
    BY <1>2, <1>3, <1>4, FrontFacts
  <2>2. Pointees(openUpvalues') \subseteq Pointees(openUpvalues)
    BY <1>2, <1>3 DEF Pointees
  <2> QED BY <2>1, <2>2
<1>9. InUse' \subseteq Live /\ Heap' = Heap
  <2>1. Roots' \subseteq Roots
    BY <1>2, <1>8 DEF Roots
  <2> QED BY <1>2, <2>1, InUseIsLive DEF Heap, InUse
<1> QED BY <1>2, <1>7, <1>9, MutateMap

(* A step between two operations that leaves the objects alone.            *)
LEMMA BetweenMap ==
  ASSUME IInv, IInv', Idle, phase' = "mutator", op' = op, held' \subseteq Live,
         UNCHANGED <<heapVars, strings, globals, initString>>,
         Pointees(stack') \subseteq Live, Pointees(frames') \subseteq Live,
         Pointees(openUpvalues') \subseteq Pointees(openUpvalues),
         Pointees(compilers') \subseteq Live
  PROVE  Abstract!Next
<1>1. Roots' \subseteq Live /\ phase = "mutator"
  BY InUseIsLive DEF Roots, Idle
<1>2. InUse' \subseteq Live
  BY <1>1, InUseIsLive DEF InUse
<1> QED BY <1>1, <1>2, MoveMap

(* What lies on the stack and in the frames between two operations.        *)
LEMMA BetweenFacts ==
  ASSUME IInv, Idle
  PROVE  /\ stack \in Seq(Value) /\ frames \in Seq(Value) /\ frames \in Seq(Obj)
         /\ compilers \in Seq(Obj) /\ held \subseteq Live
         /\ Pointees(stack) \subseteq Live /\ Pointees(frames) \subseteq Live
         /\ Pointees(compilers) \subseteq Live /\ phase = "mutator"
<1>1. RootsOK /\ phase = "mutator"
  BY IdleFits
<1>2. /\ stack \in Seq(Value) /\ frames \in Seq(Obj) /\ compilers \in Seq(Obj)
  BY <1>1 DEF RootsOK
<1>3. frames \in Seq(Value)
  BY <1>2 DEF Value
<1>4. /\ held \subseteq Live
      /\ Pointees(stack) \subseteq Live /\ Pointees(frames) \subseteq Live
      /\ Pointees(compilers) \subseteq Live
  BY InUseIsLive DEF Roots
<1> QED BY <1>1, <1>2, <1>3, <1>4

LEMMA FindSymbolMap == ASSUME IInv, IInv', FindSymbol PROVE Abstract!Next
<1>1. /\ Idle /\ phase = "mutator" /\ phase' = "mutator" /\ op' = op
      /\ UNCHANGED <<heapVars, strings>> /\ UNCHANGED roots
      /\ held' \subseteq held \cup strings
  BY DEF FindSymbol, Running, Idle, gcVars
<1>2. Roots' = Roots
  BY <1>1 DEF roots, Roots
<1>3. InUse' \subseteq Live \cup strings
  BY <1>1, <1>2, InUseIsLive DEF InUse
<1> QED BY <1>1, <1>3, MoveMap

LEMMA PushMap == ASSUME IInv, IInv', Push PROVE Abstract!Next
<1>1. /\ Idle /\ phase' = "mutator" /\ op' = op /\ held' = held
      /\ UNCHANGED <<heapVars, strings, globals, initString>>
      /\ UNCHANGED <<frames, openUpvalues, compilers>>
  BY DEF Push, Running, Idle, gcVars
<1>2. PICK value \in AtHand \cup {Nil} : stack' = Append(stack, value)
  BY DEF Push
<1>3. value \in Value /\ {value} \cap Obj \subseteq Live
  BY <1>1, BetweenFacts, AtHandIsLive DEF Value
<1>4. Pointees(stack') \subseteq Live
  BY <1>1, <1>2, <1>3, BetweenFacts, PointeesAppend
<1> QED BY <1>1, <1>4, BetweenFacts, BetweenMap

LEMMA PopMap == ASSUME IInv, IInv', Pop PROVE Abstract!Next
<1>1. /\ Idle /\ phase' = "mutator" /\ op' = op /\ held' = held
      /\ HasTemporary /\ stack' = Front(stack)
      /\ UNCHANGED <<heapVars, strings, globals, initString>>
      /\ UNCHANGED <<frames, openUpvalues, compilers>>
  BY DEF Pop, Running, Idle, gcVars
<1>2. Pointees(stack') \subseteq Live
  BY <1>1, TemporaryFacts, FrontFacts, BetweenFacts
<1> QED BY <1>1, <1>2, BetweenFacts, BetweenMap

LEMMA SetVariableMap == ASSUME IInv, IInv', SetVariable PROVE Abstract!Next
<1>1. /\ Idle /\ phase' = "mutator" /\ op' = op /\ held' = held
      /\ HasTemporary
      /\ UNCHANGED <<heapVars, strings, globals, initString>>
      /\ UNCHANGED <<frames, openUpvalues, compilers>>
  BY DEF SetVariable, Running, Idle, gcVars
<1>2. PICK i \in DOMAIN stack : stack' = [stack EXCEPT ![i] = Last(stack)]
  BY DEF SetVariable
<1>3. stack \in Seq(Value) /\ {Last(stack)} \cap Obj \subseteq Pointees(stack)
  BY <1>1, TemporaryFacts, FrontFacts
<1>4. DOMAIN stack' = DOMAIN stack
        /\ \A j \in DOMAIN stack : stack'[j] \in {stack[j], Last(stack)}
  BY <1>2, <1>3
<1>5. Pointees(stack') \subseteq Pointees(stack)
  BY <1>3, <1>4 DEF Pointees
<1> QED BY <1>1, <1>5, BetweenFacts, BetweenMap

(* The upvalue belongs to the running closure, and so is reachable.        *)
LEMMA SetClosedVariableMap ==
  ASSUME IInv, IInv', SetClosedVariable PROVE Abstract!Next
<1>1. /\ Idle /\ phase = "mutator" /\ phase' = "mutator" /\ op' = op
      /\ HasTemporary /\ frames # <<>> /\ strings' = strings
      /\ objects' = objects /\ UNCHANGED roots /\ held' = held
  BY DEF SetClosedVariable, Running, Idle, gcVars
<1>2. PICK u \in Captured : slots' = [slots EXCEPT ![u] = <<Last(stack)>>]
  BY DEF SetClosedVariable
<1>3. PICK v : v = Last(stack)
  OBVIOUS
<1>4. {v} \cap Obj \subseteq Live /\ u \in Live
  <2>1. {v} \cap Obj \subseteq Roots
    BY <1>1, <1>3, TemporaryFacts
  <2> QED BY <1>1, <1>2, <2>1, AtHandIsLive, InUseIsLive
<1>5. Pointees(<<v>>) \subseteq Live
  BY <1>4, PointeesSingle
<1>6. \A x \in Obj : slots'[x] # slots[x] =>
                       x \in Live /\ Pointees(slots'[x]) \subseteq Live
  <2>1. slots \in [Obj -> Seq(Value)]
    BY DEF IInv, TypeOK, HeapOK
  <2>2. \A x \in Obj : slots'[x] = IF x = u THEN <<v>> ELSE slots[x]
    BY <1>2, <1>3, <2>1
  <2> QED BY <1>4, <1>5, <2>2
<1>7. InUse' \subseteq Live /\ Heap' = Heap
  <2>1. Roots' = Roots
    BY <1>1 DEF roots, Roots
  <2> QED BY <1>1, <2>1, InUseIsLive DEF InUse, Heap
<1> QED BY <1>1, <1>6, <1>7, MutateMap

LEMMA CallMap == ASSUME IInv, IInv', Call PROVE Abstract!Next
<1>1. /\ Idle /\ phase' = "mutator" /\ op' = op /\ held' = held
      /\ UNCHANGED <<heapVars, strings, globals, initString>>
      /\ UNCHANGED <<stack, openUpvalues, compilers>>
  BY DEF Call, Running, Idle, gcVars
<1>2. PICK i \in Locals : stack[i] \in Obj /\ frames' = Append(frames, stack[i])
  BY DEF Call
<1>3. PICK c : c = stack[i]
  OBVIOUS
<1>4. c \in Value /\ {c} \cap Obj \subseteq Live
  <2>1. i \in DOMAIN stack
    BY <1>1, <1>2, BetweenFacts, LocalsAreSlots
  <2>2. c \in Pointees(stack)
    BY <1>2, <1>3, <2>1 DEF Pointees
  <2> QED BY <1>1, <1>2, <1>3, <2>2, BetweenFacts DEF Value
<1>5. Pointees(frames') \subseteq Live
  <2>1. Pointees(Append(frames, c)) = Pointees(frames) \cup ({c} \cap Obj)
    BY <1>1, <1>4, BetweenFacts, PointeesAppend
  <2> QED BY <1>1, <1>2, <1>3, <1>4, <2>1, BetweenFacts
<1> QED BY <1>1, <1>5, BetweenFacts, BetweenMap

LEMMA ReturnToCallerMap ==
  ASSUME IInv, IInv', ReturnToCaller PROVE Abstract!Next
<1>1. /\ Idle /\ phase' = "mutator" /\ op' = op /\ held' = held
      /\ HasTemporary /\ Len(frames) > 1 /\ frames' = Front(frames)
      /\ stack' = Append(SubSeq(stack, 1, Last(bases) - 1), Last(stack))
      /\ UNCHANGED <<heapVars, strings, globals, initString>>
      /\ UNCHANGED <<openUpvalues, compilers>>
  BY DEF ReturnToCaller, Running, Idle, gcVars
<1>2. PICK v : v = Last(stack)
  OBVIOUS
<1>3. v \in Value /\ {v} \cap Obj \subseteq Pointees(stack)
  BY <1>1, <1>2, TemporaryFacts, FrontFacts
<1>4. PICK rest : rest = SubSeq(stack, 1, Last(bases) - 1)
  OBVIOUS
<1>5. rest \in Seq(Value) /\ Pointees(rest) \subseteq Pointees(stack)
  BY <1>1, <1>4, RestOfStack
<1>6. Pointees(stack') \subseteq Live
  <2>1. Pointees(Append(rest, v)) = Pointees(rest) \cup ({v} \cap Obj)
    BY <1>3, <1>5, PointeesAppend
  <2> QED BY <1>1, <1>2, <1>3, <1>4, <1>5, <2>1, BetweenFacts
<1>7. Pointees(frames') \subseteq Live
  <2>1. frames # <<>>
    BY <1>1, EmptySeq
  <2> QED BY <1>1, <2>1, FrontFacts, BetweenFacts
<1> QED BY <1>1, <1>6, <1>7, BetweenFacts, BetweenMap

LEMMA ReturnFromScriptMap ==
  ASSUME IInv, IInv', ReturnFromScript PROVE Abstract!Next
<1>1. /\ Idle /\ phase' = "mutator" /\ op' = op /\ held' = held
      /\ HasTemporary /\ Len(stack) = Last(bases) + 1 /\ Len(frames) = 1
      /\ stack' = Pops(2) /\ Pointees(frames') = {}
      /\ UNCHANGED <<heapVars, strings, globals, initString>>
      /\ UNCHANGED <<openUpvalues, compilers>>
  BY DEF ReturnFromScript, Running, Idle, gcVars, Pointees
<1>2. stack \in Seq(Value) /\ 2 <= Len(stack)
  BY <1>1, ScriptsStack
<1>3. Pointees(stack') \subseteq Pointees(stack)
  BY <1>1, <1>2, PointeesPop DEF Pops
<1> QED BY <1>1, <1>3, BetweenFacts, BetweenMap

LEMMA SetLeftVariableMap ==
  ASSUME IInv, IInv', SetLeftVariable PROVE Abstract!Next
<1>1. /\ Idle /\ phase' = "mutator" /\ op' = op /\ held' = held
      /\ UNCHANGED <<heapVars, strings, globals, initString>>
      /\ UNCHANGED <<stack, frames, openUpvalues, compilers>>
  BY DEF SetLeftVariable, Running, Idle, gcVars
<1> QED BY <1>1, BetweenFacts, BetweenMap

LEMMA RuntimeErrorMap == ASSUME IInv, IInv', RuntimeError PROVE Abstract!Next
<1>1. /\ Idle /\ phase' = "mutator" /\ op' = op /\ held' = held
      /\ Pointees(stack') = {} /\ Pointees(frames') = {}
      /\ Pointees(openUpvalues') = {}
      /\ UNCHANGED <<heapVars, strings, globals, initString>>
      /\ UNCHANGED compilers
  BY DEF RuntimeError, ResetStack, Running, Idle, gcVars, Pointees
<1> QED BY <1>1, BetweenFacts, BetweenMap

LEMMA EndCompilerMap == ASSUME IInv, IInv', EndCompiler PROVE Abstract!Next
<1>1. /\ Idle /\ phase' = "mutator" /\ op' = op /\ compilers # <<>>
      /\ held' = held \cup {compilers[1]} /\ compilers' = Tail(compilers)
      /\ UNCHANGED <<heapVars, strings, globals, initString>>
      /\ UNCHANGED <<stack, frames, openUpvalues>>
  BY DEF EndCompiler, Running, Idle, gcVars
<1>2. compilers \in Seq(Obj) /\ compilers \in Seq(Value)
  BY <1>1, BetweenFacts DEF Value
<1>3. compilers[1] \in Pointees(compilers)
  BY <1>1, <1>2 DEF Pointees
<1>4. Pointees(compilers') \subseteq Pointees(compilers)
  BY <1>1, <1>2, PointeesTail
<1> QED BY <1>1, <1>3, <1>4, BetweenFacts, BetweenMap

LEMMA StartParseMap ==
  ASSUME IInv, IInv', StartParse \/ ParseError PROVE Abstract!Next
<1>1. /\ Idle /\ phase' = "mutator" /\ op' = op /\ held' = {}
      /\ UNCHANGED <<heapVars, strings>> /\ UNCHANGED roots
  BY DEF StartParse, ParseError, Running, Idle, gcVars
<1> QED BY <1>1, BetweenFacts, BetweenMap DEF roots

(* From here on nothing is defined; the abstract heap stays as it is.      *)
LEMMA UseFreedMap ==
  ASSUME IInv, UseFreed
  PROVE  UNCHANGED <<Survivors, Contents, InUse, strings, isOn>>
<1>1. /\ phase = "mutator" /\ phase' = "undefined" /\ op' = op
      /\ UNCHANGED <<objects, slots>> /\ UNCHANGED roots /\ held' = held
      /\ strings' = strings /\ isOn' = isOn
  BY DEF UseFreed, Running, Idle, heapVars, session
<1>2. Roots' = Roots
  BY <1>1 DEF roots, Roots
<1>3. Survivors' = Survivors
  BY <1>1 DEF Survivors, Heap
<1> QED BY <1>1, <1>2, <1>3 DEF Contents, InUse

(* Steps that allocate nothing bring back nothing but interned symbols and *)
(* what was left above the top of the stack.                               *)
LEMMA MovesMap ==
  ASSUME IInv, IInv', Moves
  PROVE  \/ Abstract!Next \/ BringsBack
         \/ UNCHANGED <<Survivors, Contents, InUse, strings, isOn>>
<1>1. CASE CloseUpvalue
  BY <1>1, CloseUpvalueMap DEF BringsBack
<1>2. CASE GetLeftVariable
  BY <1>2 DEF GetLeftVariable, LeftVariables, BringsBack
<1> QED BY <1>1, <1>2, FindSymbolMap, PushMap, PopMap, SetVariableMap,
           SetClosedVariableMap, CallMap, ReturnToCallerMap,
           ReturnFromScriptMap, SetLeftVariableMap, UseFreedMap,
           RuntimeErrorMap, EndCompilerMap, StartParseMap DEF Moves
-----------------------------------------------------------------------------
(***************************************************************************)
(* The collector.                                                          *)
(***************************************************************************)

(* A collection begins, and nothing abstract happens but that C variables  *)
(* of the code that called for memory are gone.                            *)
LEMMA MarkRootsMap ==
  ASSUME IInv, IInv', MarkRoots, op' = op, held' \subseteq held
  PROVE  Abstract!Next
<1>1. /\ phase = "mutator" /\ phase' = "trace" /\ strings' = strings
      /\ UNCHANGED <<heapVars, roots>>
  BY DEF MarkRoots
<1>2. Heap' = Heap /\ slots' = slots /\ Roots' = Roots
  BY <1>1 DEF heapVars, roots, Heap, Roots
<1>3. InUse' \subseteq Live
  BY <1>2, InUseIsLive DEF InUse
<1>4. /\ Survivors = Heap /\ Contents = slots /\ Abstract!Live = Live
      /\ Survivors' = Heap' /\ Contents' = slots'
      /\ slots' \in [Obj -> Seq(Value)]
  BY <1>1, Pictured, PicturedAfter
<1>5. Abstract!WritesFields({})
  BY <1>2, <1>4, SameGraph DEF Abstract!WritesFields
<1>6. Abstract!Mutate
  BY <1>1, <1>2, <1>3, <1>4, <1>5 DEF Abstract!Mutate
<1> QED BY <1>6 DEF Abstract!Next

(* Marking starts with the roots, which are live.                          *)
LEMMA OnlyLiveAfterMarkRoots ==
  ASSUME IInv, IInv', MarkRoots PROVE OnlyLiveIsMarked'
<1>1. marked = {} /\ marked' = Roots
  BY DEF MarkRoots, IInv, MarksAreClear, Collecting
<1>2. UNCHANGED roots
  BY DEF MarkRoots
<1>3. Roots' = Roots /\ Roots' \subseteq InUse'
  BY <1>2 DEF roots, Roots, InUse
<1>4. InUse' \in SUBSET Obj
  <2>1. held' \subseteq Obj /\ Pointees(op'.args) \subseteq Obj
          /\ Roots' \subseteq Obj
    BY DEF IInv, TypeOK, RootsOK, Pointees, Roots
  <2> QED BY <2>1 DEF InUse
<1>5. InUse' \subseteq Live'
  BY <1>4, RootsReachable DEF Live
<1> QED BY <1>1, <1>3, <1>5 DEF OnlyLiveIsMarked

(* An object is marked because a marked one points to it.                  *)
LEMMA BlackenMap ==
  ASSUME IInv, OnlyLiveIsMarked, Blacken
  PROVE  /\ OnlyLiveIsMarked'
         /\ UNCHANGED <<Survivors, Contents, InUse, strings, isOn>>
<1>1. /\ phase = "trace" /\ phase' = "trace" /\ strings' = strings
      /\ UNCHANGED <<heapVars, roots>> /\ held' = held /\ op' = op
      /\ isOn' = isOn
  BY DEF Blacken, session
<1>2. PICK o \in gray : marked' = marked \cup MarkedBy(o)
  BY DEF Blacken
<1>3. Heap' = Heap /\ slots' = slots /\ InUse' = InUse
  BY <1>1 DEF heapVars, roots, Heap, Roots, InUse
<1>4. Survivors' = Survivors /\ Contents' = Contents
  BY <1>1, <1>3 DEF Survivors, Contents
<1>5. MarkedBy(o) \subseteq Live
  <2>1. o \in Live
    BY <1>1, <1>2 DEF OnlyLiveIsMarked, IInv, TypeOK, GcOK
  <2>2. MarkedBy(o) \subseteq Pointees(slots[o])
    BY DEF MarkedBy
  <2> QED BY <2>1, <2>2, InUseIsLive
<1>6. Live' = Live
  BY <1>3 DEF Live
<1> QED BY <1>1, <1>2, <1>3, <1>4, <1>5, <1>6 DEF OnlyLiveIsMarked

(* Sweep begins: from here on the abstract heap has the marked objects     *)
(* alone, and they are the live ones.                                      *)
LEMMA RemoveWhiteMap ==
  ASSUME IInv, OnlyLiveIsMarked, RemoveWhite PROVE Abstract!Next
<1>1. /\ phase = "trace" /\ gray = {} /\ phase' = "sweep" /\ cursor' = 1
      /\ strings' = strings \cap marked /\ marked' = marked
      /\ UNCHANGED <<heapVars, roots>> /\ held' = held /\ op' = op
      /\ isOn' = isOn
  BY DEF RemoveWhite, session
<1>2. /\ Survivors = Heap /\ Contents = slots /\ Abstract!Live = Live
  BY <1>1, Pictured
<1>3. marked = Live
  <2>1. IsClosed(marked, slots) /\ InUse \subseteq marked
    BY <1>1, MarksAreComplete
  <2>2. marked \in SUBSET Obj
    BY DEF IInv, TypeOK, GcOK
  <2>3. Live \subseteq marked
    BY <2>1, <2>2, ReachableInClosed DEF Live
  <2> QED BY <1>1, <2>3 DEF OnlyLiveIsMarked
<1>4. Survivors' = Live
  BY <1>1, <1>3 DEF Survivors
<1>5. slots' = slots /\ InUse' = InUse
  BY <1>1 DEF heapVars, roots, Roots, InUse
<1>6. Contents' = [o \in Obj |-> IF o \in Live THEN slots[o] ELSE <<>>]
  BY <1>4, <1>5 DEF Contents
<1>7. isOn
  BY <1>1 DEF IInv, SessionOK, Collecting
<1>8. Abstract!Collect
  BY <1>1, <1>2, <1>3, <1>4, <1>5, <1>6, <1>7 DEF Abstract!Collect
<1> QED BY <1>8 DEF Abstract!Next

(* Sweeping an object does not change what survives.                       *)
LEMMA SweepMap ==
  ASSUME IInv, SweepKeep \/ SweepFree \/ SweepEnd
  PROVE  UNCHANGED <<Survivors, Contents, InUse, strings, isOn>>
<1> DEFINE o == objects[cursor]
<1>1. /\ phase = "sweep" /\ strings' = strings
      /\ held' = held /\ op' = op /\ isOn' = isOn
      /\ UNCHANGED <<stack, frames, openUpvalues, globals, compilers,
                     initString>>
  BY DEF SweepKeep, SweepFree, SweepEnd, session, roots
<1>2. InUse' = InUse
  BY <1>1 DEF Roots, InUse
<1>3. /\ objects \in Seq(Obj) /\ IsInjective(objects)
      /\ Len(objects) \in Nat /\ cursor \in 1..(Len(objects) + 1)
      /\ slots \in [Obj -> Seq(Value)]
      /\ marked \subseteq {objects[i] : i \in cursor..Len(objects)}
  <2>1. HeapOK /\ GcOK /\ MarksOK
    BY DEF IInv, TypeOK
  <2>2. /\ objects \in Seq(Obj) /\ IsInjective(objects)
        /\ slots \in [Obj -> Seq(Value)]
    BY <2>1 DEF HeapOK
  <2>3. /\ cursor \in 1..(Len(objects) + 1)
        /\ marked \subseteq {objects[i] : i \in cursor..Len(objects)}
    BY <1>1, <2>1 DEF GcOK, MarksOK
  <2> QED BY <2>2, <2>3
<1>4. CASE SweepKeep
  <2>1. /\ phase' = "sweep" /\ cursor <= Len(objects) /\ o \in marked
        /\ marked' = marked \ {o} /\ cursor' = cursor + 1
        /\ objects' = objects /\ slots' = slots
    BY <1>4 DEF SweepKeep, heapVars
  <2>2. {objects[i] : i \in 1..cursor}
          = {objects[i] : i \in 1..(cursor - 1)} \cup {o}
    BY <1>3, <2>1
  <2>3. cursor' - 1 = cursor
    BY <1>3, <2>1
  <2>4. Survivors' = Survivors
    <3> DEFINE kept == {objects[i] : i \in 1..(cursor - 1)}
    <3>1. Survivors = kept \cup marked
      BY <1>1 DEF Survivors
    <3>2. Survivors' = {objects[i] : i \in 1..cursor} \cup (marked \ {o})
      BY <2>1, <2>3 DEF Survivors
    <3> HIDE DEF kept, o
    <3>3. {objects[i] : i \in 1..cursor} = kept \cup {o}
      BY <2>2 DEF kept
    <3> QED BY <2>1, <3>1, <3>2, <3>3
  <2> QED BY <1>1, <1>2, <2>1, <2>4 DEF Contents
<1>5. CASE SweepFree
  <2>1. /\ cursor <= Len(objects) /\ o \notin marked
        /\ objects' = RemoveAt(objects, cursor)
        /\ slots' = [slots EXCEPT ![o] = <<>>]
        /\ phase' = "sweep" /\ marked' = marked /\ cursor' = cursor
    BY <1>1, <1>5 DEF SweepFree, gcVars
  <2>2. cursor \in 1..Len(objects) /\ o \in Obj
    BY <1>3, <2>1
  <2>3. \A i \in 1..(cursor - 1) : objects'[i] = objects[i]
    BY <1>3, <2>1, <2>2, ToSetRemoveAt
  <2>4. Survivors' = Survivors
    BY <1>1, <1>3, <2>1, <2>3 DEF Survivors
  <2>5. o \notin Survivors
    BY <1>1, <1>3, <2>1, <2>2 DEF Survivors, IsInjective
  <2>6. \A x \in Obj \ {o} : slots'[x] = slots[x]
    BY <1>3, <2>1, <2>2
  <2>7. Contents' = Contents
    BY <2>4, <2>5, <2>6 DEF Contents
  <2> QED BY <1>1, <1>2, <2>4, <2>7
<1>6. CASE SweepEnd
  <2>1. /\ cursor > Len(objects) /\ phase' = "mutator"
        /\ objects' = objects /\ slots' = slots
    BY <1>6 DEF SweepEnd, heapVars
  <2>2. cursor - 1 = Len(objects) /\ marked = {}
    BY <1>3, <2>1
  <2>3. Survivors' = Survivors
    BY <1>1, <1>3, <2>1, <2>2 DEF Survivors, Heap, ToSet
  <2> QED BY <1>1, <1>2, <2>1, <2>3 DEF Contents
<1> QED BY <1>4, <1>5, <1>6
-----------------------------------------------------------------------------
(* The interpreter's steps do not run while marks are set.                 *)
LEMMA OnlyLiveStep ==
  ASSUME IInv, IInv', OnlyLiveIsMarked, [Next]_vars PROVE OnlyLiveIsMarked'
<1>1. CASE Requests \/ Finishes \/ Moves
  <2>1. phase' # "trace"
    <3>1. CASE Requests
      BY <3>1 DEF Requests, NewSyntax, GuardedCons, NewPair, AppendElement,
         NewVector, VectorAppend, MakeConstant, NewSymbol, InitCompiler,
         Interpret, OpClosure, DefineGlobal, SetGlobal, SetsGlobal, Request,
         Running, Idle, gcVars
    <3>2. CASE Finishes
      BY <3>2 DEF Finishes, FinishConstructor, FinishAppendElement,
         FinishWriteValueArray, AllocateString, Intern, FinishNative,
         FinishDefine, FinishSetGlobal, FinishInitCompiler, FinishClosure,
         CaptureNew, CaptureExisting, CaptureEnd, Finishing, gcVars
    <3>3. CASE Moves
      BY <3>3 DEF Moves, FindSymbol, Push, Pop, SetVariable,
         SetClosedVariable, CloseUpvalue, Call, ReturnToCaller,
         ReturnFromScript, GetLeftVariable, SetLeftVariable, UseFreed,
         RuntimeError, EndCompiler, StartParse, ParseError, Running, Idle,
         gcVars
    <3> QED BY <1>1, <3>1, <3>2, <3>3
  <2> QED BY <2>1 DEF OnlyLiveIsMarked
<1>2. CASE Collect \/ Grow \/ FreeAST
  <2>1. MarkRoots
    BY <1>2 DEF Collect, Grow, FreeAST
  <2> QED BY <2>1, OnlyLiveAfterMarkRoots
<1>3. CASE Blacken
  BY <1>3, BlackenMap
<1>4. CASE RemoveWhite \/ SweepKeep \/ SweepFree \/ SweepEnd
  <2>1. phase' # "trace"
    BY <1>4 DEF RemoveWhite, SweepKeep, SweepFree, SweepEnd, gcVars
  <2> QED BY <2>1 DEF OnlyLiveIsMarked
<1>5. CASE UNCHANGED vars
  <2>1. /\ phase' = phase /\ marked' = marked /\ slots' = slots
        /\ UNCHANGED roots /\ held' = held /\ op' = op
    BY <1>5 DEF vars, heapVars, gcVars
  <2>2. InUse' = InUse
    BY <2>1 DEF roots, Roots, InUse
  <2>3. Live' = Live
    BY <2>1, <2>2 DEF Live
  <2> QED BY <2>1, <2>3 DEF OnlyLiveIsMarked
<1> QED BY <1>1, <1>2, <1>3, <1>4, <1>5 DEF Next, CollectorStep

(* The heap is empty at first.                                             *)
LEMMA MapInit == Init => Abstract!Init
<1> SUFFICES ASSUME Init PROVE Abstract!Init
  OBVIOUS
<1>1. IInv /\ phase = "mutator"
  BY InitIInv DEF Init
<1>2. objects = <<>> /\ slots = [o \in Obj |-> <<>>]
        /\ strings = {} /\ isOn = TRUE
  BY DEF Init
<1>3. Heap = {}
  BY <1>2 DEF Heap, ToSet
<1>4. InUse = {}
  BY <1>1, <1>3, MutatorFacts
<1>5. Survivors = {} /\ Contents = slots
  BY <1>1, <1>3, Pictured
<1> QED BY <1>2, <1>4, <1>5 DEF Abstract!Init

(* Every step is one of ManagedHeap's, or leaves the abstract heap alone,  *)
(* or brings back what was left above the top of the stack.                *)
LEMMA MapStep ==
  ASSUME RInv, RInv', [Next]_vars
  PROVE  \/ Abstract!Next \/ BringsBack
         \/ UNCHANGED <<Survivors, Contents, InUse, strings, isOn>>
<1>1. IInv /\ IInv' /\ OnlyLiveIsMarked
  BY DEF RInv
<1>2. CASE Requests \/ Finishes \/ Moves
  BY <1>1, <1>2, RequestsMap, FinishesMap, MovesMap
<1>3. CASE Collect \/ Grow \/ FreeAST
  <2>1. MarkRoots /\ op' = op /\ held' \subseteq held
    BY <1>3 DEF Collect, Grow, FreeAST
  <2> QED BY <1>1, <2>1, MarkRootsMap
<1>4. CASE CollectorStep
  BY <1>1, <1>4, BlackenMap, RemoveWhiteMap, SweepMap DEF CollectorStep
<1>5. CASE UNCHANGED vars
  <2>1. /\ UNCHANGED <<objects, slots, roots, strings, isOn, held, op>>
        /\ UNCHANGED <<phase, marked, cursor>>
    BY <1>5 DEF vars, heapVars, session, gcVars
  <2>2. InUse' = InUse
    BY <2>1 DEF roots, Roots, InUse
  <2>3. Survivors' = Survivors
    BY <2>1 DEF Survivors, Heap
  <2> QED BY <2>1, <2>2, <2>3 DEF Contents
<1> QED BY <1>2, <1>3, <1>4, <1>5 DEF Next

LEMMA OnlyLiveAlways == Spec => [](IInv /\ OnlyLiveIsMarked)
<1>1. Init => OnlyLiveIsMarked
  BY DEF Init, OnlyLiveIsMarked
<1>2. IInv /\ IInv' /\ OnlyLiveIsMarked /\ [Next]_vars => OnlyLiveIsMarked'
  BY OnlyLiveStep
<1> QED BY <1>1, <1>2, Invariant, PTL DEF Spec

(***************************************************************************)
(* Whatever types of objects there are, every step is one of the heap's    *)
(* that frees exactly the unreachable objects, as if at once, but for the  *)
(* two that can read a variable above the top of the stack, where a return *)
(* has left it: OP_GET_UPVALUE and OP_CLOSE_UPVALUE.                       *)
(***************************************************************************)
THEOREM CollectorManagesTheRest == Spec => ManagesTheRest
<1>1. RInv /\ RInv' /\ [Next]_vars =>
        UNCHANGED Abstract!vars \/ BringsBack \/ Abstract!Next
  BY MapStep DEF Abstract!vars
<1>2. IInv /\ OnlyLiveIsMarked => RInv
  BY DEF RInv
<1> QED BY <1>1, <1>2, OnlyLiveAlways, PTL DEF Spec, ManagesTheRest

(* Without upvalues nothing is left above the top of the stack.            *)
NoneOpen == Pointees(openUpvalues) = {}

LEMMA NoneOpenInit == Init => NoneOpen
<1> SUFFICES ASSUME Init PROVE NoneOpen
  OBVIOUS
<1>1. openUpvalues = [i \in 1..MaxStack |-> Nil]
  BY DEF Init
<1> QED BY <1>1 DEF NoneOpen, Pointees

LEMMA NoneOpenStep ==
  ASSUME "UPVALUE" \notin Types, IInv, NoneOpen, [Next]_vars PROVE NoneOpen'
<1>1. ASSUME UNCHANGED openUpvalues PROVE NoneOpen'
  BY <1>1 DEF NoneOpen, Pointees
<1>2. CASE Requests
  BY <1>1, <1>2 DEF Requests, NewSyntax, GuardedCons, NewPair, AppendElement,
     NewVector, VectorAppend, MakeConstant, NewSymbol, InitCompiler,
     Interpret, OpClosure, DefineGlobal, SetGlobal, SetsGlobal, Request
<1>3. ASSUME ResetStack PROVE NoneOpen'
  BY <1>3 DEF ResetStack, NoneOpen, Pointees
<1>4. CASE Finishes
  BY <1>1, <1>3, <1>4 DEF Finishes, FinishConstructor, FinishAppendElement,
     FinishWriteValueArray, AllocateString, Intern, FinishNative,
     FinishDefine, FinishSetGlobal, FinishInitCompiler, FinishClosure,
     CaptureNew, CaptureExisting, CaptureEnd, roots
<1>5. CASE CloseUpvalue
  <2>1. openUpvalues' = [i \in 1..MaxStack |->
                           IF i < Len(stack) THEN openUpvalues[i] ELSE Nil]
    BY <1>5 DEF CloseUpvalue, CloseUpvalues
  <2>2. openUpvalues \in [1..MaxStack -> Value]
    BY DEF IInv, TypeOK, RootsOK
  <2> QED BY <2>1, <2>2 DEF NoneOpen, Pointees
<1>6. CASE Moves
  BY <1>1, <1>3, <1>5, <1>6 DEF Moves, FindSymbol, Push, Pop, SetVariable,
     SetClosedVariable, Call, ReturnToCaller, ReturnFromScript,
     GetLeftVariable, SetLeftVariable, UseFreed, RuntimeError, EndCompiler,
     StartParse, ParseError, roots
<1>7. CASE Collect \/ Grow \/ FreeAST \/ CollectorStep \/ UNCHANGED vars
  BY <1>1, <1>7 DEF Collect, Grow, FreeAST, MarkRoots, CollectorStep, Blacken,
     RemoveWhite, SweepKeep, SweepFree, SweepEnd, vars, roots
<1> QED BY <1>2, <1>4, <1>6, <1>7 DEF Next

LEMMA NothingLeft == ASSUME IInv, NoneOpen PROVE ~BringsBack
<1>1. openUpvalues \in [1..MaxStack -> Value]
  BY DEF IInv, TypeOK, RootsOK
<1>2. Strays = {}
  BY <1>1 DEF NoneOpen, Strays, Pointees, Value
<1> QED BY <1>2 DEF BringsBack

(***************************************************************************)
(* As long as nothing creates upvalues, as in a program whose closures     *)
(* capture no variable, a collection frees exactly the unreachable         *)
(* objects, as if in one step, wherever an allocation triggers it, and     *)
(* nothing else frees or brings back anything.  With upvalues this is      *)
(* false: see CollectorManagesTheRest.                                     *)
(***************************************************************************)
THEOREM CollectorIsAManagedHeap ==
  ASSUME "UPVALUE" \notin Types PROVE Spec => ImplementsManagedHeap
<1>1. Init => NoneOpen
  BY NoneOpenInit
<1>2. IInv /\ NoneOpen /\ [Next]_vars => NoneOpen'
  BY NoneOpenStep
<1>3. Init => Abstract!Init
  BY MapInit
<1>4. IInv /\ OnlyLiveIsMarked => RInv
  BY DEF RInv
<1>5. RInv /\ RInv' /\ NoneOpen /\ [Next]_vars => [Abstract!Next]_(Abstract!vars)
  BY MapStep, NothingLeft DEF Abstract!vars, RInv
<1> QED BY <1>1, <1>2, <1>3, <1>4, <1>5, Invariant, OnlyLiveAlways, PTL
        DEF Spec, ImplementsManagedHeap, Abstract!Spec
-----------------------------------------------------------------------------
(***************************************************************************)
(* The variables that functions have left.                                 *)
(***************************************************************************)

(* An open upvalue points at one slot.                                     *)
OneSlotEach ==
  \A i, j \in 1..MaxStack :
    openUpvalues[i] = openUpvalues[j] => i = j \/ openUpvalues[i] = Nil

(* The script's frame is the lowest, and its first slot, that of its       *)
(* closure, is no variable.                                                *)
FirstBase ==
  bases # <<>> =>
    /\ \A k \in DOMAIN bases : bases[1] <= bases[k]
    /\ bases[1] \in 1..MaxStack => openUpvalues[bases[1]] \in {Nil} \cup loose

(***************************************************************************)
(* What makes StraysAreLoose inductive.  A script's return pops its        *)
(* closure's slot, which no closure has captured, and a captured variable  *)
(* is one that no return has left if it is still one of the function's.    *)
(***************************************************************************)
LeftInv == StraysAreLoose /\ OneSlotEach /\ FirstBase

LEMMA LeftFacts ==
  ASSUME IInv
  PROVE  /\ openUpvalues \in [1..MaxStack -> Value] /\ MaxStack \in Nat
         /\ stack \in Seq(Value) /\ Len(stack) \in Nat
         /\ bases \in Seq(Nat \ {0}) /\ Len(bases) = Len(frames)
         /\ frames \in Seq(Obj) /\ op.pushed \in 0..2
         /\ op.pushed <= Len(stack)
<1>1. /\ openUpvalues \in [1..MaxStack -> Value] /\ MaxStack \in Nat
      /\ stack \in Seq(Value) /\ frames \in Seq(Obj)
  BY DEF IInv, TypeOK, RootsOK
<1>2. bases \in Seq(Nat \ {0}) /\ Len(bases) = Len(frames)
  BY DEF IInv, TypeOK, FramesOK
<1>3. op.pushed \in 0..2 /\ op.pushed <= Len(stack)
  BY DEF IInv, TypeOK, OpOK
<1> QED BY <1>1, <1>2, <1>3

(* The running function's variables lie above the script's first slot.     *)
LEMMA LocalsAboveFirst ==
  ASSUME IInv, LeftInv, frames # <<>>, NEW i \in Locals
  PROVE  bases # <<>> /\ bases[1] < i /\ bases[1] \in Nat \ {0}
<1>1. bases # <<>> /\ Len(bases) \in DOMAIN bases /\ 1 \in DOMAIN bases
  BY LeftFacts
<1>2. bases[1] <= Last(bases) /\ Last(bases) \in Nat /\ bases[1] \in Nat \ {0}
  BY <1>1, LeftFacts DEF LeftInv, FirstBase, Last
<1>3. i \in (Last(bases) + 1)..Len(stack)
  BY DEF Locals
<1> QED BY <1>1, <1>2, <1>3, LeftFacts

(* Steps that open and close no upvalue and leave the frames alone.        *)
LEMMA LeftStill ==
  ASSUME LeftInv, UNCHANGED <<openUpvalues, bases>>, loose \subseteq loose',
         \A i \in 1..MaxStack :
           i > Len(stack') - Dropped' =>
             i > Len(stack) - Dropped \/ openUpvalues[i] \in {Nil} \cup loose
  PROVE  LeftInv'
<1>1. StraysAreLoose'
  BY DEF LeftInv, StraysAreLoose
<1>2. OneSlotEach'
  BY DEF LeftInv, OneSlotEach
<1>3. FirstBase'
  BY DEF LeftInv, FirstBase
<1> QED BY <1>1, <1>2, <1>3 DEF LeftInv

(* The stack does not get shorter.                                         *)
LEMMA LeftNoShorter ==
  ASSUME IInv, LeftInv, UNCHANGED <<openUpvalues, bases, loose>>,
         Len(stack') - Dropped' \in Int,
         Len(stack) - Dropped <= Len(stack') - Dropped'
  PROVE  LeftInv'
<1>1. Len(stack) - Dropped \in Int
  BY LeftFacts DEF Dropped
<1> QED BY <1>1, LeftStill, LeftFacts

LEMMA NothingDropped ==
  ASSUME op = NoOp PROVE Dropped = 0
BY DEF NoOp, Dropped

LEMMA NothingDroppedNext ==
  ASSUME op' = NoOp PROVE Dropped' = 0
BY DEF NoOp, Dropped

(* A request pushes what is dropped again, or the value that is going to   *)
(* be popped is on the stack already, and is no variable.                  *)
LEMMA RequestLeft ==
  ASSUME IInv, LeftInv, Idle, NEW name, NEW args, NEW then,
         NEW protect \in Seq(Value), Request(name, args, then, protect),
         name # "native",
         name = "define" /\ then = "pop" => HasTemporary /\ protect = <<>>
  PROVE  LeftInv'
<1>1. /\ Dropped = 0 /\ stack' = stack \o protect
      /\ UNCHANGED <<openUpvalues, bases, loose>>
      /\ op' = [name |-> name, args |-> args, then |-> then,
                pushed |-> Len(protect)]
  BY NothingDropped DEF Idle, Request
<1>2. Len(stack') = Len(stack) + Len(protect) /\ Len(protect) \in Nat
  BY <1>1, LeftFacts
<1>3. op'.name = name /\ op'.then = then /\ op'.pushed = Len(protect)
  BY <1>1
<1>4. CASE name = "define" /\ then = "pop"
  <2>1. Len(stack') - Dropped' = Len(stack) - 1
    BY <1>2, <1>3, <1>4, LeftFacts DEF Dropped
  <2>2. openUpvalues[Len(stack)] \in {Nil} \cup loose
    BY <1>4, TemporaryFacts DEF HasTemporary, AreTemporaries
  <2> QED BY <1>1, <2>1, <2>2, LeftStill, LeftFacts
<1>5. CASE ~(name = "define" /\ then = "pop")
  <2>1. Dropped' = Len(protect)
    BY <1>2, <1>3, <1>5 DEF Dropped
  <2>2. Len(stack') - Dropped' = Len(stack) - Dropped
    BY <1>1, <1>2, <2>1, LeftFacts
  <2> QED BY <1>1, <2>2, LeftNoShorter, LeftFacts
<1> QED BY <1>4, <1>5

LEMMA RequestsLeft == ASSUME IInv, LeftInv, Requests PROVE LeftInv'
<1>1. Idle
  BY DEF Requests, NewSyntax, GuardedCons, NewPair, AppendElement,
     NewVector, VectorAppend, MakeConstant, NewSymbol, InitCompiler,
     Interpret, OpClosure, DefineGlobal, SetGlobal, SetsGlobal, Running
<1>2. /\ AtHand \subseteq Value /\ held \subseteq Value
      /\ <<>> \in Seq(Value) /\ Nil \in Value
  <2>1. phase = "mutator" /\ RootsOK
    BY <1>1, IdleFits
  <2>2. AtHand \subseteq Obj /\ held \subseteq Obj
    BY <2>1, AtHandInHeap DEF RootsOK
  <2> QED BY <2>2 DEF Value
<1>3. ASSUME NEW v \in Value PROVE <<v>> \in Seq(Value)
  BY <1>3
<1>4. CASE NewSyntax
  BY <1>1, <1>2, <1>3, <1>4, RequestLeft DEF NewSyntax
<1>5. CASE GuardedCons
  <2>1. PICK car \in AtHand \cup {Nil}, cdr \in AtHand \cup {Nil} :
          Request("cons", <<car, cdr>>, "hold", Guarded(car) \o Guarded(cdr))
    BY <1>5 DEF GuardedCons
  <2>2. Guarded(car) \in Seq(Value) /\ Guarded(cdr) \in Seq(Value)
    BY <1>2, <1>3, <2>1 DEF Guarded
  <2>3. Guarded(car) \o Guarded(cdr) \in Seq(Value)
    BY <2>2
  <2> QED BY <1>1, <2>1, <2>3, RequestLeft
<1>6. CASE NewPair
  BY <1>1, <1>2, <1>6, RequestLeft DEF NewPair
<1>7. CASE AppendElement
  <2>1. PICK pair \in AtHand, value \in AtHand \cup {Nil}, final \in Heap :
          Request("append", <<pair, value, final>>, "none", <<value, pair>>)
    BY <1>7 DEF AppendElement
  <2>2. <<value, pair>> \in Seq(Value)
    BY <1>2, <2>1
  <2> QED BY <1>1, <2>1, <2>2, RequestLeft
<1>8. CASE NewVector
  BY <1>1, <1>2, <1>8, RequestLeft DEF NewVector
<1>9. CASE VectorAppend
  <2>1. PICK value \in AtHand \cup {Nil} :
          \E vector : Request("write", <<vector, value>>, "none", <<value>>)
    BY <1>9 DEF VectorAppend
  <2> QED BY <1>1, <1>2, <1>3, <2>1, RequestLeft
<1>10. CASE MakeConstant
  <2>1. PICK value \in held \cup {Nil} :
          Request("write", <<compilers[1], value>>, "none", <<value>>)
    BY <1>10 DEF MakeConstant
  <2> QED BY <1>1, <1>2, <1>3, <2>1, RequestLeft
<1>11. CASE NewSymbol
  BY <1>1, <1>2, <1>11, RequestLeft DEF NewSymbol
<1>12. CASE InitCompiler
  BY <1>1, <1>2, <1>12, RequestLeft DEF InitCompiler
<1>13. CASE Interpret
  BY <1>1, <1>2, <1>3, <1>13, RequestLeft DEF Interpret
<1>14. CASE OpClosure
  BY <1>1, <1>2, <1>14, RequestLeft DEF OpClosure
<1>15. CASE DefineGlobal
  BY <1>1, <1>2, <1>15, RequestLeft DEF DefineGlobal, SetsGlobal
<1>16. CASE SetGlobal
  BY <1>1, <1>2, <1>16, RequestLeft DEF SetGlobal, SetsGlobal
<1> QED BY <1>4, <1>5, <1>6, <1>7, <1>8, <1>9, <1>10, <1>11, <1>12, <1>13,
           <1>14, <1>15, <1>16 DEF Requests

LEMMA FinishesLeft1 ==
  ASSUME IInv, IInv', LeftInv,
         \/ FinishConstructor \/ FinishAppendElement
         \/ FinishWriteValueArray \/ FinishDefine \/ FinishInitCompiler
         \/ AllocateString \/ Intern \/ FinishNative \/ CaptureEnd
  PROVE  LeftInv'
<1>1. /\ phase = "mutator" /\ UNCHANGED <<openUpvalues, bases, loose>>
  BY DEF FinishConstructor, FinishAppendElement, FinishWriteValueArray,
         FinishDefine, FinishInitCompiler, AllocateString, Intern,
         FinishNative, CaptureEnd, Finishing, roots
<1>2. Len(Pops(op.pushed)) = Len(stack) - op.pushed
  BY <1>1, Popped
<1>3. op.pushed \in Nat /\ Len(stack) \in Nat /\ Dropped \in Nat
      /\ Dropped >= op.pushed /\ stack \in Seq(Value)
  BY LeftFacts DEF Dropped
<1>4. CASE op' = NoOp /\ stack' = Pops(op.pushed)
  BY <1>1, <1>2, <1>3, <1>4, NothingDroppedNext, LeftNoShorter
<1>5. CASE FinishDefine
  <2>1. /\ op.name = "define" /\ op.then = "pop" /\ op' = NoOp
        /\ stack' = Pops(1 + op.pushed) /\ ArgsOK
    BY <1>5 DEF FinishDefine, Finishing, IInv
  <2>2. 1 + op.pushed <= Len(stack)
    BY <1>3, <2>1 DEF ArgsOK
  <2>3. Len(stack') = Len(stack) - (1 + op.pushed)
    BY <1>3, <2>1, <2>2, PointeesPop DEF Pops
  <2>4. Dropped = 1 + op.pushed /\ Dropped' = 0
    BY <1>3, <2>1, NothingDroppedNext DEF Dropped
  <2> QED BY <1>1, <1>3, <2>3, <2>4, LeftNoShorter
<1>6. CASE FinishInitCompiler
  <2>1. stack' = stack
    BY <1>6 DEF FinishInitCompiler
  <2>2. Dropped' = 0
    <3>1. \/ op' = NoOp
          \/ \E o : op' = [NoOp EXCEPT !.name = "symbol", !.args = <<o>>,
                                       !.then = "name"]
      BY <1>6 DEF FinishInitCompiler
    <3>2. ASSUME NEW o, op' = [NoOp EXCEPT !.name = "symbol", !.args = <<o>>,
                                           !.then = "name"]
          PROVE  op'.pushed = 0 /\ op'.name = "symbol"
      BY <3>2 DEF NoOp
    <3>3. CASE op' = NoOp
      BY <3>3, NothingDroppedNext
    <3>4. CASE op'.pushed = 0 /\ op'.name = "symbol"
      BY <3>4 DEF Dropped
    <3> QED BY <3>1, <3>2, <3>3, <3>4
  <2> QED BY <1>1, <1>3, <2>1, <2>2, LeftNoShorter
<1>7. CASE AllocateString
  <2>1. PICK o \in Obj : /\ stack' = Append(stack, o)
                         /\ op' = [op EXCEPT !.name = "intern",
                                             !.args = <<o>> \o op.args,
                                             !.pushed = 1]
    BY <1>7 DEF AllocateString
  <2>2. Len(stack') = Len(stack) + 1
    BY <1>3, <2>1
  <2>3. op'.pushed = 1 /\ op'.name = "intern"
    BY <2>1 DEF IInv, TypeOK, OpOK
  <2>4. Dropped' = 1
    BY <2>3 DEF Dropped
  <2> QED BY <1>1, <1>3, <2>2, <2>4, LeftNoShorter
<1>8. CASE Intern
  <2>1. op.name = "intern" /\ op.pushed = 1
    BY <1>8 DEF Intern, Finishing, IInv, ArgsOK
  <2>2. CASE stack' = Pops(1) /\ op' = NoOp
    BY <1>4, <2>1, <2>2
  <2>3. CASE stack' = Pops(1) /\ op' = [NoOp EXCEPT !.name = "symbol",
                                                     !.then = "native"]
    <3>1. op'.pushed = 0 /\ op'.name = "symbol"
      BY <2>3 DEF NoOp
    <3>2. Dropped' = 0
      BY <3>1 DEF Dropped
    <3> QED BY <1>1, <1>2, <1>3, <2>1, <2>3, <3>2, LeftNoShorter
  <2>4. CASE stack' = stack /\ op' = [NoOp EXCEPT !.name = "native",
                                                  !.args = <<op.args[1]>>]
    <3>1. op'.pushed = 0 /\ op'.name = "native"
      BY <2>4 DEF NoOp
    <3>2. Dropped' = 1
      BY <3>1 DEF Dropped
    <3> QED BY <1>1, <1>3, <2>1, <2>4, <3>2, LeftNoShorter
  <2> QED BY <1>8, <2>2, <2>3, <2>4 DEF Intern
<1>9. CASE FinishNative
  <2>1. PICK o \in Obj : /\ stack' = Append(stack, o)
                         /\ op' = [name |-> "define", then |-> "pop",
                                   args |-> op.args \o <<o>>, pushed |-> 1]
    BY <1>9 DEF FinishNative
  <2>2. Len(stack') = Len(stack) + 1
    BY <1>3, <2>1
  <2>3. Dropped' = 2
    BY <2>1 DEF Dropped
  <2>4. Dropped >= 1
    BY <1>3, <1>9 DEF FinishNative, Finishing, Dropped
  <2> QED BY <1>1, <1>3, <2>2, <2>3, <2>4, LeftNoShorter
<1>10. CASE CaptureEnd
  <2>1. op' = NoOp /\ stack' = stack
    BY <1>10 DEF CaptureEnd, roots
  <2> QED BY <1>1, <1>3, <2>1, NothingDroppedNext, LeftNoShorter
<1>11. CASE FinishConstructor \/ FinishAppendElement \/ FinishWriteValueArray
  BY <1>4, <1>11 DEF FinishConstructor, FinishAppendElement,
                     FinishWriteValueArray
<1> QED BY <1>5, <1>6, <1>7, <1>8, <1>9, <1>10, <1>11

(* The closure that interpret calls lies where nothing is captured.        *)
LEMMA FinishClosureLeft ==
  ASSUME IInv, IInv', LeftInv, FinishClosure PROVE LeftInv'
<1>1. /\ phase = "mutator" /\ UNCHANGED <<openUpvalues, loose>>
  BY DEF FinishClosure, Finishing
<1>2. PICK o \in Obj :
        /\ stack' = Append(Pops(op.pushed), o)
        /\ \/ /\ bases' = <<Len(stack')>> /\ op' = NoOp
           \/ /\ bases' = bases
              /\ op' = [NoOp EXCEPT !.name = "capture", !.args = <<o>>]
  BY DEF FinishClosure
<1>3. /\ Len(stack') = Len(stack) - op.pushed + 1
      /\ op.pushed \in Nat /\ Len(stack) \in Nat /\ Dropped \in Nat
      /\ Dropped >= op.pushed
  <2>1. /\ op.pushed \in Nat /\ Len(stack) \in Nat /\ Dropped \in Nat
        /\ Dropped >= op.pushed
    BY LeftFacts DEF Dropped
  <2>2. Pops(op.pushed) \in Seq(Value) /\ o \in Value
          /\ Len(Pops(op.pushed)) = Len(stack) - op.pushed
    BY <1>1, Popped DEF Value
  <2>3. Len(stack') = Len(Pops(op.pushed)) + 1
    BY <1>2, <2>2
  <2> QED BY <2>1, <2>2, <2>3
<1>4. Dropped' = 0
  <2>1. CASE op' = NoOp
    BY <2>1, NothingDroppedNext
  <2>2. CASE op' = [NoOp EXCEPT !.name = "capture", !.args = <<o>>]
    <3>1. op'.pushed = 0 /\ op'.name = "capture"
      BY <2>2 DEF NoOp
    <3> QED BY <3>1 DEF Dropped
  <2> QED BY <1>2, <2>1, <2>2
<1>5. StraysAreLoose'
  BY <1>1, <1>3, <1>4 DEF LeftInv, StraysAreLoose
<1>6. OneSlotEach'
  BY <1>1 DEF LeftInv, OneSlotEach
<1>7. FirstBase'
  <2>1. CASE bases' = bases
    BY <1>1, <2>1 DEF LeftInv, FirstBase
  <2>2. CASE bases' = <<Len(stack')>>
    <3>1. PICK b \in Nat : b = Len(stack')
      BY <1>3, LeftFacts
    <3>2. bases' = <<b>> /\ DOMAIN bases' = {1} /\ bases'[1] = b
      BY <2>2, <3>1
    <3>3. b \in 1..MaxStack => openUpvalues[b] \in {Nil} \cup loose
      BY <1>3, <3>1 DEF LeftInv, StraysAreLoose
    <3> QED BY <1>1, <3>2, <3>3 DEF FirstBase
  <2> QED BY <1>2, <2>1, <2>2
<1> QED BY <1>5, <1>6, <1>7 DEF LeftInv

(* A captured variable is the function's own, and its upvalue is new.      *)
LEMMA CaptureNewLeft ==
  ASSUME IInv, LeftInv, CaptureNew PROVE LeftInv'
<1>1. /\ Finishing("capture") /\ phase = "mutator"
      /\ UNCHANGED <<stack, bases, loose, op>>
  BY DEF CaptureNew, Finishing
<1>2. PICK local \in Locals, o \in Obj \ Heap :
        /\ local <= MaxStack /\ openUpvalues[local] = Nil
        /\ openUpvalues' = [openUpvalues EXCEPT ![local] = o]
  BY DEF CaptureNew
<1>3. frames # <<>> /\ op.pushed = 0 /\ Dropped = 0
  BY <1>1, MutatorFits DEF Finishing, ArgsOK, Dropped
<1>4. local \in DOMAIN stack /\ local \in 1..MaxStack
  BY <1>2, LeftFacts, LocalsAreSlots
<1>5. \A i \in 1..MaxStack :
        openUpvalues'[i] = IF i = local THEN o ELSE openUpvalues[i]
  BY <1>2, <1>4, LeftFacts
<1>6. o # Nil /\ \A i \in 1..MaxStack : openUpvalues[i] # o
  <2>1. Pointees(openUpvalues) \subseteq Heap
    BY <1>1, MutatorFacts DEF Roots
  <2> QED BY <1>2, <2>1, LeftFacts DEF Pointees
<1>7. Dropped' = 0
  BY <1>1, <1>3 DEF Dropped
<1>8. StraysAreLoose'
  BY <1>1, <1>3, <1>4, <1>5, <1>7, LeftFacts DEF LeftInv, StraysAreLoose
<1>9. OneSlotEach'
  BY <1>5, <1>6 DEF LeftInv, OneSlotEach
<1>10. FirstBase'
  <2>1. bases[1] < local
    BY <1>2, <1>3, LocalsAboveFirst
  <2> QED BY <1>1, <1>5, <2>1, LocalsAboveFirst, LeftFacts
          DEF LeftInv, FirstBase
<1> QED BY <1>8, <1>9, <1>10 DEF LeftInv

(* Taken back from those that were left: an upvalue of a variable that is  *)
(* the running function's own.                                             *)
LEMMA TakenBackLeft ==
  ASSUME IInv, LeftInv, frames # <<>>, NEW last \in Locals,
         NEW taken, \A u \in taken : \E i \in last..MaxStack :
                      i \in 1..MaxStack /\ openUpvalues[i] = u,
         loose' = loose \ taken, bases' = bases,
         \A i \in 1..MaxStack : i < last => openUpvalues'[i] = openUpvalues[i]
  PROVE  FirstBase'
<1>1. bases[1] < last /\ bases[1] \in Nat \ {0}
  BY LocalsAboveFirst
<1>2. ASSUME bases[1] \in 1..MaxStack
      PROVE  openUpvalues[bases[1]] \in {Nil} \cup (loose \ taken)
  <2>1. openUpvalues[bases[1]] \in {Nil} \cup loose
    BY <1>2, LocalsAboveFirst DEF LeftInv, FirstBase
  <2>2. ASSUME openUpvalues[bases[1]] # Nil, openUpvalues[bases[1]] \in taken
        PROVE  FALSE
    <3>1. PICK i \in last..MaxStack :
            i \in 1..MaxStack /\ openUpvalues[i] = openUpvalues[bases[1]]
      BY <2>2
    <3>2. i = bases[1]
      BY <1>2, <2>2, <3>1 DEF LeftInv, OneSlotEach
    <3>3. last \in Nat
      BY LeftFacts, LocalsAreSlots
    <3> QED BY <1>1, <3>1, <3>2, <3>3
  <2> QED BY <2>1, <2>2
<1> QED BY <1>1, <1>2 DEF LeftInv, FirstBase

LEMMA CaptureExistingLeft ==
  ASSUME IInv, LeftInv, CaptureExisting PROVE LeftInv'
<1> DEFINE shared == {openUpvalues[i] : i \in Locals \cap 1..MaxStack} \ {Nil}
<1>1. /\ Finishing("capture") /\ phase = "mutator"
      /\ UNCHANGED <<stack, bases, openUpvalues, op>>
  BY DEF CaptureExisting, Finishing
<1>2. PICK u : loose' = loose \ (shared \cap {u})
  BY DEF CaptureExisting
<1>3. frames # <<>> /\ op.pushed = 0 /\ Dropped = 0 /\ Dropped' = 0
  BY <1>1, MutatorFits DEF Finishing, ArgsOK, Dropped
<1>4. CASE u \notin shared
  <2>1. loose' = loose
    BY <1>2, <1>4
  <2> QED BY <1>1, <1>3, <2>1, LeftNoShorter, LeftFacts
<1>5. CASE u \in shared
  <2>1. PICK local \in Locals \cap 1..MaxStack : openUpvalues[local] = u
    BY <1>5
  <2>2. u # Nil /\ local \in DOMAIN stack /\ loose' = loose \ {u}
    BY <1>2, <1>5, LocalsAreSlots
  <2>3. FirstBase'
    <3>1. PICK taken : taken = {u}
      OBVIOUS
    <3>2. \A v \in taken : \E i \in local..MaxStack :
            i \in 1..MaxStack /\ openUpvalues[i] = v
      BY <2>1, <3>1
    <3>3. /\ loose' = loose \ taken /\ bases' = bases /\ local \in Locals
          /\ \A i \in 1..MaxStack : openUpvalues'[i] = openUpvalues[i]
      BY <1>1, <2>1, <2>2, <3>1
    <3> QED BY <1>3, <3>2, <3>3, TakenBackLeft
  <2>4. \A i \in 1..MaxStack : openUpvalues[i] = u => i = local
    BY <2>1, <2>2 DEF LeftInv, OneSlotEach
  <2>5. StraysAreLoose'
    BY <1>1, <1>3, <2>2, <2>4, LeftFacts DEF LeftInv, StraysAreLoose
  <2>6. OneSlotEach'
    BY <1>1 DEF LeftInv, OneSlotEach
  <2> QED BY <2>3, <2>5, <2>6 DEF LeftInv
<1> QED BY <1>4, <1>5

(* An error leaves no frame, and no upvalue on the list.                   *)
LEMMA ResetLeft == ASSUME ResetStack PROVE LeftInv'
<1>1. \A i \in 1..MaxStack : openUpvalues'[i] = Nil
  BY DEF ResetStack
<1> QED BY <1>1 DEF ResetStack, LeftInv, StraysAreLoose, OneSlotEach, FirstBase

LEMMA FinishSetGlobalLeft ==
  ASSUME IInv, LeftInv, FinishSetGlobal PROVE LeftInv'
<1>1. CASE UNCHANGED <<stack, frames, bases, openUpvalues, loose>>
  <2>1. Dropped' = 0 /\ Dropped \in Nat /\ stack' = stack
    BY <1>1, NothingDroppedNext, LeftFacts DEF FinishSetGlobal, Dropped
  <2> QED BY <1>1, <2>1, LeftNoShorter, LeftFacts
<1> QED BY <1>1, ResetLeft DEF FinishSetGlobal

LEMMA FinishesLeft == ASSUME IInv, IInv', LeftInv, Finishes PROVE LeftInv'
BY FinishesLeft1, FinishClosureLeft, CaptureNewLeft, CaptureExistingLeft,
   FinishSetGlobalLeft DEF Finishes

(* The upvalues at the top and above it are closed, and left no more.      *)
LEMMA CloseUpvalueLeft ==
  ASSUME IInv, LeftInv, CloseUpvalue PROVE LeftInv'
<1>1. PICK last : last = Len(stack)
  OBVIOUS
<1>2. PICK closed : closed = {openUpvalues[i] : i \in last..MaxStack} \ {Nil}
  OBVIOUS
<1>3. /\ Idle /\ frames # <<>> /\ last \in Locals
      /\ loose' = loose \ closed /\ bases' = bases
      /\ openUpvalues' = [i \in 1..MaxStack |->
                            IF i < last THEN openUpvalues[i] ELSE Nil]
      /\ stack' = Front(stack) /\ op' = op
  BY <1>1, <1>2 DEF CloseUpvalue, CloseUpvalues, Running
<1>4. last \in DOMAIN stack /\ last \in Nat \ {0} /\ op = NoOp
  BY <1>3, LocalsAreSlots, LeftFacts DEF Idle
<1>5. /\ Dropped = 0 /\ Dropped' = 0 /\ Len(stack') = last - 1
  <2>1. stack # <<>> /\ stack' = SubSeq(stack, 1, Len(stack) - 1)
    BY <1>3, <1>4, EmptySeq DEF Front
  <2>2. Len(stack') = last - 1
    BY <1>1, <1>4, <2>1, LeftFacts
  <2> QED BY <1>3, <1>4, <2>2, NothingDropped, NothingDroppedNext
<1>6. StraysAreLoose'
  BY <1>3, <1>4, <1>5 DEF StraysAreLoose
<1>7. OneSlotEach'
  BY <1>3 DEF LeftInv, OneSlotEach
<1>8. \A u \in closed : \E i \in last..MaxStack :
        i \in 1..MaxStack /\ openUpvalues[i] = u
  BY <1>2, <1>4
<1>9. \A i \in 1..MaxStack : i < last => openUpvalues'[i] = openUpvalues[i]
  BY <1>3
<1>10. FirstBase'
  BY <1>3, <1>8, <1>9, TakenBackLeft
<1> QED BY <1>6, <1>7, <1>10 DEF LeftInv

(* A function's closure lies above the script's.                           *)
LEMMA CallLeft == ASSUME IInv, LeftInv, Call PROVE LeftInv'
<1>1. PICK i \in Locals : bases' = Append(bases, i)
  BY DEF Call
<1>2. /\ UNCHANGED <<stack, openUpvalues, loose, op>> /\ frames # <<>>
  BY DEF Call
<1>3. bases # <<>> /\ bases[1] < i /\ i \in Nat
  BY <1>1, <1>2, LocalsAboveFirst, LocalsAreSlots, LeftFacts
<1>4. /\ bases'[1] = bases[1]
      /\ \A k \in DOMAIN bases' : bases'[k] \in {bases[j] : j \in DOMAIN bases}
                                               \cup {i}
  BY <1>1, <1>3, LeftFacts
<1>5. \A k \in DOMAIN bases : bases[1] <= bases[k]
  BY <1>3 DEF LeftInv, FirstBase
<1>6. \A k \in DOMAIN bases' : bases'[1] <= bases'[k]
  <2>1. PICK first \in Nat : first = bases[1]
    BY <1>1, <1>2, LocalsAboveFirst
  <2>2. \A j \in DOMAIN bases : first <= bases[j]
    BY <1>5, <2>1
  <2>3. first <= first /\ first <= i
    BY <1>3, <2>1
  <2>4. \A k \in DOMAIN bases' : first <= bases'[k]
    BY <1>4, <2>2, <2>3
  <2> QED BY <1>4, <2>1, <2>4
<1>7. FirstBase'
  BY <1>2, <1>3, <1>4, <1>6 DEF LeftInv, FirstBase
<1>8. StraysAreLoose' /\ OneSlotEach'
  BY <1>2 DEF LeftInv, StraysAreLoose, OneSlotEach, Dropped
<1> QED BY <1>7, <1>8 DEF LeftInv

(* Whatever the function leaves open is loose from now on.                 *)
LEMMA ReturnToCallerLeft ==
  ASSUME IInv, LeftInv, ReturnToCaller PROVE LeftInv'
<1>1. /\ Len(frames) > 1 /\ HasTemporary /\ op = NoOp /\ op' = NoOp
      /\ stack' = Append(SubSeq(stack, 1, Last(bases) - 1), Last(stack))
      /\ bases' = Front(bases) /\ openUpvalues' = openUpvalues
      /\ loose' = loose \cup
                    ({openUpvalues[i] : i \in Last(bases)..MaxStack} \ {Nil})
  BY DEF ReturnToCaller, Running, Idle
<1>2. PICK base : base = Last(bases)
  OBVIOUS
<1>3. /\ base \in Nat \ {0} /\ Len(bases) > 1 /\ bases \in Seq(Nat \ {0})
      /\ Len(bases) \in DOMAIN bases /\ frames # <<>>
  <2>1. Len(bases) \in DOMAIN bases /\ frames # <<>>
    BY <1>1, LeftFacts
  <2> QED BY <1>1, <1>2, <2>1, LeftFacts DEF Last
<1>4. base < Len(stack)
  <2>1. Len(stack) \in (base + 1)..Len(stack)
    BY <1>1, <1>2, <1>3 DEF HasTemporary, AreTemporaries, Locals
  <2> QED BY <1>3, <2>1, LeftFacts
<1>5. Len(stack') = base
  <2>1. PICK rest : rest = SubSeq(stack, 1, base - 1)
    OBVIOUS
  <2>2. rest \in Seq(Value) /\ Len(rest) = base - 1
    BY <1>3, <1>4, <2>1, LeftFacts
  <2>3. stack' = Append(rest, Last(stack))
    BY <1>1, <1>2, <2>1
  <2>4. Last(stack) \in Value
    BY <1>1, TemporaryFacts
  <2> QED BY <1>3, <2>2, <2>3, <2>4
<1>6. StraysAreLoose'
  <2>1. Dropped' = 0
    BY <1>1, NothingDroppedNext
  <2>2. \A i \in 1..MaxStack : i > base => i \in base..MaxStack
    BY <1>3, LeftFacts
  <2> QED BY <1>1, <1>2, <1>3, <1>5, <2>1, <2>2, LeftFacts DEF StraysAreLoose
<1>7. OneSlotEach'
  BY <1>1 DEF LeftInv, OneSlotEach
<1>8. FirstBase'
  <2>1. bases' = SubSeq(bases, 1, Len(bases) - 1)
    BY <1>1 DEF Front
  <2>2. /\ 1 \in DOMAIN bases' /\ DOMAIN bases' \subseteq DOMAIN bases
        /\ \A k \in DOMAIN bases' : bases'[k] = bases[k]
    BY <1>3, <2>1
  <2>3. bases # <<>>
    BY <1>3, EmptySeq
  <2> QED BY <1>1, <2>2, <2>3 DEF LeftInv, FirstBase
<1> QED BY <1>6, <1>7, <1>8 DEF LeftInv

(* A script's return pops its result, and its closure.                     *)
LEMMA ReturnFromScriptLeft ==
  ASSUME IInv, LeftInv, ReturnFromScript PROVE LeftInv'
<1>1. /\ Len(frames) = 1 /\ HasTemporary /\ op = NoOp /\ op' = NoOp
      /\ Len(stack) = Last(bases) + 1 /\ stack' = Pops(2) /\ bases' = <<>>
      /\ UNCHANGED <<openUpvalues, loose>>
  BY DEF ReturnFromScript, Running, Idle
<1>2. /\ bases # <<>> /\ Last(bases) = bases[1] /\ bases[1] \in Nat \ {0}
  <2>1. Len(bases) = 1 /\ bases \in Seq(Nat \ {0})
    BY <1>1, LeftFacts
  <2>2. 1 \in DOMAIN bases /\ bases # <<>>
    BY <2>1
  <2>3. bases[1] \in Nat \ {0}
    BY <2>1, <2>2
  <2>4. Last(bases) = bases[1]
    BY <2>1 DEF Last
  <2> QED BY <2>2, <2>3, <2>4
<1>3. stack \in Seq(Value) /\ 2 <= Len(stack)
  BY <1>1, ScriptsStack
<1>4. Len(stack') = Len(stack) - 2
  BY <1>1, <1>3, PointeesPop DEF Pops
<1>5. Dropped = 0 /\ Dropped' = 0
  BY <1>1, NothingDropped, NothingDroppedNext
<1>6. ASSUME NEW i \in 1..MaxStack, i > Len(stack')
      PROVE  openUpvalues[i] \in {Nil} \cup loose
  <2>1. CASE i = bases[1]
    BY <1>2, <2>1 DEF LeftInv, FirstBase
  <2>2. CASE i = Len(stack)
    BY <1>1, <2>2, TemporaryFacts, LeftFacts DEF HasTemporary, AreTemporaries
  <2>3. CASE i > Len(stack)
    BY <1>5, <2>3, LeftFacts DEF LeftInv, StraysAreLoose
  <2>4. \/ i = bases[1] \/ i = Len(stack) \/ i > Len(stack)
    <3>1. PICK first, n \in Nat : first = bases[1] /\ n = Len(stack)
      BY <1>2, LeftFacts
    <3>2. n = first + 1 /\ i > n - 2 /\ i \in Nat
      BY <1>1, <1>2, <1>4, <1>6, <3>1
    <3>3. i = first \/ i = n \/ i > n
      BY <3>1, <3>2
    <3> QED BY <3>1, <3>3
  <2> QED BY <2>1, <2>2, <2>3, <2>4
<1>7. StraysAreLoose'
  BY <1>1, <1>4, <1>5, <1>6, LeftFacts DEF StraysAreLoose
<1>8. OneSlotEach' /\ FirstBase'
  BY <1>1 DEF LeftInv, OneSlotEach, FirstBase
<1> QED BY <1>7, <1>8 DEF LeftInv

(* endScope pops no variable that a closure has captured.                  *)
LEMMA PopLeft == ASSUME IInv, LeftInv, Pop PROVE LeftInv'
<1>1. /\ HasTemporary /\ op = NoOp /\ op' = NoOp /\ stack' = Front(stack)
      /\ UNCHANGED <<openUpvalues, bases, loose>>
  BY DEF Pop, Running, Idle
<1>2. Len(stack') = Len(stack) - 1
  <2>1. stack' = SubSeq(stack, 1, Len(stack) - 1) /\ stack # <<>>
    BY <1>1, TemporaryFacts DEF Front
  <2>2. Len(stack) \in Nat \ {0} /\ stack \in Seq(Value)
    BY <2>1, LeftFacts, EmptySeq
  <2>3. PICK n \in Nat \ {0} : n = Len(stack)
    BY <2>2
  <2>4. stack' = SubSeq(stack, 1, n - 1)
    BY <2>1, <2>3
  <2>5. Len(stack') = n - 1
    BY <2>2, <2>3, <2>4
  <2> QED BY <2>3, <2>5
<1>3. openUpvalues[Len(stack)] \in {Nil} \cup loose
  BY <1>1, TemporaryFacts DEF HasTemporary, AreTemporaries
<1>4. Dropped = 0 /\ Dropped' = 0
  BY <1>1, NothingDropped, NothingDroppedNext
<1> QED BY <1>1, <1>2, <1>3, <1>4, LeftStill, LeftFacts

LEMMA MovesLeft == ASSUME IInv, IInv', LeftInv, Moves PROVE LeftInv'
<1>1. ASSUME Push \/ GetLeftVariable PROVE LeftInv'
  <2>1. /\ op = NoOp /\ op' = NoOp /\ UNCHANGED <<openUpvalues, bases, loose>>
        /\ \E v : stack' = Append(stack, v)
    BY <1>1 DEF Push, GetLeftVariable, Running, Idle
  <2>2. Len(stack') = Len(stack) + 1
    BY <2>1, LeftFacts
  <2> QED BY <2>1, <2>2, NothingDropped, NothingDroppedNext, LeftNoShorter,
             LeftFacts
<1>2. ASSUME \/ FindSymbol \/ SetVariable \/ SetClosedVariable
             \/ SetLeftVariable \/ UseFreed \/ EndCompiler \/ StartParse
             \/ ParseError
      PROVE  LeftInv'
  <2>1. /\ op = NoOp /\ op' = NoOp /\ UNCHANGED <<openUpvalues, bases, loose>>
    BY <1>2 DEF FindSymbol, SetVariable, SetClosedVariable, SetLeftVariable,
       UseFreed, EndCompiler, StartParse, ParseError, Running, Idle, roots
  <2>2. Len(stack') = Len(stack)
    BY <1>2, LeftFacts DEF FindSymbol, SetVariable, SetClosedVariable,
       SetLeftVariable, UseFreed, EndCompiler, StartParse, ParseError, roots
  <2> QED BY <2>1, <2>2, NothingDropped, NothingDroppedNext, LeftNoShorter,
             LeftFacts
<1>3. CASE RuntimeError
  BY <1>3, ResetLeft DEF RuntimeError
<1> QED BY <1>1, <1>2, <1>3, PopLeft, CloseUpvalueLeft, CallLeft,
           ReturnToCallerLeft, ReturnFromScriptLeft DEF Moves

(* An upvalue that sweep frees is none of the open ones.                   *)
LEMMA SweepFreeLeft == ASSUME IInv, LeftInv, SweepFree PROVE LeftInv'
<1>1. /\ phase = "sweep" /\ loose' = loose \ {objects[cursor]}
      /\ cursor <= Len(objects) /\ objects[cursor] \notin marked
      /\ UNCHANGED <<stack, openUpvalues, bases, op>>
  BY DEF SweepFree
<1>2. Pointees(openUpvalues) \subseteq Survivors
  BY DEF IInv, NoDangling, InUse, Roots
<1>3. objects[cursor] \notin Survivors
  <2>1. /\ objects \in Seq(Obj) /\ IsInjective(objects)
        /\ cursor \in 1..(Len(objects) + 1)
    BY DEF IInv, TypeOK, HeapOK, GcOK
  <2> QED BY <1>1, <2>1 DEF Survivors, IsInjective
<1>4. \A i \in 1..MaxStack :
        openUpvalues[i] \in {Nil} \cup loose =>
          openUpvalues[i] \in {Nil} \cup loose'
  BY <1>1, <1>2, <1>3, LeftFacts DEF Pointees, Value
<1>5. StraysAreLoose' /\ OneSlotEach'
  BY <1>1, <1>4 DEF LeftInv, StraysAreLoose, OneSlotEach, Dropped
<1>6. FirstBase'
  BY <1>1, <1>4 DEF LeftInv, FirstBase
<1> QED BY <1>5, <1>6 DEF LeftInv

LEMMA LeftStep == ASSUME IInv, IInv', LeftInv, [Next]_vars PROVE LeftInv'
<1>1. CASE \/ Collect \/ Grow \/ FreeAST \/ Blacken \/ RemoveWhite \/ SweepKeep
           \/ SweepEnd \/ UNCHANGED vars
  <2>1. UNCHANGED <<openUpvalues, bases, loose, stack, op>>
    BY <1>1 DEF Collect, Grow, FreeAST, MarkRoots, Blacken, RemoveWhite,
                SweepKeep, SweepEnd, vars, roots
  <2> QED BY <2>1 DEF LeftInv, StraysAreLoose, OneSlotEach, FirstBase, Dropped
<1> QED BY <1>1, RequestsLeft, FinishesLeft, MovesLeft, SweepFreeLeft
        DEF Next, CollectorStep

(* Nothing but UseFreed ends in what is not defined.                       *)
LEMMA OnlyUseFreed ==
  ASSUME [Next]_vars, phase' = "undefined" PROVE UseFreed \/ UNCHANGED vars
<1>1. CASE Requests
  BY <1>1 DEF Requests, NewSyntax, GuardedCons, NewPair, AppendElement,
     NewVector, VectorAppend, MakeConstant, NewSymbol, InitCompiler,
     Interpret, OpClosure, DefineGlobal, SetGlobal, SetsGlobal, Request,
     Running, Idle, gcVars
<1>2. CASE Finishes
  BY <1>2 DEF Finishes, FinishConstructor, FinishAppendElement,
     FinishWriteValueArray, AllocateString, Intern, FinishNative,
     FinishDefine, FinishSetGlobal, FinishInitCompiler, FinishClosure,
     CaptureNew, CaptureExisting, CaptureEnd, Finishing, gcVars
<1>3. CASE Moves
  BY <1>3 DEF Moves, FindSymbol, Push, Pop, SetVariable, SetClosedVariable,
     CloseUpvalue, Call, ReturnToCaller, ReturnFromScript, GetLeftVariable,
     SetLeftVariable, RuntimeError, EndCompiler, StartParse, ParseError,
     Running, Idle, gcVars
<1>4. CASE Collect \/ Grow \/ FreeAST \/ CollectorStep
  BY <1>4 DEF Collect, Grow, FreeAST, MarkRoots, CollectorStep, Blacken,
     RemoveWhite, SweepKeep, SweepFree, SweepEnd, gcVars
<1> QED BY <1>1, <1>2, <1>3, <1>4 DEF Next

LEMMA UseFreedLeft ==
  ASSUME IInv, LeftInv, UseFreed PROVE OnlyLeftVariablesDangle'
<1>1. /\ op = NoOp /\ UNCHANGED <<heapVars, roots>>
      /\ \/ \E i \in Strays : above[i] \in Freed
         \/ \E u \in loose : u \notin Pointees(openUpvalues)
  BY DEF UseFreed, LeftVariables, Running, Idle
<1>2. /\ openUpvalues' = openUpvalues /\ loose' = loose /\ above' = above
      /\ Strays' = Strays /\ Freed' = Freed
  BY <1>1 DEF roots, heapVars, Strays, Freed, Heap
<1>3. \A i \in Strays : openUpvalues[i] \in loose
  BY <1>1, NothingDropped, LeftFacts DEF LeftInv, StraysAreLoose, Strays
<1> QED BY <1>1, <1>2, <1>3 DEF OnlyLeftVariablesDangle

LEMMA LeftAlways == Spec => []LeftInv
<1>1. Init => LeftInv
  <2> SUFFICES ASSUME Init PROVE LeftInv
    OBVIOUS
  <2>1. bases = <<>> /\ openUpvalues = [i \in 1..MaxStack |-> Nil]
    BY DEF Init
  <2> QED BY <2>1 DEF LeftInv, StraysAreLoose, OneSlotEach, FirstBase
<1>2. IInv /\ IInv' /\ LeftInv /\ [Next]_vars => LeftInv'
  BY LeftStep
<1> QED BY <1>1, <1>2, Invariant, PTL DEF Spec

(* Only returns leave upvalues open above the top of the stack.            *)
THEOREM StraysAreAlwaysLoose == Spec => []StraysAreLoose
<1>1. LeftInv => StraysAreLoose
  BY DEF LeftInv
<1> QED BY <1>1, LeftAlways, PTL

(***************************************************************************)
(* The interpreter comes to a freed object, or to the freed stack, through *)
(* nothing but a variable that its function has left.                      *)
(***************************************************************************)
THEOREM OnlyVariablesThatWereLeftDangle == Spec => []OnlyLeftVariablesDangle
<1>1. Init => OnlyLeftVariablesDangle
  BY DEF Init, OnlyLeftVariablesDangle
<1>2. ASSUME IInv, LeftInv, OnlyLeftVariablesDangle, [Next]_vars
      PROVE  OnlyLeftVariablesDangle'
  <2>1. CASE phase' # "undefined"
    BY <2>1 DEF OnlyLeftVariablesDangle
  <2>2. CASE UseFreed
    BY <1>2, <2>2, UseFreedLeft
  <2>3. CASE UNCHANGED vars
    <3>1. UNCHANGED <<phase, loose, openUpvalues, above, stack, objects>>
      BY <2>3 DEF vars, roots, heapVars, gcVars
    <3> QED BY <1>2, <3>1 DEF OnlyLeftVariablesDangle, Strays, Freed, Heap
  <2> QED BY <1>2, <2>1, <2>2, <2>3, OnlyUseFreed
<1> QED BY <1>1, <1>2, Invariant, LeftAlways, PTL DEF Spec
=============================================================================
