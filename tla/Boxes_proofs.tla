----------------------------- MODULE Boxes_proofs -----------------------------
(***************************************************************************)
(* VM implements Boxes, for any program, any number of frames and closures:*)
(* open and closed upvalues are boxes that frames and closures share.      *)
(*                                                                         *)
(* A cell maps to the open upvalue that refers to it, if there is one, and *)
(* to its value otherwise; an upvalue maps to the value getUpValue reads.  *)
(* The invariant of VM_proofs makes the first a function (a cell has one   *)
(* open upvalue, and the list has them all).  A step that shortens the     *)
(* stack keeps every box because it closes exactly the upvalues of the     *)
(* cells that go: Shrunk, the heart of the argument.                       *)
(***************************************************************************)
EXTENDS VM_proofs

-----------------------------------------------------------------------------
(* The memory as a function of the stack, the upvalues and the list.       *)

Opened(up, u) == up[u] # NULL /\ up[u].ref # NULL
CapturedIn(up, list, a) == \E i \in DOMAIN list : up[list[i]].ref = a
BoxOf(up, a) == CHOOSE u \in UpValues : Opened(up, u) /\ up[u].ref = a
CellsIn(st, up, list) ==
  [a \in 1 .. Len(st) |-> IF CapturedIn(up, list, a) THEN BoxOf(up, a) ELSE st[a]]
ValueIn(st, up, u) == IF up[u].ref # NULL THEN st[up[u].ref] ELSE up[u].value
BoxIn(st, up) == [u \in UpValues |-> IF up[u] = NULL THEN NULL ELSE ValueIn(st, up, u)]

MemCells == [a \in 1 .. Top |-> IF Captured(a) THEN VariableBox(a) ELSE stack[a]]
MemBox == [u \in UpValues |-> IF status \in Errors \/ upvalue[u] = NULL
                              THEN NULL ELSE GetUpValue(u)]

LEMMA Seen ==
  /\ MemCells = CellsIn(stack, upvalue, open)
  /\ status \notin Errors => MemBox = BoxIn(stack, upvalue)
  /\ MemCells' = CellsIn(stack', upvalue', open')
  /\ status' \notin Errors => MemBox' = BoxIn(stack', upvalue')
<1>1. MemCells = CellsIn(stack, upvalue, open)
  BY DEF MemCells, CellsIn, Captured, CapturedIn, VariableBox, BoxOf, IsOpen, Opened, Top
<1>2. MemCells' = CellsIn(stack', upvalue', open')
  BY DEF MemCells, CellsIn, Captured, CapturedIn, VariableBox, BoxOf, IsOpen, Opened, Top
<1>3. status \notin Errors => MemBox = BoxIn(stack, upvalue)
  BY DEF MemBox, BoxIn, GetUpValue, ValueIn
<1>4. status' \notin Errors => MemBox' = BoxIn(stack', upvalue')
  BY DEF MemBox, BoxIn, GetUpValue, ValueIn
<1> QED
  BY <1>1, <1>2, <1>3, <1>4

LEMMA Bridge ==
  /\ Memory!Top = Len(MemCells)
  /\ \A a : Memory!Read(a) = IF MemCells[a] \in UpValues THEN MemBox[MemCells[a]]
                                                         ELSE MemCells[a]
  /\ \A n, v : Memory!Replace(n, v) <=>
        /\ MemCells' = Append(SubSeq(MemCells, 1, Len(MemCells) - n), v)
        /\ MemBox' = MemBox
  /\ \A a, v : Memory!Write(a, v) <=>
        IF MemCells[a] \in UpValues
        THEN MemBox' = [MemBox EXCEPT ![MemCells[a]] = v] /\ MemCells' = MemCells
        ELSE MemCells' = [MemCells EXCEPT ![a] = v] /\ MemBox' = MemBox
  /\ Memory!Frame = Frame
  /\ \A f : Memory!Prototype(f) = Prototype(f)
<1>1. Memory!Top = Len(MemCells)
  BY DEF Memory!Top, MemCells
<1>2. \A a : Memory!Read(a) = IF MemCells[a] \in UpValues THEN MemBox[MemCells[a]]
                                                         ELSE MemCells[a]
  BY DEF Memory!Read, MemCells, MemBox
<1>3. \A n, v : Memory!Replace(n, v) <=>
        /\ MemCells' = Append(SubSeq(MemCells, 1, Len(MemCells) - n), v)
        /\ MemBox' = MemBox
  BY DEF Memory!Replace, Memory!Top, MemCells, MemBox
<1>4. \A a, v : Memory!Write(a, v) <=>
        IF MemCells[a] \in UpValues
        THEN MemBox' = [MemBox EXCEPT ![MemCells[a]] = v] /\ MemCells' = MemCells
        ELSE MemCells' = [MemCells EXCEPT ![a] = v] /\ MemBox' = MemBox
  BY DEF Memory!Write, MemCells, MemBox
<1>5. Memory!Frame = Frame /\ \A f : Memory!Prototype(f) = Prototype(f)
  BY DEF Memory!Frame, Frame, Memory!Prototype, Prototype
<1> QED
  BY <1>1, <1>2, <1>3, <1>4, <1>5
-----------------------------------------------------------------------------
(* While the machine runs, boxes and open upvalues are in step.            *)
Sound(st, up, list) ==
  /\ st \in Seq(Value) /\ list \in Seq(UpValues)
  /\ up \in [UpValues -> UpValueObject \cup {NULL}]
  /\ {list[i] : i \in DOMAIN list} = {u \in UpValues : Opened(up, u)}
  /\ \A i \in DOMAIN list : up[list[i]].ref \in 1 .. Len(st)
  /\ \A i, j \in DOMAIN list : i < j => up[list[i]].ref > up[list[j]].ref

LEMMA RunningSound ==
  /\ IInv /\ status = "running" => Sound(stack, upvalue, open)
  /\ IInv' /\ status' = "running" => Sound(stack', upvalue', open')
<1>1. IInv /\ status = "running" => Sound(stack, upvalue, open)
  BY DEF IInv, Always, WhileRunning, TypeOK, OpenSorted, OpenLive, Sound, Opened, IsOpen, Top
<1>2. IInv' /\ status' = "running" => Sound(stack', upvalue', open')
  BY DEF IInv, Always, WhileRunning, TypeOK, OpenSorted, OpenLive, Sound, Opened, IsOpen, Top
<1> QED
  BY <1>1, <1>2

(* Each open upvalue is the one box of its cell.                           *)
LEMMA OneBox ==
  ASSUME NEW st, NEW up, NEW list, Sound(st, up, list)
  PROVE  /\ \A u \in UpValues : Opened(up, u) =>
               /\ up[u].ref \in 1 .. Len(st) /\ CapturedIn(up, list, up[u].ref)
               /\ BoxOf(up, up[u].ref) = u
         /\ \A a : CapturedIn(up, list, a) =>
               BoxOf(up, a) \in UpValues /\ Opened(up, BoxOf(up, a)) /\ up[BoxOf(up, a)].ref = a
<1>1. ASSUME NEW u \in UpValues, Opened(up, u)
      PROVE  \E i \in DOMAIN list : list[i] = u
  BY <1>1 DEF Sound
<1>2. ASSUME NEW u \in UpValues, Opened(up, u), NEW w \in UpValues, Opened(up, w),
             up[u].ref = up[w].ref
      PROVE  u = w
  <2>1. PICK i \in DOMAIN list : list[i] = u
    BY <1>1, <1>2
  <2>2. PICK j \in DOMAIN list : list[j] = w
    BY <1>1, <1>2
  <2>3. i \in Nat /\ j \in Nat /\ up[u].ref \in Nat
    BY <2>1, <2>2 DEF Sound
  <2>4. ~(i < j) /\ ~(j < i)
    BY <1>2, <2>1, <2>2, <2>3 DEF Sound
  <2> QED
    BY <2>1, <2>2, <2>3, <2>4
<1>3. ASSUME NEW a, NEW u \in UpValues, Opened(up, u), up[u].ref = a
      PROVE  BoxOf(up, a) = u
  BY <1>2, <1>3 DEF BoxOf
<1>4. ASSUME NEW a, CapturedIn(up, list, a)
      PROVE  \E u \in UpValues : Opened(up, u) /\ up[u].ref = a
  BY <1>4 DEF CapturedIn, Sound
<1>5. ASSUME NEW u \in UpValues, Opened(up, u)
      PROVE  up[u].ref \in 1 .. Len(st) /\ CapturedIn(up, list, up[u].ref)
  BY <1>1, <1>5 DEF CapturedIn, Sound
<1> QED
  BY <1>3, <1>4, <1>5

LEMMA CellsType ==
  ASSUME NEW st, NEW up, NEW list, Sound(st, up, list)
  PROVE  /\ Len(st) \in Nat
         /\ CellsIn(st, up, list) \in Seq(Value \cup UpValues)
         /\ Len(CellsIn(st, up, list)) = Len(st)
         /\ \A a \in 1 .. Len(st) : CellsIn(st, up, list)[a] =
               IF CapturedIn(up, list, a) THEN BoxOf(up, a) ELSE st[a]
         /\ \A a \in 1 .. Len(st) :
               CellsIn(st, up, list)[a] \in UpValues <=> CapturedIn(up, list, a)
<1>1. st \in Seq(Value) /\ Len(st) \in Nat
  BY DEF Sound
<1>2. \A a \in 1 .. Len(st) : CapturedIn(up, list, a) => BoxOf(up, a) \in UpValues
  BY OneBox
<1>3. \A a \in 1 .. Len(st) : st[a] \in Value /\ st[a] \notin UpValues
  BY <1>1, Apart
<1> DEFINE c(a) == IF CapturedIn(up, list, a) THEN BoxOf(up, a) ELSE st[a]
<1>4. \A a \in 1 .. Len(st) : c(a) \in Value \cup UpValues
  BY <1>2, <1>3
<1>5. \A a \in 1 .. Len(st) : c(a) \in UpValues <=> CapturedIn(up, list, a)
  BY <1>2, <1>3
<1>6. CellsIn(st, up, list) = [a \in 1 .. Len(st) |-> c(a)]
  BY DEF CellsIn
<1> HIDE DEF c
<1>7. /\ CellsIn(st, up, list) \in Seq(Value \cup UpValues)
      /\ Len(CellsIn(st, up, list)) = Len(st)
      /\ \A a \in 1 .. Len(st) : CellsIn(st, up, list)[a] = c(a)
  BY <1>1, <1>4, <1>6
<1> QED
  BY <1>1, <1>5, <1>7 DEF c

(* A variable is read through its box if it has one.                       *)
LEMMA ReadIs ==
  ASSUME NEW st, NEW up, NEW list, Sound(st, up, list), NEW a \in 1 .. Len(st)
  PROVE  st[a] = IF CellsIn(st, up, list)[a] \in UpValues
                 THEN BoxIn(st, up)[CellsIn(st, up, list)[a]]
                 ELSE CellsIn(st, up, list)[a]
<1>1. CASE CapturedIn(up, list, a)
  <2>1. /\ BoxOf(up, a) \in UpValues /\ Opened(up, BoxOf(up, a)) /\ up[BoxOf(up, a)].ref = a
        /\ CellsIn(st, up, list)[a] = BoxOf(up, a)
    BY <1>1, OneBox, CellsType
  <2> QED
    BY <2>1 DEF BoxIn, ValueIn, Opened
<1>2. CASE ~CapturedIn(up, list, a)
  BY <1>2, CellsType
<1> QED
  BY <1>1, <1>2

(* A stack without the cells above the m-th, with another one on top, and  *)
(* with a cell assigned to.                                                *)
Lower(st, m) == SubSeq(st, 1, m)
Put(st, m, v) == Append(SubSeq(st, 1, m), v)
With(st, a, v) == [st EXCEPT ![a] = v]
WithValue(up, u, v) == [up EXCEPT ![u].value = v]

(* The open upvalues of cells above m are closed, the others are kept.     *)
Closes(st, up, m, up2) ==
  \A u \in UpValues :
     \/ up2[u] = up[u] /\ (Opened(up, u) => up[u].ref <= m)
     \/ /\ Opened(up, u) /\ up[u].ref > m
        /\ up2[u] = [ref |-> NULL, value |-> st[up[u].ref]]

(* Cells above m go, with or without a new one, and open upvalues of them  *)
(* are closed: no box changes its value.                                   *)
LEMMA Shrunk ==
  ASSUME NEW st, NEW up, NEW list, Sound(st, up, list),
         NEW st2, NEW up2, NEW list2, Sound(st2, up2, list2),
         NEW m \in 0 .. Len(st), m <= Len(st2), \A a \in 1 .. m : st2[a] = st[a],
         Closes(st, up, m, up2)
  PROVE  /\ BoxIn(st2, up2) = BoxIn(st, up)
         /\ \A a \in 1 .. m : CellsIn(st2, up2, list2)[a] = CellsIn(st, up, list)[a]
         /\ \A a \in m + 1 .. Len(st2) : CellsIn(st2, up2, list2)[a] = st2[a]
<1>0. /\ Len(st) \in Nat /\ m \in Nat
      /\ \A u \in UpValues : Opened(up, u) => up[u].ref \in 1 .. Len(st)
  BY OneBox, CellsType
<1>1. /\ \A u \in UpValues : Opened(up2, u) => up2[u] = up[u] /\ Opened(up, u) /\ up[u].ref <= m
      /\ \A u \in UpValues : Opened(up, u) /\ up[u].ref <= m => up2[u] = up[u]
      /\ \A u \in UpValues : Opened(up, u) => up[u].ref \in 1 .. Len(st)
  <2>1. ASSUME NEW u \in UpValues, Opened(up2, u)
        PROVE  up2[u] = up[u] /\ Opened(up, u) /\ up[u].ref <= m
    <3>1. up2[u] # [ref |-> NULL, value |-> st[up[u].ref]]
      BY <2>1 DEF Opened
    <3>2. up2[u] = up[u] /\ (Opened(up, u) => up[u].ref <= m)
      BY <3>1 DEF Closes
    <3> QED
      BY <2>1, <3>2 DEF Opened
  <2>2. ASSUME NEW u \in UpValues, Opened(up, u), up[u].ref <= m
        PROVE  up2[u] = up[u]
    <3>1. ~(up[u].ref > m)
      BY <1>0, <2>2
    <3> QED
      BY <3>1 DEF Closes
  <2> QED
    BY <1>0, <2>1, <2>2
<1>2. ASSUME NEW u \in UpValues
      PROVE  BoxIn(st2, up2)[u] = BoxIn(st, up)[u]
  <2>1. CASE up2[u] = up[u] /\ ~Opened(up, u)
    BY <2>1 DEF BoxIn, ValueIn, Opened
  <2>2. CASE up2[u] = up[u] /\ Opened(up, u)
    <3>1. up[u].ref \in 1 .. m
      BY <1>1, <2>2 DEF Opened
    <3> QED
      BY <2>2, <3>1 DEF BoxIn, ValueIn
  <2>3. CASE Opened(up, u) /\ up2[u] = [ref |-> NULL, value |-> st[up[u].ref]]
    <3>1. up2[u] # NULL
      BY <2>3, ValueAssumption DEF Sound, UpValueObject
    <3> QED
      BY <2>3, <3>1 DEF BoxIn, ValueIn, Opened
  <2> QED
    BY <2>1, <2>2, <2>3 DEF Closes
<1>3. BoxIn(st2, up2) = BoxIn(st, up)
  BY <1>2 DEF BoxIn
<1>4. ASSUME NEW a \in 1 .. m
      PROVE  CellsIn(st2, up2, list2)[a] = CellsIn(st, up, list)[a]
  <2>0. a \in 1 .. Len(st) /\ a \in 1 .. Len(st2)
    BY CellsType
  <2>1. CASE CapturedIn(up, list, a)
    <3> DEFINE u == BoxOf(up, a)
    <3>1. u \in UpValues /\ Opened(up, u) /\ up[u].ref = a
      BY <2>1, OneBox
    <3> HIDE DEF u
    <3>2. up2[u] = up[u] /\ Opened(up2, u) /\ up2[u].ref = a
      BY <1>1, <3>1 DEF Opened
    <3>3. CapturedIn(up2, list2, a) /\ BoxOf(up2, a) = u
      BY <3>1, <3>2, OneBox
    <3> QED
      BY <2>0, <2>1, <3>3, CellsType DEF u
  <2>2. CASE ~CapturedIn(up, list, a)
    <3>1. ASSUME CapturedIn(up2, list2, a)
          PROVE  FALSE
      <4> DEFINE u == BoxOf(up2, a)
      <4>1. u \in UpValues /\ Opened(up2, u) /\ up2[u].ref = a
        BY <3>1, OneBox
      <4> HIDE DEF u
      <4>2. Opened(up, u) /\ up[u].ref = a
        BY <1>1, <4>1
      <4> QED
        BY <2>2, <4>1, <4>2, OneBox
    <3> QED
      BY <2>0, <2>2, <3>1, CellsType
  <2> QED
    BY <2>1, <2>2
<1>5. ASSUME NEW a \in m + 1 .. Len(st2)
      PROVE  CellsIn(st2, up2, list2)[a] = st2[a]
  <2>0. a \in 1 .. Len(st2) /\ ~(a <= m)
    BY CellsType
  <2>1. ~CapturedIn(up2, list2, a)
    BY <1>1, <2>0, OneBox
  <2> QED
    BY <2>0, <2>1, CellsType
<1> QED
  BY <1>3, <1>4, <1>5

LEMMA DropCells ==
  ASSUME NEW st, NEW up, NEW list, Sound(st, up, list),
         NEW st2, NEW up2, NEW list2, Sound(st2, up2, list2),
         NEW m \in 0 .. Len(st), st2 = Lower(st, m),
         Closes(st, up, m, up2)
  PROVE  /\ CellsIn(st2, up2, list2) = Lower(CellsIn(st, up, list), m)
         /\ BoxIn(st2, up2) = BoxIn(st, up)
<1>0. /\ m \in 0 .. Len(st) /\ Len(st) \in Nat
      /\ Sound(st, up, list) /\ Sound(st2, up2, list2)
  BY DEF Sound
<1>1. m <= Len(st2) /\ Len(st2) = m /\ \A a \in 1 .. m : st2[a] = st[a]
  BY Shorter DEF Sound, Lower
<1>2. /\ BoxIn(st2, up2) = BoxIn(st, up)
      /\ \A a \in 1 .. m : CellsIn(st2, up2, list2)[a] = CellsIn(st, up, list)[a]
  BY ONLY <1>0, <1>1, Shrunk, Closes(st, up, m, up2)
<1> DEFINE c == CellsIn(st, up, list)
           c2 == CellsIn(st2, up2, list2)
<1>3. /\ c \in Seq(Value \cup UpValues) /\ Len(c) = Len(st)
      /\ c2 \in Seq(Value \cup UpValues) /\ Len(c2) = m
  BY ONLY <1>0, <1>1, CellsType
<1> HIDE DEF c, c2
<1> DEFINE d == SubSeq(c, 1, m)
<1>4. d \in Seq(Value \cup UpValues) /\ Len(d) = m /\ \A a \in 1 .. m : d[a] = c[a]
  BY <1>3, Shorter
<1> HIDE DEF d
<1>5. \A a \in 1 .. Len(c2) : c2[a] = d[a]
  BY <1>2, <1>3, <1>4 DEF c, c2
<1>6. c2 = d
  BY <1>3, <1>4, <1>5, SeqEqual
<1> QED
  BY <1>2, <1>6 DEF c, c2, d, Lower

LEMMA PutCell ==
  ASSUME NEW st, NEW up, NEW list, Sound(st, up, list),
         NEW st2, NEW up2, NEW list2, Sound(st2, up2, list2),
         NEW m \in 0 .. Len(st), NEW v \in Value, st2 = Put(st, m, v),
         Closes(st, up, m, up2)
  PROVE  /\ CellsIn(st2, up2, list2) = Put(CellsIn(st, up, list), m, v)
         /\ BoxIn(st2, up2) = BoxIn(st, up)
<1>0. /\ m \in 0 .. Len(st) /\ Len(st) \in Nat
      /\ Sound(st, up, list) /\ Sound(st2, up2, list2)
  BY DEF Sound
<1>1. m <= Len(st2) /\ Len(st2) = m + 1 /\ (\A a \in 1 .. m : st2[a] = st[a]) /\ st2[m + 1] = v
  BY Topped DEF Sound, Put
<1>2. /\ BoxIn(st2, up2) = BoxIn(st, up)
      /\ \A a \in 1 .. m : CellsIn(st2, up2, list2)[a] = CellsIn(st, up, list)[a]
      /\ \A a \in m + 1 .. Len(st2) : CellsIn(st2, up2, list2)[a] = st2[a]
  BY ONLY <1>0, <1>1, Shrunk, Closes(st, up, m, up2)
<1> DEFINE c == CellsIn(st, up, list)
           c2 == CellsIn(st2, up2, list2)
<1>3. /\ c \in Seq(Value \cup UpValues) /\ Len(c) = Len(st)
      /\ c2 \in Seq(Value \cup UpValues) /\ Len(c2) = m + 1
  BY ONLY <1>0, <1>1, CellsType
<1>4. \A a \in 1 .. m : c2[a] = c[a]
  BY <1>2
<1>5. c2[m + 1] = v
  BY <1>1, <1>2
<1> HIDE DEF c, c2
<1> DEFINE d == Append(SubSeq(c, 1, m), v)
<1>6. /\ d \in Seq(Value \cup UpValues) /\ Len(d) = m + 1
      /\ (\A a \in 1 .. m : d[a] = c[a]) /\ d[m + 1] = v
  BY <1>3, Topped
<1> HIDE DEF d
<1>7. \A a \in 1 .. Len(c2) : c2[a] = d[a]
  BY <1>3, <1>4, <1>5, <1>6
<1>8. c2 = d
  BY <1>3, <1>6, <1>7, SeqEqual
<1> QED
  BY <1>2, <1>8 DEF c, c2, d, Put

(* A cell is assigned to.                                                  *)
LEMMA AssignCell ==
  ASSUME NEW st, NEW up, NEW list, Sound(st, up, list),
         NEW a \in 1 .. Len(st), NEW v, NEW st2, st2 = With(st, a, v)
  PROVE  IF CellsIn(st, up, list)[a] \in UpValues
         THEN /\ BoxIn(st2, up) = With(BoxIn(st, up), CellsIn(st, up, list)[a], v)
              /\ CellsIn(st2, up, list) = CellsIn(st, up, list)
         ELSE /\ CellsIn(st2, up, list) = With(CellsIn(st, up, list), a, v)
              /\ BoxIn(st2, up) = BoxIn(st, up)
<1>1. /\ st2[a] = v /\ Len(st2) = Len(st)
      /\ \A b \in 1 .. Len(st) : b # a => st2[b] = st[b]
  BY DEF Sound, With
<1>2. \A u \in UpValues : Opened(up, u) => up[u].ref \in 1 .. Len(st)
  BY OneBox
<1>3. CASE CapturedIn(up, list, a)
  <2> DEFINE w == BoxOf(up, a)
  <2>1. /\ w \in UpValues /\ Opened(up, w) /\ up[w].ref = a
        /\ CellsIn(st, up, list)[a] = w
    BY <1>3, OneBox, CellsType
  <2>2. \A u \in UpValues : Opened(up, u) /\ u # w => up[u].ref # a
    BY OneBox
  <2> HIDE DEF w
  <2>3. ASSUME NEW u \in UpValues
        PROVE  BoxIn(st2, up)[u] = IF u = w THEN v ELSE BoxIn(st, up)[u]
    BY <1>1, <1>2, <2>1, <2>2 DEF BoxIn, ValueIn, Opened
  <2>4. BoxIn(st2, up) = With(BoxIn(st, up), w, v)
    BY <2>3 DEF BoxIn, With
  <2>5. CellsIn(st2, up, list) = CellsIn(st, up, list)
    BY <1>1, <1>3 DEF CellsIn
  <2> QED
    BY <2>1, <2>4, <2>5
<1>4. CASE ~CapturedIn(up, list, a)
  <2>1. CellsIn(st, up, list)[a] \notin UpValues
    BY <1>4, CellsType
  <2>2. CellsIn(st2, up, list) = With(CellsIn(st, up, list), a, v)
    BY <1>1, <1>4 DEF CellsIn, With
  <2>3. \A u \in UpValues : Opened(up, u) => up[u].ref # a
    BY <1>4, OneBox
  <2>4. BoxIn(st2, up) = BoxIn(st, up)
    BY <1>1, <1>2, <2>3 DEF BoxIn, ValueIn, Opened
  <2> QED
    BY <2>1, <2>2, <2>4
<1> QED
  BY <1>3, <1>4

(* A closed upvalue is assigned to.                                        *)
LEMMA AssignClosed ==
  ASSUME NEW st, NEW up, NEW list, Sound(st, up, list),
         NEW u \in UpValues, up[u] # NULL, ~Opened(up, u), NEW v \in Value, NEW up2,
         Sound(st, up2, list), up2 = WithValue(up, u, v)
  PROVE  /\ BoxIn(st, up2) = With(BoxIn(st, up), u, v)
         /\ CellsIn(st, up2, list) = CellsIn(st, up, list)
<1>1. up[u].ref = NULL /\ up[u] \in UpValueObject /\ DOMAIN up = UpValues
  BY DEF Opened, Sound
<1>2. /\ up2[u].ref = NULL /\ up2[u].value = v /\ up2[u] # NULL
      /\ \A w \in UpValues : w # u => up2[w] = up[w]
  <2>1. up2[u] = [up[u] EXCEPT !.value = v]
    BY <1>1 DEF WithValue
  <2>2. up[u] \in [ref : {NULL}, value : Value]
    BY <1>1, ValueAssumption DEF UpValueObject
  <2>3. up2[u].ref = NULL /\ up2[u].value = v
    BY <2>1, <2>2
  <2>4. up2[u] = [ref |-> NULL, value |-> v]
    BY <2>1, <2>2
  <2>5. up2[u] # NULL
    BY <2>4, ValueAssumption DEF UpValueObject
  <2> QED
    BY <1>1, <2>3, <2>5 DEF WithValue
<1>3. BoxIn(st, up2) = With(BoxIn(st, up), u, v)
  <2>1. ASSUME NEW w \in UpValues
        PROVE  BoxIn(st, up2)[w] = IF w = u THEN v ELSE BoxIn(st, up)[w]
    BY <1>2 DEF BoxIn, ValueIn
  <2> QED
    BY <2>1 DEF BoxIn, With
<1>4. \A i \in DOMAIN list : list[i] \in UpValues /\ list[i] # u /\ up2[list[i]] = up[list[i]]
  BY <1>2 DEF Sound, Opened
<1>5. \A a : CapturedIn(up2, list, a) <=> CapturedIn(up, list, a)
  BY <1>4 DEF CapturedIn
<1>6. ASSUME NEW a, CapturedIn(up, list, a)
      PROVE  BoxOf(up2, a) = BoxOf(up, a)
  <2> DEFINE w == BoxOf(up, a)
  <2>1. w \in UpValues /\ Opened(up, w) /\ up[w].ref = a
    BY <1>6, OneBox
  <2> HIDE DEF w
  <2>2. Opened(up2, w) /\ up2[w].ref = a
    BY <1>2, <2>1 DEF Opened
  <2>3. BoxOf(up2, a) = w
    BY ONLY <2>1, <2>2, OneBox, Sound(st, up2, list)
  <2> QED
    BY <2>3 DEF w
<1> QED
  BY <1>3, <1>5, <1>6 DEF CellsIn

(* A cell gets a box: a new open upvalue.                                  *)
LEMMA NewBox ==
  ASSUME NEW st, NEW up, NEW list, Sound(st, up, list),
         NEW a \in 1 .. Len(st), ~CapturedIn(up, list, a),
         NEW u \in UpValues, up[u] = NULL, NEW up2, NEW list2, Sound(st, up2, list2),
         up2 = With(up, u, [ref |-> a, value |-> NULL])
  PROVE  /\ CellsIn(st, up2, list2) = With(CellsIn(st, up, list), a, u)
         /\ BoxIn(st, up2) = With(BoxIn(st, up), u, st[a])
         /\ CellsIn(st, up, list)[a] = st[a] /\ CellsIn(st, up, list)[a] \notin UpValues
         /\ BoxIn(st, up)[u] = NULL
<1>1. DOMAIN up = UpValues
  BY DEF Sound
<1>2. /\ up2[u] = [ref |-> a, value |-> NULL]
      /\ \A w \in UpValues : w # u => up2[w] = up[w]
  BY <1>1 DEF With
<1>3. up2[u] # NULL /\ up2[u].ref = a /\ a # NULL
  BY <1>2, CellsType, ValueAssumption DEF Sound, UpValueObject
<1>4. BoxIn(st, up2) = With(BoxIn(st, up), u, st[a])
  <2>1. ASSUME NEW w \in UpValues
        PROVE  BoxIn(st, up2)[w] = IF w = u THEN st[a] ELSE BoxIn(st, up)[w]
    BY <1>2, <1>3 DEF BoxIn, ValueIn
  <2> QED
    BY <2>1 DEF BoxIn, With
<1>5. CapturedIn(up2, list2, a) /\ BoxOf(up2, a) = u
  <2>1. Opened(up2, u)
    BY <1>3, ValueAssumption DEF Opened
  <2> QED
    BY ONLY <1>3, <2>1, OneBox, Sound(st, up2, list2), u \in UpValues
<1>6. ASSUME NEW b \in 1 .. Len(st), b # a
      PROVE  CellsIn(st, up2, list2)[b] = CellsIn(st, up, list)[b]
  <2>1. CASE CapturedIn(up, list, b)
    <3> DEFINE w == BoxOf(up, b)
    <3>1. w \in UpValues /\ Opened(up, w) /\ up[w].ref = b /\ w # u
      BY <2>1, OneBox DEF Opened
    <3> HIDE DEF w
    <3>2. Opened(up2, w) /\ up2[w].ref = b
      BY <1>2, <3>1 DEF Opened
    <3>3. CapturedIn(up2, list2, b) /\ BoxOf(up2, b) = w
      BY ONLY <3>1, <3>2, OneBox, Sound(st, up2, list2)
    <3> QED
      BY <2>1, <3>3, CellsType DEF w
  <2>2. CASE CapturedIn(up2, list2, b)
    <3> DEFINE w == BoxOf(up2, b)
    <3>1. w \in UpValues /\ Opened(up2, w) /\ up2[w].ref = b
      BY ONLY <2>2, OneBox, Sound(st, up2, list2)
    <3> HIDE DEF w
    <3>2. Opened(up, w) /\ up[w].ref = b
      BY <1>2, <1>3, <1>6, <3>1 DEF Opened
    <3>3. CapturedIn(up, list, b)
      BY <3>1, <3>2, OneBox
    <3> QED
      BY <2>1, <3>3
  <2>3. CASE ~CapturedIn(up, list, b) /\ ~CapturedIn(up2, list2, b)
    BY <2>3, CellsType
  <2> QED
    BY <2>1, <2>2, <2>3
<1>7. CellsIn(st, up2, list2) = With(CellsIn(st, up, list), a, u)
  <2>1. CellsIn(st, up2, list2)[a] = u
    BY <1>5, CellsType
  <2> QED
    BY <1>6, <2>1 DEF CellsIn, With
<1>8. CellsIn(st, up, list)[a] = st[a] /\ CellsIn(st, up, list)[a] \notin UpValues
  BY CellsType
<1> QED
  BY <1>4, <1>7, <1>8 DEF BoxIn
-----------------------------------------------------------------------------
(* What a step does to the memory.                                         *)

LEMMA Now ==
  ASSUME IInv, status = "running"
  PROVE  /\ Sound(stack, upvalue, open) /\ Top \in Nat
         /\ MemCells = CellsIn(stack, upvalue, open) /\ MemBox = BoxIn(stack, upvalue)
         /\ Len(MemCells) = Top /\ Memory!Top = Top
         /\ \A a \in 1 .. Top : Memory!Read(a) = stack[a]
         /\ \A n \in Nat : Cells(n) => Memory!Operands(n)
<1>1. /\ Sound(stack, upvalue, open) /\ Top \in Nat
      /\ MemCells = CellsIn(stack, upvalue, open) /\ MemBox = BoxIn(stack, upvalue)
  BY RunningSound, Seen, FrameFacts DEF Errors
<1>2. Len(MemCells) = Top /\ Memory!Top = Top
  BY <1>1, CellsType, Bridge DEF Top
<1>3. \A a \in 1 .. Top : Memory!Read(a) = stack[a]
  <2> SUFFICES ASSUME NEW a \in 1 .. Len(stack) PROVE Memory!Read(a) = stack[a]
    BY DEF Top
  <2>1. stack[a] = IF MemCells[a] \in UpValues THEN MemBox[MemCells[a]] ELSE MemCells[a]
    BY <1>1, ReadIs
  <2> QED
    BY <2>1, Bridge
<1>4. \A n \in Nat : Cells(n) => Memory!Operands(n)
  <2>1. Memory!Frame = Frame /\ Frame.slots \in Nat /\ Parameters(Frame.fn) \in Nat
    BY FrameFacts, Bridge
  <2> QED
    BY <1>1, <1>2, <2>1 DEF Memory!Operands, Cells
<1> QED
  BY <1>1, <1>2, <1>3, <1>4

LEMMA Afterwards ==
  ASSUME IInv', status' = "running"
  PROVE  /\ Sound(stack', upvalue', open')
         /\ MemCells' = CellsIn(stack', upvalue', open') /\ MemBox' = BoxIn(stack', upvalue')
BY RunningSound, Seen DEF Errors

(* The operands an instruction pops are no captured cells.                 *)
LEMMA OperandsApart ==
  ASSUME IInv, status = "running", NEW n \in Nat, Operands(n)
  PROVE  n <= Top /\ Top - n \in 0 .. Top /\ Closes(stack, upvalue, Top - n, upvalue)
<1>1. /\ Top \in Nat /\ Frame.slots \in Nat \ {0} /\ Parameters(Frame.fn) \in Nat
      /\ Top - n >= Frame.slots + Parameters(Frame.fn) - 1
  BY FrameFacts DEF Operands, Cells
<1>2. n <= Top /\ Top - n \in 0 .. Top
  BY <1>1
<1>3. ASSUME NEW u \in UpValues, Opened(upvalue, u)
      PROVE  upvalue[u].ref <= Top - n
  <2>1. upvalue[u].ref \in 1 .. Top /\ CapturedIn(upvalue, open, upvalue[u].ref)
    BY <1>3, Now, OneBox DEF Top
  <2>2. upvalue[u].ref \notin Top - n + 1 .. Top
    BY <2>1 DEF Operands, Captured, CapturedIn
  <2> QED
    BY <1>1, <2>1, <2>2
<1> QED
  BY <1>2, <1>3 DEF Closes

LEMMA Replaced ==
  ASSUME IInv, IInv', status = "running", NEW n \in Nat, Operands(n),
         NEW v \in Value, Replace(n, v), UNCHANGED <<upvalue, open, status>>
  PROVE  Memory!Replace(n, v)
<1> DEFINE m == Top - n
<1>1. /\ m \in 0 .. Len(stack) /\ Closes(stack, upvalue, m, upvalue)
      /\ stack' = Put(stack, m, v)
  BY OperandsApart DEF Replace, Drop, Top, Put
<1>2. /\ Sound(stack, upvalue, open) /\ Sound(stack', upvalue, open)
      /\ MemCells = CellsIn(stack, upvalue, open) /\ MemBox = BoxIn(stack, upvalue)
      /\ MemCells' = CellsIn(stack', upvalue, open) /\ MemBox' = BoxIn(stack', upvalue)
      /\ Len(MemCells) = Top
  BY Now, Afterwards
<1> HIDE DEF m
<1>3. MemCells' = Put(MemCells, m, v) /\ MemBox' = MemBox
  BY <1>1, <1>2, PutCell
<1> QED
  BY <1>2, <1>3, Bridge DEF m, Put

LEMMA Dropped ==
  ASSUME IInv, IInv', status = "running", Operands(1), stack' = Drop(1),
         UNCHANGED <<upvalue, open, status>>
  PROVE  MemCells' = SubSeq(MemCells, 1, Top - 1) /\ MemBox' = MemBox
<1> DEFINE m == Top - 1
<1>1. /\ m \in 0 .. Len(stack) /\ Closes(stack, upvalue, m, upvalue)
      /\ stack' = Lower(stack, m)
  BY OperandsApart DEF Drop, Top, Lower
<1>2. /\ Sound(stack, upvalue, open) /\ Sound(stack', upvalue, open)
      /\ MemCells = CellsIn(stack, upvalue, open) /\ MemBox = BoxIn(stack, upvalue)
      /\ MemCells' = CellsIn(stack', upvalue, open) /\ MemBox' = BoxIn(stack', upvalue)
  BY Now, Afterwards
<1> HIDE DEF m, Lower
<1>3. MemCells' = Lower(MemCells, m) /\ MemBox' = MemBox
  BY <1>1, <1>2, DropCells
<1> QED
  BY <1>3 DEF m, Lower

LEMMA Written ==
  ASSUME IInv, IInv', status = "running", NEW a \in 1 .. Top, NEW v,
         stack' = [stack EXCEPT ![a] = v], UNCHANGED <<upvalue, open, status>>
  PROVE  Memory!Write(a, v)
<1>1. /\ Sound(stack, upvalue, open) /\ a \in 1 .. Len(stack)
      /\ stack' = With(stack, a, v)
      /\ MemCells = CellsIn(stack, upvalue, open) /\ MemBox = BoxIn(stack, upvalue)
      /\ MemCells' = CellsIn(stack', upvalue, open) /\ MemBox' = BoxIn(stack', upvalue)
  BY Now, Afterwards DEF Top, With
<1>2. IF MemCells[a] \in UpValues
      THEN MemBox' = With(MemBox, MemCells[a], v) /\ MemCells' = MemCells
      ELSE MemCells' = With(MemCells, a, v) /\ MemBox' = MemBox
  BY ONLY <1>1, AssignCell
<1> QED
  BY <1>2, Bridge DEF With

(* Globals, closures and frames are not part of the memory of cells.       *)
LEMMA Untouched ==
  ASSUME UNCHANGED <<stack, upvalue, open>>, status \notin Errors, status' \notin Errors
  PROVE  MemCells' = MemCells /\ MemBox' = MemBox
BY Seen

LEMMA Failed ==
  ASSUME NEW reason \in Errors, Fail(reason)
  PROVE  Memory!Fail
<1>1. stack' = <<>> /\ status' = reason /\ Top' = 0
  BY DEF Fail, Abort, Top
<1>2. MemCells' = <<>>
  BY <1>1 DEF MemCells
<1>3. MemBox' = [u \in UpValues |-> NULL]
  BY <1>1 DEF MemBox
<1>4. status' \notin {"running", "done"}
  BY <1>1 DEF Errors
<1> QED
  BY <1>2, <1>3, <1>4 DEF Memory!Fail, Fail, Abort, heap, MemCells, MemBox
-----------------------------------------------------------------------------
(* The instructions.                                                       *)

LEMMA OtherIs == Memory!Other = Other
BY DEF Memory!Other, Other

LEMMA ValuesMap ==
  ASSUME IInv, IInv', status = "running", NEW n \in 0 .. 2, NEW v \in Data,
         (n = 0 /\ PushConst(v)) \/ (n # 0 /\ (NumberOp(n, v) \/ AnyOp(n, v)))
  PROVE  Memory!Compute /\ building = NULL
<1>1. Operands(n) /\ v \in Value /\ n \in Nat /\ building = NULL /\ op' = Other
  BY NoOperands, DataUsable DEF PushConst, NumberOp, AnyOp, Running
<1>2. CASE \E reason \in Errors : Fail(reason)
  BY <1>1, <1>2, Failed, OtherIs DEF Memory!Compute, Memory!Did
<1>3. CASE ~\E reason \in Errors : Fail(reason)
  <2>1. /\ Replace(n, v)
        /\ UNCHANGED <<frames, globals, closure, upvalue, open, building, status>>
    BY <1>1, <1>3 DEF PushConst, NumberOp, AnyOp, Running, Continue, heap, Errors
  <2>2. Memory!Replace(n, v) /\ Memory!Operands(n)
    BY <1>1, <2>1, Replaced, Now DEF Operands
  <2>3. Memory!Keep
    BY <2>1 DEF Memory!Keep
  <2> QED
    BY <1>1, <2>2, <2>3, OtherIs DEF Memory!Compute, Memory!Did, Memory!Data, Data
<1> QED
  BY <1>1, <1>2, <1>3

LEMMA PopMap ==
  ASSUME IInv, IInv', status = "running", Pop
  PROVE  Memory!Discard /\ building = NULL
<1>1. /\ Operands(1) /\ stack' = Drop(1) /\ op' = Other /\ building = NULL
      /\ UNCHANGED <<frames, globals, closure, upvalue, open, building, status>>
  BY DEF Pop, Running, heap
<1>2. MemCells' = SubSeq(MemCells, 1, Top - 1) /\ MemBox' = MemBox
  BY <1>1, Dropped
<1>3. Memory!Operands(1) /\ Memory!Top = Top
  BY <1>1, Now DEF Operands
<1> QED
  BY <1>1, <1>2, <1>3, OtherIs DEF Memory!Discard, Memory!Did, Memory!Keep, MemCells, MemBox

LEMMA PushFunctionMap ==
  ASSUME IInv, IInv', status = "running", NEW f \in Fns, PushFunction(f)
  PROVE  Memory!PushFunction(f) /\ building = NULL
<1>1. /\ Operands(0) /\ Replace(0, f) /\ op' = Other /\ building = NULL
      /\ UNCHANGED <<frames, globals, closure, upvalue, open, building, status>>
      /\ f \in Value
  BY NoOperands DEF PushFunction, Running, heap, Value, Callables
<1>2. Memory!Replace(0, f)
  BY <1>1, Replaced
<1> QED
  BY <1>1, <1>2, OtherIs DEF Memory!PushFunction, Memory!Did, Memory!Keep

LEMMA GlobalsMap ==
  ASSUME IInv, IInv', status = "running", NEW g \in Globals
  PROVE  /\ DefineGlobal(g) => Memory!DefineGlobal(g) /\ building = NULL
         /\ LoadGlobal(g) => Memory!LoadGlobal(g) /\ building = NULL
         /\ StoreGlobal(g) => Memory!StoreGlobal(g) /\ building = NULL
<1>1. /\ Memory!Top = Top /\ Top \in Nat
      /\ \A a \in 1 .. Top : Memory!Read(a) = stack[a]
      /\ Frame.slots \in Nat \ {0} /\ Parameters(Frame.fn) \in Nat
  BY Now, FrameFacts
<1>2. Operands(1) => Top >= 1 /\ Memory!Read(Top) = Peek(0) /\ Memory!Operands(1)
  BY <1>1, Now DEF Operands, Cells, Peek
<1>3. globals[g] # NULL => globals[g] \in Value
  BY DEF IInv, Always, TypeOK
<1>4. ASSUME DefineGlobal(g)
      PROVE  Memory!DefineGlobal(g) /\ building = NULL
  <2>1. /\ Operands(1) /\ stack' = Drop(1) /\ op' = Other /\ building = NULL
        /\ globals' = [globals EXCEPT ![g] = Peek(0)]
        /\ UNCHANGED <<frames, closure, upvalue, open, building, status>>
    BY <1>4 DEF DefineGlobal, Running, heap
  <2>2. MemCells' = SubSeq(MemCells, 1, Top - 1) /\ MemBox' = MemBox
    BY <2>1, Dropped
  <2> QED
    BY <1>1, <1>2, <2>1, <2>2, OtherIs
       DEF Memory!DefineGlobal, Memory!Did, MemCells, MemBox
<1>5. ASSUME LoadGlobal(g)
      PROVE  Memory!LoadGlobal(g) /\ building = NULL
  <2>1. op' = Other /\ building = NULL /\ Operands(0)
    BY <1>5, NoOperands DEF LoadGlobal, Running
  <2>2. CASE globals[g] = NULL
    <3>1. Memory!Fail
      BY <1>5, <2>2, Failed DEF LoadGlobal, Errors
    <3> QED
      BY <2>1, <2>2, <3>1, OtherIs DEF Memory!LoadGlobal, Memory!Did
  <2>3. CASE globals[g] # NULL
    <3>1. /\ Replace(0, globals[g])
          /\ UNCHANGED <<frames, globals, closure, upvalue, open, building, status>>
      BY <1>5, <2>3 DEF LoadGlobal, Running, Continue, heap
    <3>0. PICK v : v = globals[g]
      OBVIOUS
    <3>2. v \in Value
      BY <1>3, <2>3, <3>0
    <3>3. Replace(0, v) /\ UNCHANGED <<upvalue, open, status>>
      BY <3>0, <3>1
    <3>4. Memory!Replace(0, v)
      BY <2>1, <3>2, <3>3, Replaced
    <3> QED
      BY <2>1, <2>3, <3>0, <3>1, <3>4, OtherIs
         DEF Memory!LoadGlobal, Memory!Did, Memory!Keep, Memory!Replace
  <2> QED
    BY <2>2, <2>3
<1>6. ASSUME StoreGlobal(g)
      PROVE  Memory!StoreGlobal(g) /\ building = NULL
  <2>1. op' = Other /\ building = NULL /\ Operands(1)
    BY <1>6 DEF StoreGlobal, Running
  <2>2. CASE globals[g] = NULL
    <3>1. Memory!Fail
      BY <1>6, <2>2, StoreUndone, Failed DEF Errors
    <3> QED
      BY <1>2, <2>1, <2>2, <3>1, OtherIs DEF Memory!StoreGlobal, Memory!Did
  <2>3. CASE globals[g] # NULL
    <3>1. /\ globals' = [globals EXCEPT ![g] = Peek(0)]
          /\ UNCHANGED <<stack, frames, closure, upvalue, open, building, status>>
      BY <1>6, <2>3 DEF StoreGlobal, Running, Continue, heap
    <3>2. MemCells' = MemCells /\ MemBox' = MemBox
      BY <3>1, Untouched DEF Errors
    <3> QED
      BY <1>1, <1>2, <2>1, <2>3, <3>1, <3>2, OtherIs
         DEF Memory!StoreGlobal, Memory!Did, MemCells, MemBox
  <2> QED
    BY <2>2, <2>3
<1> QED
  BY <1>4, <1>5, <1>6

LEMMA LocalsMap ==
  ASSUME IInv, IInv', status = "running", NEW slot \in Slots
  PROVE  /\ LoadLocal(slot) => Memory!LoadLocal(slot) /\ building = NULL
         /\ Cells(1) /\ StoreLocal(slot) => Memory!StoreLocal(slot) /\ building = NULL
<1>0. PICK a, v, w : a = Frame.slots + slot /\ v = stack[a] /\ w = Peek(0)
  OBVIOUS
<1>1. /\ a \in 1 .. Top /\ Top \in Nat /\ Top >= 1 /\ Memory!Top = Top
      /\ Memory!Frame = Frame
  BY <1>0, FrameFacts, Now, Bridge DEF Slots
<1>2. /\ v \in Value /\ Memory!Read(a) = v /\ Memory!Read(Top) = w
  BY <1>0, <1>1, CalleeCells, Now DEF Peek
<1>3. ASSUME LoadLocal(slot)
      PROVE  Memory!LoadLocal(slot) /\ building = NULL
  <2>1. /\ Operands(0) /\ Replace(0, v) /\ op' = <<"LOAD_LOC", slot>> /\ building = NULL
        /\ UNCHANGED <<frames, globals, closure, upvalue, open, building, status>>
    BY <1>0, <1>3, NoOperands DEF LoadLocal, Running, heap
  <2>2. Memory!Replace(0, v)
    BY <1>2, <2>1, Replaced
  <2>3. MemCells' = Append(SubSeq(MemCells, 1, Memory!Top - 0), v) /\ MemBox' = MemBox
    BY <1>1, <2>2, Now, Bridge
  <2>4. v = Memory!Read(Memory!Frame.slots + slot)
    BY <1>0, <1>1, <1>2
  <2> QED
    BY <2>1, <2>3, <2>4
       DEF Memory!LoadLocal, Memory!Did, Memory!Keep, Memory!Replace, MemCells, MemBox
<1>4. ASSUME Cells(1), StoreLocal(slot)
      PROVE  Memory!StoreLocal(slot) /\ building = NULL
  <2>1. /\ stack' = [stack EXCEPT ![a] = w] /\ op' = <<"STORE_LOC", slot>>
        /\ building = NULL
        /\ UNCHANGED <<frames, globals, closure, upvalue, open, building, status>>
    BY <1>0, <1>4 DEF StoreLocal, Running, heap
  <2>2. Memory!Operands(1)
    BY <1>4, Now
  <2>3. Memory!Write(a, w)
    BY <1>1, <2>1, Written
  <2>4. a = Memory!Frame.slots + slot /\ w = Memory!Read(Memory!Top)
    BY <1>0, <1>1, <1>2
  <2> QED
    BY <2>1, <2>2, <2>3, <2>4 DEF Memory!StoreLocal, Memory!Did, Memory!Keep, Memory!Write
<1> QED
  BY <1>3, <1>4

(* An upvalue of the running closure.                                      *)
LEMMA UpvalueBox ==
  ASSUME IInv, status = "running", NEW u \in UpValues, upvalue[u] # NULL
  PROVE  /\ MemBox[u] = GetUpValue(u) /\ GetUpValue(u) \in Value
         /\ IsOpen(u) => /\ upvalue[u].ref \in 1 .. Top
                         /\ MemCells[upvalue[u].ref] = u
<1>1. MemBox[u] = GetUpValue(u)
  BY Now DEF BoxIn, ValueIn, GetUpValue
<1>2. GetUpValue(u) \in Value
  BY UpvalueUsable
<1>3. ASSUME IsOpen(u)
      PROVE  upvalue[u].ref \in 1 .. Top /\ MemCells[upvalue[u].ref] = u
  <2>1. Opened(upvalue, u)
    BY <1>3 DEF IsOpen, Opened
  <2>2. /\ upvalue[u].ref \in 1 .. Len(stack) /\ CapturedIn(upvalue, open, upvalue[u].ref)
        /\ BoxOf(upvalue, upvalue[u].ref) = u
    BY <2>1, Now, OneBox
  <2>3. CellsIn(stack, upvalue, open)[upvalue[u].ref] = u
    BY <2>2, Now, CellsType
  <2> QED
    BY <2>2, <2>3, Now DEF Top
<1> QED
  BY <1>1, <1>2, <1>3

LEMMA UpvaluesMap ==
  ASSUME IInv, IInv', status = "running", NEW i \in UpvalueIndices
  PROVE  /\ LoadUpvalue(i) => Memory!LoadUpvalue(i) /\ building = NULL
         /\ StoreUpvalue(i) => Memory!StoreUpvalue(i) /\ building = NULL
         /\ Frame.fn \in Closures /\ i \in DOMAIN closure[Frame.fn].upvalues
<1>0. PICK u, v, w : u = closure[Frame.fn].upvalues[i] /\ v = GetUpValue(u) /\ w = Peek(0)
  OBVIOUS
<1>1. /\ HasUpvalue(i) /\ Frame.fn \in Closures /\ u \in UpValues /\ upvalue[u] # NULL
      /\ i \in 1 .. Len(closure[Frame.fn].upvalues)
  BY <1>0, InBounds
<1>2. i \in DOMAIN closure[Frame.fn].upvalues
  <2>1. closure[Frame.fn] # NULL
    <3>1. Frame.fn # Script /\ Usable(Frame.fn)
      BY <1>1, FrameFacts, Apart DEF Value, Callables
    <3> QED
      BY <1>1, <3>1 DEF Usable
  <2>2. closure[Frame.fn].upvalues \in Seq(UpValues)
    BY <1>1, <2>1 DEF IInv, Always, TypeOK, ClosureObject
  <2> QED
    BY <1>1, <2>2
<1>3. /\ MemBox[u] = v /\ v \in Value
      /\ IsOpen(u) => upvalue[u].ref \in 1 .. Top /\ MemCells[upvalue[u].ref] = u
  BY <1>0, <1>1, UpvalueBox
<1>4. /\ Memory!Frame = Frame /\ Memory!Top = Top /\ Top \in Nat
  BY Now, Bridge
<1>5. ASSUME LoadUpvalue(i)
      PROVE  Memory!LoadUpvalue(i) /\ building = NULL
  <2>1. /\ Operands(0) /\ Replace(0, v) /\ op' = <<"LOAD_UVAL", i>> /\ building = NULL
        /\ UNCHANGED <<frames, globals, closure, upvalue, open, building, status>>
    BY <1>0, <1>1, <1>5, NoOperands DEF LoadUpvalue, Running, Continue, heap
  <2>2. Memory!Replace(0, v)
    BY <1>3, <2>1, Replaced
  <2>3. MemCells' = Append(SubSeq(MemCells, 1, Memory!Top - 0), v) /\ MemBox' = MemBox
    BY <1>4, <2>2, Now, Bridge
  <2>4. v = MemBox[closure[Memory!Frame.fn].upvalues[i]]
    BY <1>0, <1>3, <1>4
  <2> QED
    BY <2>1, <2>3, <2>4
       DEF Memory!LoadUpvalue, Memory!Did, Memory!Keep, Memory!Replace, MemCells, MemBox
<1>6. ASSUME StoreUpvalue(i)
      PROVE  Memory!StoreUpvalue(i) /\ building = NULL
  <2>1. /\ Cells(1) /\ SetUpValue(u, w) /\ op' = <<"STORE_UVAL", i>> /\ building = NULL
        /\ UNCHANGED <<frames, globals, closure, open, building, status>>
    BY <1>0, <1>1, <1>6 DEF StoreUpvalue, Running, Continue
  <2>2. Memory!Operands(1)
    BY <2>1, Now
  <2>3. Top >= 1 /\ w \in Value /\ Memory!Read(Top) = w
    <3>1. Top >= 1
      BY <2>1, FrameFacts DEF Cells
    <3> QED
      BY <1>0, <1>4, <3>1, Now, PeekUsable DEF Peek
  <2>4. MemBox' = [MemBox EXCEPT ![u] = w] /\ MemCells' = MemCells
    <3>1. CASE IsOpen(u)
      <4>0. PICK a : a = upvalue[u].ref
        OBVIOUS
      <4>1. /\ a \in 1 .. Top /\ MemCells[a] = u
            /\ stack' = [stack EXCEPT ![a] = w] /\ UNCHANGED <<upvalue, open, status>>
        BY <1>3, <2>1, <3>1, <4>0 DEF SetUpValue, IsOpen
      <4>2. Memory!Write(a, w)
        BY <4>1, Written
      <4> QED
        BY <1>1, <4>1, <4>2, Bridge
    <3>2. CASE ~IsOpen(u)
      <4>1. /\ upvalue' = WithValue(upvalue, u, w) /\ UNCHANGED <<stack, open, status>>
            /\ ~Opened(upvalue, u)
        BY <1>1, <2>1, <3>2 DEF SetUpValue, IsOpen, Opened, WithValue
      <4>2. /\ Sound(stack, upvalue, open) /\ Sound(stack, upvalue', open)
            /\ MemCells = CellsIn(stack, upvalue, open) /\ MemBox = BoxIn(stack, upvalue)
            /\ MemCells' = CellsIn(stack, upvalue', open) /\ MemBox' = BoxIn(stack, upvalue')
        BY <4>1, Now, Afterwards
      <4>3. MemBox' = With(MemBox, u, w) /\ MemCells' = MemCells
        BY ONLY <1>1, <2>3, <4>1, <4>2, AssignClosed
      <4> QED
        BY <4>3 DEF With
    <3> QED
      BY <3>1, <3>2
  <2>5. MemBox' = [MemBox EXCEPT ![closure[Memory!Frame.fn].upvalues[i]] = Memory!Read(Memory!Top)]
    BY <1>0, <1>4, <2>3, <2>4
  <2> QED
    BY <2>1, <2>2, <2>4, <2>5
       DEF Memory!StoreUpvalue, Memory!Did, Memory!Keep, MemBox, MemCells
<1> QED
  BY <1>1, <1>2, <1>5, <1>6
-----------------------------------------------------------------------------
(* Closures.                                                               *)

LEMMA BeginClosureMap ==
  ASSUME status = "running", NEW f \in Fns, BeginClosure(f)
  PROVE  Memory!BeginClosure(f) /\ building = NULL
<1>1. MemCells' = MemCells /\ MemBox' = MemBox
  BY Untouched DEF BeginClosure, Errors
<1> QED
  BY <1>1, OtherIs DEF BeginClosure, Running, Memory!BeginClosure, Memory!Did, MemCells, MemBox

LEMMA CaptureLocalMap ==
  ASSUME IInv, IInv', status = "running", CaptureLocal
  PROVE  Memory!Capture
<1>1. /\ Unfinished /\ building # NULL /\ NextCapture.type = "UVAL_LOC"
      /\ UNCHANGED <<stack, frames, globals, building, status, op>>
  BY DEF CaptureLocal, Unfinished
<1>2. /\ Memory!NextCapture = NextCapture /\ Memory!Frame = Frame
      /\ Len(closure[building].upvalues) < Len(Captures[closure[building].prototype])
  BY <1>1, BuildingFacts, Bridge DEF Memory!NextCapture, NextCapture, NextIndex, Unfinished
<1>3. PICK a : a = Frame.slots + NextCapture.index
  OBVIOUS
<1>4. a \in 1 .. Top
  <2>1. NextIndex \in DOMAIN Captures[closure[building].prototype] /\ NextCapture \in Capture
    BY <1>1, BuildingFacts
  <2>2. NextCapture.index \in Slots
    BY <1>1, <2>1 DEF NextCapture, IInv, WhileRunning, BuildingOK, Declares
  <2> QED
    BY <1>3, <2>2, FrameFacts DEF Slots
<1>5. /\ Position(a) \in 1 .. Len(open) + 1
      /\ IsOpenAt(a) <=> Position(a) <= Len(open) /\ Ref(Position(a)) = a
      /\ IsOpenAt(a) <=> Captured(a)
  <2>1. a \in Nat /\ Always
    BY <1>4, FrameFacts DEF IInv
  <2> QED
    BY <2>1, PositionFinds
<1>6. /\ Len(open) \in Nat
      /\ \A j \in 1 .. Len(open) : open[j] \in UpValues /\ IsOpen(open[j])
  BY OpenRefs DEF IInv
<1>7. CASE IsOpenAt(a)
  <2>1. AddUpvalue(open[Position(a)]) /\ UNCHANGED <<upvalue, open>>
    BY <1>3, <1>7 DEF CaptureLocal
  <2>2. PICK u \in UpValues : u = open[Position(a)] /\ IsOpen(u) /\ upvalue[u].ref = a
    BY <1>5, <1>6, <1>7 DEF Ref
  <2>3. MemCells[a] = u
    BY <2>2, UpvalueBox DEF IsOpen
  <2>4. MemCells' = MemCells /\ MemBox' = MemBox
    BY <1>1, <2>1, Untouched DEF Errors
  <2>5. closure' = [closure EXCEPT ![building].upvalues = Append(@, MemCells[a])]
    BY <2>1, <2>2, <2>3 DEF AddUpvalue
  <2> QED
    BY <1>1, <1>2, <1>3, <2>2, <2>3, <2>4, <2>5 DEF Memory!Capture, MemCells, MemBox
<1>8. CASE ~IsOpenAt(a)
  <2>1. PICK u \in UpValues :
           /\ upvalue[u] = NULL /\ AddUpvalue(u)
           /\ upvalue' = [upvalue EXCEPT ![u] = [ref |-> a, value |-> NULL]]
    BY <1>3, <1>8 DEF CaptureLocal
  <2>2. /\ Sound(stack, upvalue, open) /\ Sound(stack, upvalue', open')
        /\ MemCells = CellsIn(stack, upvalue, open) /\ MemBox = BoxIn(stack, upvalue)
        /\ MemCells' = CellsIn(stack, upvalue', open') /\ MemBox' = BoxIn(stack, upvalue')
    BY <1>1, Now, Afterwards
  <2>3. ~CapturedIn(upvalue, open, a) /\ a \in 1 .. Len(stack)
    BY <1>4, <1>5, <1>8 DEF Captured, CapturedIn, Top
  <2>4. /\ upvalue' = With(upvalue, u, [ref |-> a, value |-> NULL])
        /\ u \in UpValues /\ upvalue[u] = NULL
    BY <2>1 DEF With
  <2>5. /\ MemCells' = With(MemCells, a, u) /\ MemBox' = With(MemBox, u, stack[a])
        /\ MemCells[a] = stack[a] /\ MemCells[a] \notin UpValues /\ MemBox[u] = NULL
    BY ONLY <2>2, <2>3, <2>4, NewBox
  <2> QED
    BY <1>1, <1>2, <1>3, <2>1, <2>5, ZenonT(60)
       DEF Memory!Capture, AddUpvalue, MemCells, MemBox, With
<1> QED
  BY <1>7, <1>8

LEMMA CaptureUpvalueMap ==
  ASSUME IInv, IInv', status = "running", CaptureUpvalue
  PROVE  Memory!Capture
<1>1. Frame.fn \in Closures
  BY DEF CaptureUpvalue, Fail, Abort, IInv, Always, UpvaluesInBounds
<1>2. /\ Unfinished /\ building # NULL /\ NextCapture.type = "UVAL_UVAL"
      /\ AddUpvalue(closure[Frame.fn].upvalues[NextCapture.index])
      /\ UNCHANGED <<stack, frames, globals, upvalue, open, building, status, op>>
  BY <1>1 DEF CaptureUpvalue, Unfinished
<1>3. /\ Memory!NextCapture = NextCapture /\ Memory!Frame = Frame
      /\ Len(closure[building].upvalues) < Len(Captures[closure[building].prototype])
  <2>1. Unfinished /\ building # NULL
    BY <1>2
  <2> QED
    BY <2>1, BuildingFacts, Bridge DEF Memory!NextCapture, NextCapture, NextIndex, Unfinished
<1>4. MemCells' = MemCells /\ MemBox' = MemBox
  BY <1>2, Untouched DEF Errors
<1> QED
  BY <1>2, <1>3, <1>4 DEF Memory!Capture, AddUpvalue, MemCells, MemBox

LEMMA EndClosureMap ==
  ASSUME IInv, IInv', status = "running", EndClosure
  PROVE  Memory!EndClosure
<1>1. /\ building # NULL /\ ~Unfinished /\ Replace(0, building) /\ building' = NULL
      /\ UNCHANGED <<frames, globals, closure, upvalue, open, status, op>>
  BY DEF EndClosure, Built, heap
<1>2. PICK c : c = building
  OBVIOUS
<1>3. c \in Value /\ Replace(0, c)
  BY <1>1, <1>2, BuildingFacts DEF Value, Callables
<1>4. Memory!Replace(0, c)
  BY <1>1, <1>3, NoOperands, Replaced
<1>5. Len(closure[building].upvalues) = Len(Captures[closure[building].prototype])
  BY <1>1, BuildingFacts DEF Unfinished, NextIndex
<1> QED
  BY <1>1, <1>2, <1>4, <1>5 DEF Memory!EndClosure, Memory!Replace

LEMMA CloseUpvalueMap ==
  ASSUME IInv, IInv', status = "running", CloseUpvalue
  PROVE  Memory!Discard /\ building = NULL
<1>1. /\ building = NULL /\ Cells(1) /\ stack' = SubSeq(stack, 1, Top - 1) /\ op' = Other
      /\ UNCHANGED <<frames, globals, closure, building, status>>
  BY DEF CloseUpvalue, Running, Drop
<1>2. Top \in Nat /\ Top >= 1 /\ Memory!Operands(1) /\ Memory!Top = Top
  BY <1>1, FrameFacts, Now DEF Cells
<1>3. PICK t \in Nat : t = Top
  BY <1>2
<1> DEFINE p == Position(t)
<1>4. /\ p \in 1 .. Len(open) + 1
      /\ IsOpenAt(t) <=> p <= Len(open) /\ Ref(p) = t
      /\ IsOpenAt(t) <=> Captured(t)
  BY PositionFinds DEF IInv
<1>5. /\ Len(open) \in Nat
      /\ \A j \in 1 .. Len(open) : open[j] \in UpValues /\ IsOpen(open[j])
  BY OpenRefs DEF IInv
<1>6. \A u \in UpValues : Opened(upvalue, u) =>
         /\ upvalue[u].ref \in 1 .. t /\ CapturedIn(upvalue, open, upvalue[u].ref)
         /\ BoxOf(upvalue, upvalue[u].ref) = u
  BY <1>3, Now, OneBox DEF Top
<1>7. Closes(stack, upvalue, t - 1, upvalue')
  <2>1. CASE IsOpenAt(t)
    <3>1. PICK w \in UpValues : w = open[p] /\ Opened(upvalue, w) /\ upvalue[w].ref = t
      BY <1>4, <1>5, <2>1 DEF Ref, IsOpen, Opened
    <3>2. CloseAll({w})
      BY <1>3, <2>1, <3>1 DEF CloseUpvalue
    <3>3. ASSUME NEW u \in UpValues, u # w
          PROVE  upvalue'[u] = upvalue[u] /\ (Opened(upvalue, u) => upvalue[u].ref <= t - 1)
      <4>1. Opened(upvalue, u) => upvalue[u].ref # t
        BY <1>6, <3>1, <3>3
      <4> QED
        BY <1>6, <3>2, <3>3, <4>1 DEF CloseAll
    <3>4. /\ upvalue[w].ref > t - 1
          /\ upvalue'[w] = [ref |-> NULL, value |-> stack[upvalue[w].ref]]
      BY <3>1, <3>2 DEF CloseAll
    <3> QED
      BY <3>1, <3>3, <3>4 DEF Closes
  <2>2. CASE ~IsOpenAt(t)
    <3>1. upvalue' = upvalue /\ ~CapturedIn(upvalue, open, t)
      BY <1>3, <1>4, <2>2 DEF CloseUpvalue, Captured, CapturedIn
    <3>2. ASSUME NEW u \in UpValues, Opened(upvalue, u)
          PROVE  upvalue[u].ref <= t - 1
      BY <1>6, <3>1, <3>2
    <3> QED
      BY <3>1, <3>2 DEF Closes
  <2> QED
    BY <2>1, <2>2
<1>8. /\ Sound(stack, upvalue, open) /\ Sound(stack', upvalue', open')
      /\ MemCells = CellsIn(stack, upvalue, open) /\ MemBox = BoxIn(stack, upvalue)
      /\ MemCells' = CellsIn(stack', upvalue', open') /\ MemBox' = BoxIn(stack', upvalue')
  BY <1>1, Now, Afterwards
<1>9. t - 1 \in 0 .. Len(stack) /\ stack' = Lower(stack, t - 1)
  BY <1>1, <1>2, <1>3 DEF Lower, Top
<1>10. MemCells' = Lower(MemCells, t - 1) /\ MemBox' = MemBox
  BY ONLY <1>7, <1>8, <1>9, DropCells
<1> QED
  BY <1>1, <1>2, <1>3, <1>10, OtherIs
     DEF Memory!Discard, Memory!Did, Memory!Keep, MemCells, MemBox, Lower
-----------------------------------------------------------------------------
(* Calls.                                                                  *)

LEMMA CallMap ==
  ASSUME IInv, IInv', status = "running", NEW argc \in 0 .. Top, Call(argc)
  PROVE  Memory!Call(argc) /\ building = NULL /\ Memory!Top = Top
<1>1. /\ Operands(argc + 1) /\ building = NULL /\ op' = Other
      /\ argc + 1 \in Nat /\ argc + 1 <= Top /\ Top \in Nat
  <2>1. Operands(argc + 1) /\ building = NULL /\ op' = Other
    BY DEF Call, Running
  <2>2. Top \in Nat /\ argc + 1 \in Nat
    BY FrameFacts
  <2>3. PICK n \in Nat : n = argc + 1
    BY <2>2
  <2>4. n <= Top
    BY <2>1, <2>3, OperandsApart
  <2> QED
    BY <2>1, <2>2, <2>3, <2>4
<1>2. PICK fn : fn = Peek(argc)
  OBVIOUS
<1>3. /\ Memory!Top = Top /\ Memory!Read(Memory!Top - argc) = fn
      /\ Memory!Operands(argc + 1) /\ Memory!Prototype(fn) = Prototype(fn)
  BY <1>1, <1>2, Now, Bridge DEF Peek, Operands
<1>4. CASE \E reason \in Errors : Fail(reason)
  BY <1>1, <1>3, <1>4, Failed, OtherIs DEF Memory!Call, Memory!Did
<1>5. CASE ~\E reason \in Errors : Fail(reason)
  <2>1. /\ fn \in Callables /\ Arity[Prototype(fn)] = argc
        /\ \/ /\ fn \in Natives
              /\ \E v \in Data : Replace(argc + 1, v)
                                 /\ Continue /\ UNCHANGED <<frames, globals, heap>>
           \/ /\ fn \notin Natives
              /\ frames' = Append(frames, [fn |-> fn, slots |-> FirstSlot(argc)])
              /\ Continue /\ UNCHANGED <<stack, globals, heap>>
    <3>1. {"not callable", "arity", "stack overflow", "native"} \subseteq Errors
      BY DEF Errors
    <3>2. fn \in Callables /\ Arity[Prototype(fn)] = argc /\ ~FramesFull
      BY <1>2, <1>5, <3>1 DEF Call
    <3> QED
      BY <1>2, <1>5, <3>1, <3>2 DEF Call
  <2>2. CASE fn \in Natives
    <3>1. PICK v \in Data : Replace(argc + 1, v) /\ Continue /\ UNCHANGED <<frames, globals, heap>>
      BY <2>1, <2>2
    <3>2. v \in Value /\ UNCHANGED <<upvalue, open, status>>
      BY <3>1, DataUsable DEF Continue, heap
    <3>3. Memory!Replace(argc + 1, v)
      BY <1>1, <3>1, <3>2, Replaced
    <3>4. Memory!Keep
      BY <1>1, <3>1 DEF Memory!Keep, Continue, heap
    <3> QED
      BY <1>1, <1>3, <2>2, <3>3, <3>4, OtherIs
         DEF Memory!Call, Memory!Did, Memory!Data, Data
  <2>3. CASE fn \notin Natives
    <3>1. /\ frames' = Append(frames, [fn |-> fn, slots |-> Top - argc + 1])
          /\ UNCHANGED <<stack, globals, closure, upvalue, open, building, status>>
      BY <1>1, <2>1, <2>3 DEF Continue, heap, FirstSlot
    <3>2. MemCells' = MemCells /\ MemBox' = MemBox
      BY <3>1, Untouched DEF Errors
    <3>3. fn \in Fns \cup Closures
      BY <2>1, <2>3 DEF Callables
    <3> QED
      BY <1>1, <1>3, <2>1, <3>1, <3>2, <3>3, OtherIs
         DEF Memory!Call, Memory!Did, MemCells, MemBox
  <2> QED
    BY <2>2, <2>3
<1> QED
  BY <1>1, <1>3, <1>4, <1>5

LEMMA ReturnMap ==
  ASSUME IInv, IInv', status = "running", Return
  PROVE  Memory!Return /\ building = NULL
<1>1. op' = Other /\ building = NULL
  BY DEF Return, Running
<1>2. CASE Len(frames) = 1
  <2>1. /\ status' = "done" /\ frames' = <<>>
        /\ UNCHANGED <<stack, globals, closure, upvalue, open, building>>
    BY <1>2 DEF Return, heap
  <2>2. MemCells' = MemCells /\ MemBox' = MemBox
    BY <2>1, Untouched DEF Errors
  <2> QED
    BY <1>1, <1>2, <2>1, <2>2, OtherIs DEF Memory!Return, Memory!Did, MemCells, MemBox
<1>3. CASE Len(frames) # 1
  <2>1. PICK n, v : n = Frame.slots /\ v = Peek(0)
    OBVIOUS
  <2>2. /\ Operands(1) /\ stack' = Append(SubSeq(stack, 1, n - 2), v)
        /\ CloseAll({open[i] : i \in 1 .. Dying})
        /\ frames' = SubSeq(frames, 1, Len(frames) - 1)
        /\ UNCHANGED <<globals, closure, building, status>>
    BY <1>3, <2>1 DEF Return
  <2>3. /\ Top \in Nat /\ Top >= 1 /\ n \in Nat /\ n - 1 \in 1 .. Top /\ ~Captured(n - 1)
        /\ Memory!Operands(1) /\ Memory!Top = Top /\ Memory!Read(Top) = v /\ v \in Value
        /\ Memory!Frame = Frame
    <3>1. Len(frames) \in 2 .. Len(frames) /\ Frame = frames[Len(frames)]
      BY <1>3, FrameFacts
    <3>2. n - 1 \in 1 .. Top /\ ~Captured(n - 1)
      BY <2>1, <3>1, CalleeCells
    <3>3. Top \in Nat /\ Top >= 1 /\ Memory!Operands(1)
      BY <2>2, FrameFacts, Now DEF Operands, Cells
    <3> QED
      <4>1. v \in Value
        BY <2>1, <3>3, PeekUsable
      <4>2. Memory!Top = Top /\ Memory!Read(Top) = v /\ Memory!Frame = Frame
        BY <2>1, <3>3, Now, Bridge DEF Peek
      <4>3. n \in Nat
        BY <2>1, FrameFacts
      <4> QED
        BY <3>2, <3>3, <4>1, <4>2, <4>3
  <2>4. /\ Dying \in 0 .. Len(open)
        /\ \A j \in 1 .. Dying : Ref(j) >= n
        /\ \A j \in Dying + 1 .. Len(open) : Ref(j) < n
    BY <2>1, DyingCloses, FrameFacts DEF IInv
  <2>5. /\ Len(open) \in Nat
        /\ \A j \in 1 .. Len(open) : open[j] \in UpValues /\ IsOpen(open[j]) /\ Ref(j) \in Nat
    BY OpenRefs DEF IInv
  <2>6. Closes(stack, upvalue, n - 2, upvalue')
    <3> SUFFICES ASSUME NEW u \in UpValues
                 PROVE  \/ upvalue'[u] = upvalue[u]
                           /\ (Opened(upvalue, u) => upvalue[u].ref <= n - 2)
                        \/ /\ Opened(upvalue, u) /\ upvalue[u].ref > n - 2
                           /\ upvalue'[u] = [ref |-> NULL, value |-> stack[upvalue[u].ref]]
      BY DEF Closes
    <3>1. CASE u \in {open[i] : i \in 1 .. Dying}
      <4>1. PICK i \in 1 .. Dying : open[i] = u
        BY <3>1
      <4>2. Opened(upvalue, u) /\ upvalue[u].ref \in Nat /\ upvalue[u].ref >= n
        BY <2>4, <2>5, <4>1 DEF Ref, IsOpen, Opened
      <4>3. upvalue'[u] = [ref |-> NULL, value |-> stack[upvalue[u].ref]]
        BY <2>2, <3>1 DEF CloseAll
      <4> QED
        BY <2>3, <4>2, <4>3
    <3>2. CASE u \notin {open[i] : i \in 1 .. Dying}
      <4>1. upvalue'[u] = upvalue[u]
        BY <2>2, <3>2 DEF CloseAll
      <4>2. ASSUME Opened(upvalue, u)
            PROVE  upvalue[u].ref <= n - 2
        <5>1. PICK j \in 1 .. Len(open) : open[j] = u
          BY <4>2, Now DEF Sound
        <5>2. j \in Dying + 1 .. Len(open)
          BY <2>4, <2>5, <3>2, <5>1
        <5>3. upvalue[u].ref < n /\ upvalue[u].ref \in Nat /\ upvalue[u].ref # n - 1
          BY <2>3, <2>4, <2>5, <5>1, <5>2 DEF Ref, Captured
        <5> QED
          BY <2>3, <5>3
      <4> QED
        BY <4>1, <4>2
    <3> QED
      BY <3>1, <3>2
  <2>7. /\ Sound(stack, upvalue, open) /\ Sound(stack', upvalue', open')
        /\ MemCells = CellsIn(stack, upvalue, open) /\ MemBox = BoxIn(stack, upvalue)
        /\ MemCells' = CellsIn(stack', upvalue', open') /\ MemBox' = BoxIn(stack', upvalue')
    BY <2>2, Now, Afterwards
  <2>8. n - 2 \in 0 .. Len(stack) /\ stack' = Put(stack, n - 2, v) /\ v \in Value
    BY <2>2, <2>3 DEF Put, Top
  <2>9. MemCells' = Put(MemCells, n - 2, v) /\ MemBox' = MemBox
    BY ONLY <2>6, <2>7, <2>8, PutCell
  <2> QED
    BY <1>1, <1>3, <2>1, <2>2, <2>3, <2>9, OtherIs
       DEF Memory!Return, Memory!Did, MemCells, MemBox, Put, CloseAll
<1> QED
  BY <1>2, <1>3
-----------------------------------------------------------------------------
(* getUpValue, setUpValue and the moves that close upvalues cannot be told *)
(* from boxes that frames and closures share.                              *)
THEOREM UpvaluesAreBoxes == Spec => ImplementsBoxes
<1>1. Init => Memory!Init
  <2> SUFFICES ASSUME Init PROVE Memory!Init
    OBVIOUS
  <2>1. MemCells = <<>>
    BY DEF Init, MemCells, Top
  <2>2. MemBox = [u \in UpValues |-> NULL]
    BY DEF Init, MemBox
  <2> QED
    BY <2>1, <2>2, OtherIs DEF Init, Memory!Init, MemCells, MemBox
<1>2. IInv /\ IInv' /\ [Next]_vars => [Memory!Next]_(Memory!vars)
  <2> SUFFICES ASSUME IInv, IInv', [Next]_vars
               PROVE  Memory!Next \/ UNCHANGED Memory!vars
    OBVIOUS
  <2>1. CASE UNCHANGED vars
    BY <2>1 DEF vars, Memory!vars, Top, Captured, VariableBox, IsOpen, GetUpValue
  <2>2. CASE Next
    <3>1. status = "running"
      BY <2>2 DEF Next
    <3>2. ASSUME NEW v \in Data, PushConst(v)
          PROVE  Memory!Compute /\ building = NULL
      BY <3>1, <3>2, ValuesMap
    <3>3. ASSUME NEW n \in 1 .. 2, NEW v \in Data, NumberOp(n, v) \/ AnyOp(n, v)
          PROVE  Memory!Compute /\ building = NULL
      BY <3>1, <3>3, ValuesMap
    <3>4. ASSUME NEW slot \in Slots, LoadLocal(slot) \/ (Cells(1) /\ StoreLocal(slot))
          PROVE  /\ slot \in 0 .. Memory!Top - Memory!Frame.slots /\ building = NULL
                 /\ Memory!LoadLocal(slot) \/ Memory!StoreLocal(slot)
      BY <3>1, <3>4, LocalsMap, Now, Bridge DEF Slots
    <3>5. ASSUME NEW i \in UpvalueIndices, LoadUpvalue(i) \/ StoreUpvalue(i)
          PROVE  /\ Memory!Frame.fn \in Closures /\ building = NULL
                 /\ i \in DOMAIN closure[Memory!Frame.fn].upvalues
                 /\ Memory!LoadUpvalue(i) \/ Memory!StoreUpvalue(i)
      BY <3>1, <3>5, UpvaluesMap, Bridge
    <3>6. ASSUME NEW argc \in 0 .. Top, Call(argc)
          PROVE  argc \in 0 .. Memory!Top /\ Memory!Call(argc) /\ building = NULL
      BY <3>1, <3>6, CallMap
    <3>7. CASE \E v \in Data : PushConst(v)
      BY <3>1, <3>2, <3>7 DEF Memory!Next, Memory!Instruction
    <3>8. CASE \E n \in 1 .. 2, v \in Data : NumberOp(n, v) \/ AnyOp(n, v)
      BY <3>1, <3>3, <3>8 DEF Memory!Next, Memory!Instruction
    <3>9. CASE Pop \/ CloseUpvalue
      BY <3>1, <3>9, PopMap, CloseUpvalueMap DEF Memory!Next, Memory!Instruction
    <3>10. CASE \E g \in Globals : DefineGlobal(g) \/ LoadGlobal(g) \/ StoreGlobal(g)
      BY <3>1, <3>10, GlobalsMap DEF Memory!Next, Memory!Instruction
    <3>11. CASE \E slot \in Slots : LoadLocal(slot) \/ (Cells(1) /\ StoreLocal(slot))
      BY <3>1, <3>4, <3>11 DEF Memory!Next, Memory!Instruction
    <3>12. CASE \E i \in UpvalueIndices : LoadUpvalue(i) \/ StoreUpvalue(i)
      BY <3>1, <3>5, <3>12 DEF Memory!Next, Memory!Instruction
    <3>13. CASE \E f \in Fns : Declares(f) /\ (PushFunction(f) \/ BeginClosure(f))
      BY <3>1, <3>13, PushFunctionMap, BeginClosureMap DEF Memory!Next, Memory!Instruction
    <3>14. CASE CaptureLocal \/ CaptureUpvalue \/ EndClosure
      BY <3>1, <3>14, CaptureLocalMap, CaptureUpvalueMap, EndClosureMap DEF Memory!Next
    <3>15. CASE \E argc \in 0 .. Top : Call(argc)
      BY <3>1, <3>6, <3>15 DEF Memory!Next, Memory!Instruction
    <3>16. CASE Return
      BY <3>1, <3>16, ReturnMap DEF Memory!Next, Memory!Instruction
    <3> QED
      BY <2>2, <3>7, <3>8, <3>9, <3>10, <3>11, <3>12, <3>13, <3>14, <3>15, <3>16 DEF Next
  <2> QED
    BY <2>1, <2>2
<1> QED
  BY <1>1, <1>2, Invariance, PTL DEF Spec, ImplementsBoxes, Memory!Spec
=============================================================================
