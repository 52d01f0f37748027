------------------------------ MODULE VM_proofs ------------------------------
(***************************************************************************)
(* Proofs about VM, for any program that keeps the contract of compiled    *)
(* code, any number of frames, cells, closures and upvalues.               *)
(*                                                                         *)
(* What the machine never checks rests on one another: an upvalue operand  *)
(* is in bounds because only complete closures run, those are what the     *)
(* stack, the globals and the upvalues can hold, and they hold what they   *)
(* held because callees are never captured cells, no open upvalue refers   *)
(* to a cell that is gone, and the list of open upvalues is sorted.        *)
(***************************************************************************)
EXTENDS VM, Basics, SequenceTheorems, TLAPS

-----------------------------------------------------------------------------
(* Sequences that lose, gain or change a member.                           *)

LEMMA Upper ==
  ASSUME NEW S, NEW s \in Seq(S), NEW n \in 0 .. Len(s)
  PROVE  /\ SubSeq(s, n + 1, Len(s)) \in Seq(S)
         /\ Len(SubSeq(s, n + 1, Len(s))) = Len(s) - n
         /\ \A i \in 1 .. Len(s) - n : SubSeq(s, n + 1, Len(s))[i] = s[n + i]
<1>1. n + 1 \in Int /\ Len(s) \in Int /\ \A i \in n + 1 .. Len(s) : s[i] \in S
  OBVIOUS
<1>2. /\ SubSeq(s, n + 1, Len(s)) \in Seq(S)
      /\ Len(SubSeq(s, n + 1, Len(s))) =
           IF n + 1 <= Len(s) THEN Len(s) - (n + 1) + 1 ELSE 0
      /\ \A i \in 1 .. Len(s) - (n + 1) + 1 :
            SubSeq(s, n + 1, Len(s))[i] = s[(n + 1) + i - 1]
  BY <1>1, SubSeqProperties
<1> QED
  BY <1>1, <1>2

(* A node enters a list before its i-th.                                   *)
Insert(s, i, u) == SubSeq(s, 1, i - 1) \o <<u>> \o SubSeq(s, i, Len(s))

LEMMA Inserted ==
  ASSUME NEW S, NEW s \in Seq(S), NEW i \in 1 .. Len(s) + 1, NEW u \in S
  PROVE  /\ Insert(s, i, u) \in Seq(S) /\ Len(Insert(s, i, u)) = Len(s) + 1
         /\ Insert(s, i, u)[i] = u
         /\ \A j \in 1 .. i - 1 : Insert(s, i, u)[j] = s[j]
         /\ \A j \in i .. Len(s) : Insert(s, i, u)[j + 1] = s[j]
<1> DEFINE low == SubSeq(s, 1, i - 1)
           front == low \o <<u>>
           high == SubSeq(s, i, Len(s))
           all == front \o high
<1>1. i - 1 \in 0 .. Len(s) /\ i - 1 + 1 = i
  OBVIOUS
<1>2. low \in Seq(S) /\ Len(low) = i - 1 /\ \A j \in 1 .. i - 1 : low[j] = s[j]
  BY <1>1, Shorter
<1>3. /\ high \in Seq(S) /\ Len(high) = Len(s) - (i - 1)
      /\ \A j \in 1 .. Len(s) - (i - 1) : high[j] = s[i - 1 + j]
  BY <1>1, Upper
<1> HIDE DEF low, high
<1>4. /\ front \in Seq(S) /\ Len(front) = i
      /\ front[i] = u /\ \A j \in 1 .. i - 1 : front[j] = s[j]
  BY <1>1, <1>2
<1> HIDE DEF front
<1>5. /\ all \in Seq(S) /\ Len(all) = Len(front) + Len(high)
      /\ \A j \in 1 .. Len(front) + Len(high) :
            all[j] = IF j <= Len(front) THEN front[j] ELSE high[j - Len(front)]
  BY <1>3, <1>4, ConcatProperties
<1> HIDE DEF all
<1>6. ASSUME NEW j \in i .. Len(s)
      PROVE  all[j + 1] = s[j]
  <2>1. j + 1 \in 1 .. Len(front) + Len(high) /\ ~ (j + 1 <= i)
    BY <1>3, <1>4
  <2>2. all[j + 1] = high[j + 1 - i]
    BY <1>4, <1>5, <2>1
  <2>3. j + 1 - i \in 1 .. Len(s) - (i - 1) /\ i - 1 + (j + 1 - i) = j
    OBVIOUS
  <2> QED
    BY <1>3, <2>2, <2>3
<1>7. Len(all) = Len(s) + 1 /\ all[i] = u /\ \A j \in 1 .. i - 1 : all[j] = s[j]
  BY <1>3, <1>4, <1>5
<1> QED
  BY <1>5, <1>6, <1>7 DEF all, front, low, high, Insert

(* The i-th node leaves a list.                                            *)
Remove(s, i) == SubSeq(s, 1, i - 1) \o SubSeq(s, i + 1, Len(s))

LEMMA Removed ==
  ASSUME NEW S, NEW s \in Seq(S), NEW i \in 1 .. Len(s)
  PROVE  /\ Remove(s, i) \in Seq(S) /\ Len(Remove(s, i)) = Len(s) - 1
         /\ \A j \in 1 .. i - 1 : Remove(s, i)[j] = s[j]
         /\ \A j \in i .. Len(s) - 1 : Remove(s, i)[j] = s[j + 1]
<1> DEFINE low == SubSeq(s, 1, i - 1)
           high == SubSeq(s, i + 1, Len(s))
           all == low \o high
<1>1. i - 1 \in 0 .. Len(s) /\ i \in 0 .. Len(s)
  OBVIOUS
<1>2. low \in Seq(S) /\ Len(low) = i - 1 /\ \A j \in 1 .. i - 1 : low[j] = s[j]
  BY <1>1, Shorter
<1>3. /\ high \in Seq(S) /\ Len(high) = Len(s) - i
      /\ \A j \in 1 .. Len(s) - i : high[j] = s[i + j]
  BY <1>1, Upper
<1> HIDE DEF low, high
<1>4. /\ all \in Seq(S) /\ Len(all) = Len(low) + Len(high)
      /\ \A j \in 1 .. Len(low) + Len(high) :
            all[j] = IF j <= Len(low) THEN low[j] ELSE high[j - Len(low)]
  BY <1>2, <1>3, ConcatProperties
<1> HIDE DEF all
<1>5. ASSUME NEW j \in i .. Len(s) - 1
      PROVE  all[j] = s[j + 1]
  <2>1. j \in 1 .. Len(low) + Len(high) /\ ~ (j <= i - 1)
    BY <1>2, <1>3
  <2>2. all[j] = high[j - (i - 1)]
    BY <1>2, <1>4, <2>1
  <2>3. j - (i - 1) \in 1 .. Len(s) - i /\ i + (j - (i - 1)) = j + 1
    OBVIOUS
  <2> QED
    BY <1>3, <2>2, <2>3
<1>6. Len(all) = Len(s) - 1
  BY <1>2, <1>3, <1>4
<1>7. ASSUME NEW j \in 1 .. i - 1
      PROVE  all[j] = s[j]
  <2>1. j \in 1 .. Len(low) + Len(high) /\ j <= Len(low)
    BY <1>2, <1>3
  <2> QED
    BY <1>2, <1>4, <2>1
<1> QED
  BY <1>4, <1>5, <1>6, <1>7 DEF all, low, high, Remove

-----------------------------------------------------------------------------
(* The inductive invariant.                                                *)

LEMMA Apart ==
  /\ Fns \cap Closures = {} /\ Natives \cap (Fns \cup Closures) = {}
  /\ Data \cap Callables = {} /\ Value \cap UpValues = {}
  /\ Script \notin Value /\ NULL \notin Value /\ NULL # Script
<1> DEFINE kinds == <<Numbers, Others, Fns, Natives, Closures, UpValues, {Script}>>
<1>1. \A i, j \in 1 .. 7 : i # j => kinds[i] \cap kinds[j] = {}
  BY ValueAssumption
<1> HIDE DEF kinds
<1>2. /\ kinds[1] = Numbers /\ kinds[2] = Others /\ kinds[3] = Fns /\ kinds[4] = Natives
      /\ kinds[5] = Closures /\ kinds[6] = UpValues /\ kinds[7] = {Script}
  BY DEF kinds
<1>3. /\ Fns \cap Closures = {} /\ Natives \cap Fns = {} /\ Natives \cap Closures = {}
      /\ Numbers \cap Fns = {} /\ Numbers \cap Natives = {} /\ Numbers \cap Closures = {}
      /\ Others \cap Fns = {} /\ Others \cap Natives = {} /\ Others \cap Closures = {}
  BY <1>1, <1>2
<1>4. /\ Numbers \cap UpValues = {} /\ Others \cap UpValues = {} /\ Fns \cap UpValues = {}
      /\ Natives \cap UpValues = {} /\ Closures \cap UpValues = {}
      /\ Numbers \cap {Script} = {} /\ Others \cap {Script} = {} /\ Fns \cap {Script} = {}
      /\ Natives \cap {Script} = {} /\ Closures \cap {Script} = {}
  BY <1>1, <1>2
<1>5. NULL \notin Value /\ NULL # Script
  BY ValueAssumption
<1> QED
  BY <1>3, <1>4, <1>5 DEF Value, Data, Callables

(* The nodes of the list are open upvalues, also after an error.           *)
Ref(i) == upvalue[open[i]].ref
OpenTyped == \A i \in DOMAIN open : IsOpen(open[i])

(* What a variable can hold: a function only if it captures nothing, a     *)
(* closure only when it is complete.                                       *)
Usable(v) == /\ v \in Fns => Captures[v] = <<>>
             /\ v \in Closures => closure[v] # NULL /\ v # building

ValuesUsable ==
  /\ \A i \in DOMAIN stack : Usable(stack[i])
  /\ \A g \in Globals : Usable(globals[g])
  /\ \A u \in UpValues : upvalue[u] # NULL => Usable(upvalue[u].value)

(* FramesNested for any two frames, and what keeps it: the cell of a       *)
(* callee is not captured, so no closure assigns to it.                    *)
FramesOK ==
  /\ frames # <<>> /\ frames[1] = [fn |-> Script, slots |-> 1]
  /\ \A i \in 2 .. Len(frames) :
        /\ frames[i].slots - 1 <= Top
        /\ stack[frames[i].slots - 1] = frames[i].fn
        /\ ~Captured(frames[i].slots - 1)
  /\ \A i, j \in DOMAIN frames :
        i < j => frames[j].slots > frames[i].slots + Parameters(frames[i].fn)
  /\ Top >= Frame.slots + Parameters(Frame.fn) - 1

(* The closure OP_CLOSURE is filling is one the running code declares.     *)
BuildingOK ==
  building # NULL =>
    /\ closure[building] # NULL
    /\ Declares(closure[building].prototype)
    /\ Len(closure[building].upvalues) <= Len(Captures[closure[building].prototype])

Always == TypeOK /\ OpenTyped /\ OpenSorted /\ ClosuresComplete /\ UpvaluesInBounds
WhileRunning == FramesOK /\ OpenLive /\ ValuesUsable /\ BuildingOK
IInv == Always /\ (status = "running" => WhileRunning)

LEMMA InitInv == Init => IInv
<1> SUFFICES ASSUME Init PROVE IInv
  OBVIOUS
<1>1. TypeOK
  <2>1. frames \in Seq([fn : Fns \cup Closures \cup {Script}, slots : Nat \ {0}])
    BY DEF Init
  <2>2. globals \in [Globals -> Value \cup {NULL}]
    BY CodeAssumption DEF Init, Value, Callables
  <2> QED
    BY <2>1, <2>2, BoundAssumption DEF Init, TypeOK
<1>2. OpenTyped /\ OpenSorted /\ ClosuresComplete /\ UpvaluesInBounds
  BY DEF Init, OpenTyped, OpenSorted, ClosuresComplete, UpvaluesInBounds
<1>3. FramesOK
  BY DEF Init, FramesOK, Top, Frame, Parameters
<1>4. OpenLive /\ BuildingOK
  BY DEF Init, OpenLive, IsOpen, BuildingOK
<1>5. ValuesUsable
  BY CodeAssumption, Apart DEF Init, ValuesUsable, Usable, Value, Callables
<1> QED
  BY <1>1, <1>2, <1>3, <1>4, <1>5 DEF IInv, Always, WhileRunning
-----------------------------------------------------------------------------
(* The list of open upvalues.                                              *)

LEMMA OpenRefs ==
  ASSUME Always
  PROVE  /\ open \in Seq(UpValues) /\ Len(open) \in Nat /\ DOMAIN open = 1 .. Len(open)
         /\ \A i \in 1 .. Len(open) :
               /\ open[i] \in UpValues /\ IsOpen(open[i])
               /\ Ref(i) \in Nat \ {0} /\ upvalue[open[i]].value = NULL
         /\ \A i, j \in 1 .. Len(open) : i < j => Ref(i) > Ref(j)
<1>1. open \in Seq(UpValues) /\ Len(open) \in Nat /\ DOMAIN open = 1 .. Len(open)
  BY DEF Always, TypeOK
<1>2. \A i \in 1 .. Len(open) : open[i] \in UpValues /\ IsOpen(open[i])
  BY <1>1 DEF Always, OpenTyped
<1>3. \A u \in UpValues :
         IsOpen(u) => upvalue[u].ref \in Nat \ {0} /\ upvalue[u].value = NULL
  BY DEF IsOpen, Always, TypeOK, UpValueObject
<1> QED
  BY <1>1, <1>2, <1>3 DEF Always, OpenSorted, Ref

(* The walk for a cell passes the nodes above it; whether it ends at an    *)
(* open upvalue of the cell tells whether there is one.                    *)
LEMMA PositionFinds ==
  ASSUME Always, NEW a \in Nat
  PROVE  /\ Position(a) \in 1 .. Len(open) + 1
         /\ \A j \in 1 .. Position(a) - 1 : Ref(j) > a
         /\ \A j \in Position(a) .. Len(open) : Ref(j) <= a
         /\ \A j \in Position(a) + 1 .. Len(open) : Ref(j) < a
         /\ IsOpenAt(a) <=> Position(a) <= Len(open) /\ Ref(Position(a)) = a
         /\ IsOpenAt(a) <=> Captured(a)
<1> DEFINE ends == {i \in 1 .. Len(open) + 1 : i <= Len(open) => Ref(i) <= a}
<1>1. /\ Len(open) \in Nat /\ DOMAIN open = 1 .. Len(open)
      /\ \A i \in 1 .. Len(open) : Ref(i) \in Nat
      /\ \A i, j \in 1 .. Len(open) : i < j => Ref(i) > Ref(j)
  BY OpenRefs
<1>2. Len(open) + 1 \in ends /\ ends \subseteq Nat
  BY <1>1
<1>3. PICK d \in ends : \A e \in ends : d <= e
  BY <1>2, LeastExists
<1>4. /\ d \in 1 .. Len(open) + 1 /\ (d <= Len(open) => Ref(d) <= a)
      /\ \A j \in 1 .. d - 1 : Ref(j) > a
  <2>1. ASSUME NEW j \in 1 .. d - 1
        PROVE  Ref(j) > a
    <3>1. j \in 1 .. Len(open) /\ j \notin ends
      BY <1>1, <1>3
    <3> QED
      BY <1>1, <3>1
  <2> QED
    BY <1>3, <2>1
<1> DEFINE Stops(i) == /\ i <= Len(open) => Ref(i) <= a
                       /\ \A j \in 1 .. i - 1 : Ref(j) > a
<1>5. Position(a) = CHOOSE i \in 1 .. Len(open) + 1 : Stops(i)
  BY DEF Position, Ref
<1>6. \E i \in 1 .. Len(open) + 1 : Stops(i)
  BY <1>4
<1> HIDE DEF Stops, ends
<1>7. Position(a) \in 1 .. Len(open) + 1 /\ Stops(Position(a))
  BY <1>5, <1>6
<1>8. /\ \A j \in Position(a) .. Len(open) : Ref(j) <= a
      /\ \A j \in Position(a) + 1 .. Len(open) : Ref(j) < a
  BY <1>1, <1>7 DEF Stops
<1>9. IsOpenAt(a) <=> Position(a) <= Len(open) /\ Ref(Position(a)) = a
  BY DEF IsOpenAt, Ref
<1>10. Captured(a) <=> \E i \in 1 .. Len(open) : Ref(i) = a
  BY <1>1 DEF Captured, Ref
<1>11. ASSUME NEW i \in 1 .. Len(open), Ref(i) = a
       PROVE  i = Position(a)
  BY <1>1, <1>7, <1>8, <1>11 DEF Stops
<1>12. IsOpenAt(a) <=> Captured(a)
  BY <1>7, <1>9, <1>10, <1>11
<1> QED
  BY <1>7, <1>8, <1>9, <1>12 DEF Stops

(* The upvalues that die with a frame are the leading ones of the list.    *)
LEMMA DyingCloses ==
  ASSUME Always, Frame.slots \in Nat
  PROVE  /\ Dying \in 0 .. Len(open)
         /\ \A j \in 1 .. Dying : Ref(j) >= Frame.slots
         /\ \A j \in Dying + 1 .. Len(open) : Ref(j) < Frame.slots
<1> DEFINE ends == {n \in 0 .. Len(open) : n < Len(open) => Ref(n + 1) < Frame.slots}
           Stops(n) == /\ \A i \in 1 .. n : Ref(i) >= Frame.slots
                       /\ n < Len(open) => Ref(n + 1) < Frame.slots
<1>1. /\ Len(open) \in Nat
      /\ \A i \in 1 .. Len(open) : Ref(i) \in Nat
      /\ \A i, j \in 1 .. Len(open) : i < j => Ref(i) > Ref(j)
  BY OpenRefs
<1>2. Len(open) \in ends /\ ends \subseteq Nat
  BY <1>1
<1>3. PICK d \in ends : \A e \in ends : d <= e
  BY <1>2, LeastExists
<1>4. ASSUME NEW i \in 1 .. d
      PROVE  Ref(i) >= Frame.slots
  <2>1. d \in 0 .. Len(open)
    BY <1>3
  <2>2. i - 1 \in 0 .. Len(open) /\ ~ (d <= i - 1) /\ i - 1 + 1 = i
    BY <1>1, <2>1
  <2>3. i - 1 \notin ends
    BY <1>3, <2>2
  <2> QED
    BY <1>1, <2>1, <2>2, <2>3
<1>5. d \in 0 .. Len(open) /\ Stops(d)
  BY <1>3, <1>4
<1>6. Dying = CHOOSE n \in 0 .. Len(open) : Stops(n)
  BY DEF Dying, Ref
<1> HIDE DEF Stops, ends
<1>7. Dying \in 0 .. Len(open) /\ Stops(Dying)
  BY <1>5, <1>6
<1> QED
  BY <1>1, <1>7 DEF Stops
-----------------------------------------------------------------------------
(* Steps that fail and steps that leave frames and closures alone.         *)

LEMMA FailInv ==
  ASSUME IInv, status = "running", NEW reason \in Errors \ {"upvalue"}, Fail(reason)
  PROVE  IInv'
<1>1. /\ status' = reason /\ stack' = <<>> /\ frames' = SubSeq(frames, 1, 1)
      /\ building' = NULL /\ UNCHANGED <<globals, closure, upvalue, open>>
  BY DEF Fail, Abort, heap
<1>2. reason # "running" /\ reason # "done" /\ reason # "upvalue"
  BY DEF Errors
<1>3. TypeOK'
  <2>1. frames # <<>>
    BY DEF IInv, Always, TypeOK
  <2>2. /\ frames' \in Seq([fn : Fns \cup Closures \cup {Script}, slots : Nat \ {0}])
        /\ Len(frames') = 1
    <3>1. /\ frames \in Seq([fn : Fns \cup Closures \cup {Script}, slots : Nat \ {0}])
          /\ 1 \in 0 .. Len(frames)
      BY <2>1 DEF IInv, Always, TypeOK
    <3> QED
      BY <1>1, <3>1, Shorter
  <2> QED
    BY <1>1, <2>2, BoundAssumption DEF IInv, Always, TypeOK
<1>4. OpenTyped' /\ OpenSorted' /\ UpvaluesInBounds'
  BY <1>1, <1>2 DEF IInv, Always, OpenTyped, IsOpen, OpenSorted, UpvaluesInBounds
<1>5. ClosuresComplete'
  BY <1>1, <1>2 DEF IInv, Always, ClosuresComplete
<1> QED
  BY <1>1, <1>2, <1>3, <1>4, <1>5 DEF IInv, Always

(* The facts about the running frame that the steps use.                   *)
LEMMA FrameFacts ==
  ASSUME IInv, status = "running"
  PROVE  /\ Top \in Nat /\ DOMAIN stack = 1 .. Top
         /\ Len(frames) \in Nat \ {0} /\ DOMAIN frames = 1 .. Len(frames)
         /\ \A i \in 1 .. Len(frames) :
               /\ frames[i] \in [fn : Fns \cup Closures \cup {Script}, slots : Nat \ {0}]
               /\ frames[i].slots <= Frame.slots
               /\ frames[i].fn # Script => Usable(frames[i].fn)
               /\ Parameters(frames[i].fn) \in Nat
         /\ Frame = frames[Len(frames)] /\ Frame.slots \in Nat \ {0}
         /\ Parameters(Frame.fn) \in Nat
         /\ Top >= Frame.slots + Parameters(Frame.fn) - 1
<1>1. /\ Top \in Nat /\ DOMAIN stack = 1 .. Top
      /\ Len(frames) \in Nat \ {0} /\ DOMAIN frames = 1 .. Len(frames)
  <2>1. frames # <<>>
    BY DEF IInv, Always, TypeOK
  <2> QED
    BY <2>1 DEF IInv, Always, TypeOK, Top
<1>2. \A i \in 1 .. Len(frames) :
        frames[i] \in [fn : Fns \cup Closures \cup {Script}, slots : Nat \ {0}]
  <2> DEFINE Record == [fn : Fns \cup Closures \cup {Script}, slots : Nat \ {0}]
  <2>1. frames \in Seq(Record)
    BY DEF IInv, Always, TypeOK
  <2> HIDE DEF Record
  <2>2. \A i \in 1 .. Len(frames) : frames[i] \in Record
    BY <2>1
  <2> QED
    BY <2>2 DEF Record
<1>3. ASSUME NEW i \in 1 .. Len(frames), frames[i].fn # Script
      PROVE  Usable(frames[i].fn)
  <2>1. i # 1
    BY <1>3 DEF IInv, WhileRunning, FramesOK
  <2>2. /\ frames[i].slots - 1 <= Top /\ stack[frames[i].slots - 1] = frames[i].fn
        /\ frames[i].slots > frames[1].slots + Parameters(frames[1].fn)
        /\ frames[1] = [fn |-> Script, slots |-> 1]
    BY <1>1, <2>1 DEF IInv, WhileRunning, FramesOK
  <2>3. frames[1].slots = 1 /\ Parameters(frames[1].fn) = 0
    BY <2>2 DEF Parameters
  <2>4. frames[i].slots - 1 \in DOMAIN stack
    BY <1>1, <1>2, <2>2, <2>3
  <2> QED
    BY <2>2, <2>4 DEF IInv, WhileRunning, ValuesUsable
<1>4. ASSUME NEW i \in 1 .. Len(frames)
      PROVE  Parameters(frames[i].fn) \in Nat
  <2>1. frames[i].fn \in Fns \cup Closures \cup {Script}
    BY <1>2
  <2>2. ASSUME frames[i].fn \in Closures
        PROVE  closure[frames[i].fn] \in ClosureObject
    BY <1>3, <2>2, Apart DEF Usable, Value, Callables, IInv, Always, TypeOK
  <2>3. frames[i].fn # Script => Prototype(frames[i].fn) \in Fns
    BY <2>1, <2>2 DEF Prototype, ClosureObject
  <2> QED
    BY <2>3, CodeAssumption DEF Parameters
<1>5. \A i \in 1 .. Len(frames) : frames[i].slots <= Frame.slots
  <2>1. ASSUME NEW i \in 1 .. Len(frames), i < Len(frames)
        PROVE  frames[i].slots <= Frame.slots
    <3>1. Frame.slots > frames[i].slots + Parameters(frames[i].fn)
      BY <1>1, <2>1 DEF IInv, WhileRunning, FramesOK, Frame
    <3> QED
      BY <1>1, <1>2, <1>4, <3>1 DEF Frame
  <2> QED
    BY <1>1, <1>2, <2>1 DEF Frame
<1>6. Top >= Frame.slots + Parameters(Frame.fn) - 1
  BY DEF IInv, WhileRunning, FramesOK
<1> QED
  BY <1>1, <1>2, <1>3, <1>4, <1>5, <1>6 DEF Frame

(* Below the cells of every frame but the first is its callee.             *)
LEMMA CalleeCells ==
  ASSUME IInv, status = "running"
  PROVE  /\ \A i \in 2 .. Len(frames) :
               /\ frames[i].slots - 1 \in 1 .. Top /\ frames[i].slots - 1 < Frame.slots
               /\ stack[frames[i].slots - 1] = frames[i].fn /\ ~Captured(frames[i].slots - 1)
         /\ \A i \in 1 .. Top : stack[i] \in Value /\ Usable(stack[i])
<1>1. ASSUME NEW i \in 2 .. Len(frames)
      PROVE  /\ frames[i].slots - 1 \in 1 .. Top /\ frames[i].slots - 1 < Frame.slots
             /\ stack[frames[i].slots - 1] = frames[i].fn /\ ~Captured(frames[i].slots - 1)
  <2>1. 1 \in DOMAIN frames /\ i \in DOMAIN frames /\ 1 < i /\ i \in 1 .. Len(frames)
    BY FrameFacts
  <2>2. /\ frames[i].slots > frames[1].slots + Parameters(frames[1].fn)
        /\ frames[1] = [fn |-> Script, slots |-> 1]
        /\ stack[frames[i].slots - 1] = frames[i].fn /\ ~Captured(frames[i].slots - 1)
        /\ frames[i].slots - 1 <= Top
    BY <2>1 DEF IInv, WhileRunning, FramesOK
  <2>3. frames[1].slots = 1 /\ Parameters(frames[1].fn) = 0
    BY <2>2 DEF Parameters
  <2>4. frames[i].slots \in Nat /\ frames[i].slots <= Frame.slots
    BY <2>1, FrameFacts
  <2> QED
    BY <2>2, <2>3, <2>4, FrameFacts
<1>2. \A i \in 1 .. Top : stack[i] \in Value /\ Usable(stack[i])
  BY FrameFacts DEF IInv, WhileRunning, ValuesUsable, Always, TypeOK
<1> QED
  BY <1>1, <1>2

(* A step that moves values: on the stack, where it drops no parameter and *)
(* no captured cell and writes over no callee; in the globals; in closed   *)
(* upvalues.  OP_CLOSURE ends with such a step.                            *)
Whole(v) == /\ v \in Fns => Captures[v] = <<>>
            /\ v \in Closures => closure[v] # NULL

Assigned(u) ==
  \/ upvalue'[u] = upvalue[u]
  \/ /\ upvalue[u] # NULL /\ upvalue[u].ref = NULL
     /\ upvalue'[u] \in UpValueObject /\ upvalue'[u].ref = NULL
     /\ Whole(upvalue'[u].value)

LEMMA MoveStep ==
  ASSUME IInv, status = "running", building' = NULL,
         building # NULL => Len(closure[building].upvalues)
                              = Len(Captures[closure[building].prototype]),
         UNCHANGED <<frames, closure, open, status>>,
         stack' \in Seq(Value), \A i \in 1 .. Top' : Whole(stack'[i]),
         Top' >= Frame.slots + Parameters(Frame.fn) - 1,
         \A a \in 1 .. Top : Captured(a) => a <= Top',
         \A i \in 2 .. Len(frames) :
            stack'[frames[i].slots - 1] = stack[frames[i].slots - 1],
         globals' \in [Globals -> Value \cup {NULL}],
         \A g \in Globals : Whole(globals'[g]),
         DOMAIN upvalue' = UpValues, upvalue' = [u \in UpValues |-> upvalue'[u]],
         \A u \in UpValues : Assigned(u)
  PROVE  IInv'
<1>1. /\ Top \in Nat /\ DOMAIN stack = 1 .. Top
      /\ Len(frames) \in Nat \ {0} /\ DOMAIN frames = 1 .. Len(frames)
      /\ Top' \in Nat /\ DOMAIN stack' = 1 .. Top'
  BY FrameFacts DEF Top
<1>2. TypeOK'
  <2>1. upvalue' \in [UpValues -> UpValueObject \cup {NULL}]
    BY DEF Assigned, IInv, Always, TypeOK
  <2> QED
    BY <2>1 DEF IInv, Always, TypeOK
<1>3. \A u \in UpValues : /\ upvalue[u] # NULL <=> upvalue'[u] # NULL
                          /\ upvalue[u] # NULL => upvalue'[u].ref = upvalue[u].ref
  BY ValueAssumption DEF Assigned
<1>4. /\ \A u \in UpValues : IsOpen(u)' <=> IsOpen(u)
      /\ \A i \in DOMAIN open : open[i] \in UpValues /\ upvalue'[open[i]].ref = Ref(i)
      /\ \A i \in DOMAIN open : open[i] \in UpValues /\ upvalue[open[i]].ref = Ref(i)
      /\ \A a : Captured(a)' <=> Captured(a)
  BY <1>3, OpenRefs DEF IInv, IsOpen, Captured, Ref
<1>5. OpenTyped' /\ OpenSorted' /\ UpvaluesInBounds'
  BY <1>3, <1>4, OpenRefs
     DEF IInv, Always, OpenTyped, IsOpen, OpenSorted, UpvaluesInBounds, Ref
<1>6. ClosuresComplete'
  BY <1>3 DEF IInv, Always, ClosuresComplete, TypeOK, ClosureObject
<1>7. FramesOK'
  <2>1. Frame' = Frame /\ \A fn : Parameters(fn)' = Parameters(fn)
    BY DEF Frame, Parameters, Prototype
  <2>2. ASSUME NEW i \in 2 .. Len(frames)
        PROVE  frames[i].slots - 1 <= Top'
    BY <1>1, <2>2, FrameFacts
  <2>3. \A i, j \in DOMAIN frames' :
           i < j => frames'[j].slots > frames'[i].slots + Parameters(frames[i].fn)
    BY DEF IInv, WhileRunning, FramesOK
  <2> QED
    BY <1>4, <2>1, <2>2, <2>3 DEF IInv, WhileRunning, FramesOK
<1>8. OpenLive'
  BY <1>1, <1>4, OpenRefs DEF IInv, WhileRunning, OpenLive, Captured, Ref
<1>9. ValuesUsable' /\ BuildingOK'
  <2>1. \A v : Whole(v) => Usable(v)'
    BY ValueAssumption DEF Usable, Whole, Value, Callables
  <2>2. \A u \in UpValues : upvalue'[u] # NULL => Whole(upvalue'[u].value)
    BY <1>3 DEF Assigned, IInv, WhileRunning, ValuesUsable, Usable, Whole
  <2> QED
    BY <1>1, <2>1, <2>2 DEF ValuesUsable, BuildingOK
<1> QED
  BY <1>2, <1>5, <1>6, <1>7, <1>8, <1>9 DEF IInv, Always, WhileRunning

LEMMA QuietStep ==
  ASSUME IInv, status = "running", building = NULL,
         UNCHANGED <<frames, closure, open, building, status>>,
         stack' \in Seq(Value), \A i \in 1 .. Top' : Usable(stack'[i]),
         Top' >= Frame.slots + Parameters(Frame.fn) - 1,
         \A a \in 1 .. Top : Captured(a) => a <= Top',
         \A i \in 2 .. Len(frames) :
            stack'[frames[i].slots - 1] = stack[frames[i].slots - 1],
         globals' \in [Globals -> Value \cup {NULL}],
         \A g \in Globals : Usable(globals'[g]),
         DOMAIN upvalue' = UpValues, upvalue' = [u \in UpValues |-> upvalue'[u]],
         \A u \in UpValues : Assigned(u)
  PROVE  IInv'
<1>1. \A v : Usable(v) => Whole(v)
  BY DEF Usable, Whole
<1> QED
  BY <1>1, MoveStep

(* n operands make room for a value, or the top cell is dropped.           *)
LEMMA ReplaceInv ==
  ASSUME IInv, status = "running", building = NULL,
         NEW n \in Nat, Operands(n), NEW v \in Value, Usable(v), Replace(n, v),
         UNCHANGED <<frames, globals, heap, building, status>>
  PROVE  IInv'
<1>1. Top - n \in 0 .. Top /\ Top - n >= Frame.slots + Parameters(Frame.fn) - 1
  BY FrameFacts DEF Operands, Cells
<1>2. /\ stack' \in Seq(Value) /\ Top' = Top - n + 1
      /\ \A i \in 1 .. Top - n : stack'[i] = stack[i]
      /\ stack'[Top - n + 1] = v
  <2>1. stack \in Seq(Value) /\ Top - n \in 0 .. Len(stack)
    BY <1>1 DEF IInv, Always, TypeOK, Top
  <2>2. stack' = Append(SubSeq(stack, 1, Top - n), v)
    BY DEF Replace, Drop
  <2>3. /\ stack' \in Seq(Value) /\ Len(stack') = Top - n + 1
        /\ \A i \in 1 .. Top - n : stack'[i] = stack[i]
        /\ stack'[Top - n + 1] = v
    BY <2>1, <2>2, Topped
  <2> QED
    BY <2>3 DEF Top
<1>3. ASSUME NEW i \in 1 .. Top'
      PROVE  Usable(stack'[i])
  <2>1. Top \in Nat
    BY FrameFacts
  <2> QED
    BY <1>1, <1>2, <2>1, CalleeCells
<1>4. \A a \in 1 .. Top : Captured(a) => a <= Top'
  BY <1>1, <1>2, FrameFacts DEF Operands
<1>5. ASSUME NEW i \in 2 .. Len(frames)
      PROVE  stack'[frames[i].slots - 1] = stack[frames[i].slots - 1]
  <2>1. frames[i].slots - 1 \in 1 .. Top - n
    BY <1>1, CalleeCells, FrameFacts, SMTT(30)
  <2> QED
    BY <1>2, <2>1
<1>6. /\ UNCHANGED <<frames, closure, open, building, status>> /\ upvalue' = upvalue
      /\ DOMAIN upvalue' = UpValues /\ upvalue' = [u \in UpValues |-> upvalue'[u]]
      /\ \A u \in UpValues : Assigned(u)
      /\ globals' \in [Globals -> Value \cup {NULL}]
      /\ \A g \in Globals : Usable(globals'[g])
  BY DEF heap, Assigned, IInv, Always, TypeOK, WhileRunning, ValuesUsable
<1>7. Top' >= Frame.slots + Parameters(Frame.fn) - 1
  BY <1>1, <1>2, FrameFacts
<1> QED
  BY <1>2, <1>3, <1>4, <1>5, <1>6, <1>7, QuietStep

LEMMA DropInv ==
  ASSUME IInv, status = "running", building = NULL, Operands(1), stack' = Drop(1),
         UNCHANGED <<frames, heap, building, status>>,
         globals' \in [Globals -> Value \cup {NULL}],
         \A g \in Globals : Usable(globals'[g])
  PROVE  IInv'
<1>1. Top - 1 \in 0 .. Top /\ Top - 1 >= Frame.slots + Parameters(Frame.fn) - 1
  BY FrameFacts DEF Operands, Cells
<1>2. /\ stack' \in Seq(Value) /\ Top' = Top - 1
      /\ \A i \in 1 .. Top - 1 : stack'[i] = stack[i]
  <2>1. stack \in Seq(Value) /\ Top - 1 \in 0 .. Len(stack) /\ stack' = SubSeq(stack, 1, Top - 1)
    BY <1>1 DEF IInv, Always, TypeOK, Top, Drop
  <2>2. /\ stack' \in Seq(Value) /\ Len(stack') = Top - 1
        /\ \A i \in 1 .. Top - 1 : stack'[i] = stack[i]
    BY <2>1, Shorter
  <2> QED
    BY <2>2 DEF Top
<1>3. ASSUME NEW i \in 1 .. Top'
      PROVE  Usable(stack'[i])
  <2>1. Top \in Nat
    BY FrameFacts
  <2> QED
    BY <1>1, <1>2, <2>1, CalleeCells
<1>4. \A a \in 1 .. Top : Captured(a) => a <= Top'
  BY <1>1, <1>2, FrameFacts DEF Operands
<1>5. ASSUME NEW i \in 2 .. Len(frames)
      PROVE  stack'[frames[i].slots - 1] = stack[frames[i].slots - 1]
  <2>1. frames[i].slots - 1 \in 1 .. Top - 1
    BY <1>1, CalleeCells, FrameFacts
  <2> QED
    BY <1>2, <2>1
<1>6. /\ UNCHANGED <<frames, closure, open, building, status>> /\ upvalue' = upvalue
      /\ DOMAIN upvalue' = UpValues /\ upvalue' = [u \in UpValues |-> upvalue'[u]]
      /\ \A u \in UpValues : Assigned(u)
  BY DEF heap, Assigned, IInv, Always, TypeOK
<1>7. Top' >= Frame.slots + Parameters(Frame.fn) - 1
  BY <1>1, <1>2, FrameFacts
<1> QED
  BY <1>2, <1>3, <1>4, <1>5, <1>6, <1>7, QuietStep

(* A value is written into a cell that is no callee's.                     *)
LEMMA AssignCellInv ==
  ASSUME IInv, status = "running", building = NULL,
         NEW a \in 1 .. Top, \A i \in 2 .. Len(frames) : a # frames[i].slots - 1,
         NEW v \in Value, Usable(v), stack' = [stack EXCEPT ![a] = v],
         UNCHANGED <<frames, globals, heap, building, status>>
  PROVE  IInv'
<1>1. stack' \in Seq(Value) /\ Top' = Top /\ \A i \in 1 .. Top : stack'[i] = IF i = a THEN v ELSE stack[i]
  <2>1. stack \in Seq(Value) /\ a \in 1 .. Len(stack)
    BY DEF IInv, Always, TypeOK, Top
  <2>2. /\ stack' \in Seq(Value) /\ Len(stack') = Len(stack)
        /\ \A i \in 1 .. Len(stack) : stack'[i] = IF i = a THEN v ELSE stack[i]
    BY <2>1, ExceptSeq
  <2> QED
    BY <2>2 DEF Top
<1>2. \A i \in 1 .. Top' : Usable(stack'[i])
  BY <1>1, CalleeCells
<1>3. ASSUME NEW i \in 2 .. Len(frames)
      PROVE  stack'[frames[i].slots - 1] = stack[frames[i].slots - 1]
  BY <1>1, CalleeCells
<1>4. /\ UNCHANGED <<frames, closure, open, building, status>> /\ upvalue' = upvalue
      /\ DOMAIN upvalue' = UpValues /\ upvalue' = [u \in UpValues |-> upvalue'[u]]
      /\ \A u \in UpValues : Assigned(u)
      /\ globals' \in [Globals -> Value \cup {NULL}]
      /\ \A g \in Globals : Usable(globals'[g])
  BY DEF heap, Assigned, IInv, Always, TypeOK, WhileRunning, ValuesUsable
<1>5. /\ Top' >= Frame.slots + Parameters(Frame.fn) - 1
      /\ \A b \in 1 .. Top : Captured(b) => b <= Top'
  BY <1>1, FrameFacts
<1> QED
  BY <1>1, <1>2, <1>3, <1>4, <1>5, QuietStep
-----------------------------------------------------------------------------
(* Instructions on values and variables.                                   *)

LEMMA DataUsable ==
  ASSUME NEW v \in Data
  PROVE  v \in Value /\ Usable(v)
BY Apart DEF Value, Callables, Usable

LEMMA NoOperands ==
  ASSUME IInv, status = "running"
  PROVE  Operands(0)
BY FrameFacts DEF Operands, Cells

LEMMA PeekUsable ==
  ASSUME IInv, status = "running", NEW d \in Nat, d < Top
  PROVE  Peek(d) \in Value /\ Usable(Peek(d))
BY FrameFacts, CalleeCells DEF Peek

LEMMA ValuesInv ==
  ASSUME IInv, status = "running",
         \/ \E v \in Data : PushConst(v)
         \/ \E n \in 1 .. 2, v \in Data : NumberOp(n, v) \/ AnyOp(n, v)
         \/ Pop
         \/ \E f \in Fns : PushFunction(f)
  PROVE  IInv'
<1>1. ASSUME NEW v \in Data, PushConst(v)
      PROVE  IInv'
  BY <1>1, NoOperands, DataUsable, ReplaceInv DEF PushConst, Running
<1>2. ASSUME NEW n \in 1 .. 2, NEW v \in Data, NumberOp(n, v)
      PROVE  IInv'
  <2>1. CASE Fail("operands")
    BY <2>1, FailInv DEF Errors
  <2>2. CASE Replace(n, v) /\ Continue /\ UNCHANGED <<frames, globals, heap>>
    BY <1>2, <2>2, DataUsable, ReplaceInv DEF NumberOp, Running, Continue
  <2> QED
    BY <1>2, <2>1, <2>2 DEF NumberOp
<1>3. ASSUME NEW n \in 1 .. 2, NEW v \in Data, AnyOp(n, v)
      PROVE  IInv'
  BY <1>3, DataUsable, ReplaceInv DEF AnyOp, Running
<1>4. ASSUME Pop PROVE IInv'
  BY <1>4, DropInv DEF Pop, Running, IInv, Always, TypeOK, WhileRunning, ValuesUsable
<1>5. ASSUME NEW f \in Fns, PushFunction(f)
      PROVE  IInv'
  <2>1. f \in Value /\ Usable(f)
    BY <1>5, Apart DEF PushFunction, Value, Callables, Usable
  <2> QED
    BY <1>5, <2>1, NoOperands, ReplaceInv DEF PushFunction, Running
<1> QED
  BY <1>1, <1>2, <1>3, <1>4, <1>5

(* The deletion after an assignment to an unknown global leaves the table  *)
(* as it was before the assignment.                                        *)
LEMMA StoreUndone ==
  ASSUME IInv, NEW g \in Globals, StoreGlobal(g), globals[g] = NULL
  PROVE  Fail("unknown variable")
<1>1. globals \in [Globals -> Value \cup {NULL}]
  BY DEF IInv, Always, TypeOK
<1>2. /\ Abort("unknown variable")
      /\ globals' = Deleted([globals EXCEPT ![g] = Peek(0)], g)
  BY DEF StoreGlobal
<1>3. globals' = globals
  BY <1>1, <1>2 DEF Deleted
<1> QED
  BY <1>2, <1>3 DEF Fail

LEMMA GlobalsInv ==
  ASSUME IInv, status = "running", NEW g \in Globals,
         DefineGlobal(g) \/ LoadGlobal(g) \/ StoreGlobal(g)
  PROVE  IInv'
<1>1. ASSUME NEW v \in Value, Usable(v)
      PROVE  /\ [globals EXCEPT ![g] = v] \in [Globals -> Value \cup {NULL}]
             /\ \A x \in Globals : Usable([globals EXCEPT ![g] = v][x])
  BY <1>1 DEF IInv, Always, TypeOK, WhileRunning, ValuesUsable
<1>2. ASSUME Operands(1)
      PROVE  Peek(0) \in Value /\ Usable(Peek(0))
  <2>1. 0 < Top
    BY <1>2, FrameFacts DEF Operands, Cells
  <2> QED
    BY <2>1, PeekUsable
<1>3. ASSUME DefineGlobal(g) PROVE IInv'
  BY <1>1, <1>2, <1>3, DropInv DEF DefineGlobal, Running
<1>4. ASSUME LoadGlobal(g) PROVE IInv'
  <2>1. CASE globals[g] = NULL
    BY <1>4, <2>1, FailInv DEF LoadGlobal, Errors
  <2>2. CASE globals[g] # NULL
    <3>1. globals[g] \in Value /\ Usable(globals[g])
      BY <2>2 DEF IInv, Always, TypeOK, WhileRunning, ValuesUsable
    <3> QED
      BY <1>4, <2>2, <3>1, NoOperands, ReplaceInv DEF LoadGlobal, Running, Continue
  <2> QED
    BY <2>1, <2>2
<1>5. ASSUME StoreGlobal(g) PROVE IInv'
  <2>1. CASE globals[g] = NULL
    <3>1. Fail("unknown variable")
      BY <1>5, <2>1, StoreUndone
    <3> QED
      BY <3>1, FailInv DEF Errors
  <2>2. CASE globals[g] # NULL
    <3>1. /\ building = NULL /\ UNCHANGED <<stack, frames, heap, building, status>>
          /\ globals' = [globals EXCEPT ![g] = Peek(0)] /\ Operands(1)
      BY <1>5, <2>2 DEF StoreGlobal, Running, Continue
    <3>2. /\ globals' \in [Globals -> Value \cup {NULL}]
          /\ \A x \in Globals : Usable(globals'[x])
      BY <1>1, <1>2, <3>1
    <3>3. /\ UNCHANGED <<frames, closure, open, building, status>> /\ upvalue' = upvalue
          /\ DOMAIN upvalue' = UpValues /\ upvalue' = [u \in UpValues |-> upvalue'[u]]
          /\ \A u \in UpValues : Assigned(u)
          /\ stack' \in Seq(Value) /\ stack' = stack /\ Top' = Top
      BY <3>1 DEF heap, Assigned, IInv, Always, TypeOK, Top
    <3> QED
      BY <3>1, <3>2, <3>3, CalleeCells, FrameFacts, QuietStep
  <2> QED
    BY <2>1, <2>2
<1> QED
  BY <1>3, <1>4, <1>5

LEMMA LocalsInv ==
  ASSUME IInv, status = "running", NEW slot \in Slots,
         LoadLocal(slot) \/ (Cells(1) /\ StoreLocal(slot))
  PROVE  IInv'
<1> DEFINE a == Frame.slots + slot
<1>1. a \in 1 .. Top /\ a >= Frame.slots
  BY FrameFacts DEF Slots
<1>2. CASE LoadLocal(slot)
  <2>1. stack[a] \in Value /\ Usable(stack[a])
    BY <1>1, CalleeCells
  <2> QED
    BY <1>2, <2>1, NoOperands, ReplaceInv DEF LoadLocal, Running
<1>3. CASE Cells(1) /\ StoreLocal(slot)
  <2>1. 0 < Top
    BY <1>1, FrameFacts
  <2>2. Peek(0) \in Value /\ Usable(Peek(0))
    BY <2>1, PeekUsable
  <2>3. \A i \in 2 .. Len(frames) : a # frames[i].slots - 1
    <3>1. \A i \in 2 .. Len(frames) : /\ frames[i].slots - 1 \in 1 .. Top
                                      /\ frames[i].slots - 1 < Frame.slots
      BY CalleeCells
    <3>2. Frame.slots \in Nat /\ Top \in Nat
      BY FrameFacts
    <3> HIDE DEF a
    <3> QED
      BY <1>1, <3>1, <3>2
  <2>4. /\ building = NULL /\ stack' = [stack EXCEPT ![a] = Peek(0)]
        /\ UNCHANGED <<frames, globals, heap, building, status>>
    BY <1>3 DEF StoreLocal, Running
  <2> HIDE DEF a
  <2> QED
    BY <1>1, <2>2, <2>3, <2>4, AssignCellInv
<1> QED
  BY <1>2, <1>3

(* A function that uses upvalues runs as a complete closure.               *)
LEMMA InBounds ==
  ASSUME IInv, status = "running", NEW i \in UpvalueIndices
  PROVE  /\ HasUpvalue(i) /\ Frame.fn \in Closures
         /\ i \in 1 .. Len(closure[Frame.fn].upvalues)
         /\ closure[Frame.fn].upvalues[i] \in UpValues
         /\ upvalue[closure[Frame.fn].upvalues[i]] # NULL
<1>1. /\ Frame.fn \in Fns \cup Closures /\ Usable(Frame.fn)
      /\ i \in DOMAIN Captures[Prototype(Frame.fn)]
  BY FrameFacts DEF UpvalueIndices
<1>2. Frame.fn \in Closures
  <2>1. CASE Frame.fn \in Fns
    <3>1. Captures[Prototype(Frame.fn)] = <<>>
      BY <1>1, <2>1, Apart DEF Prototype, Usable
    <3> QED
      BY <1>1, <3>1
  <2> QED
    BY <1>1, <2>1
<1>3. closure[Frame.fn] \in ClosureObject /\ Frame.fn # building /\ closure[Frame.fn] # NULL
  BY <1>1, <1>2 DEF Usable, IInv, Always, TypeOK
<1>4. /\ Len(closure[Frame.fn].upvalues) = Len(Captures[closure[Frame.fn].prototype])
      /\ \A j \in DOMAIN closure[Frame.fn].upvalues :
            upvalue[closure[Frame.fn].upvalues[j]] # NULL
  BY <1>2, <1>3 DEF IInv, Always, ClosuresComplete
<1>5. /\ closure[Frame.fn].upvalues \in Seq(UpValues)
      /\ Captures[closure[Frame.fn].prototype] \in Seq(Capture)
  BY <1>3, CodeAssumption DEF ClosureObject
<1>6. i \in 1 .. Len(closure[Frame.fn].upvalues)
  BY <1>1, <1>2, <1>4, <1>5 DEF Prototype
<1> QED
  BY <1>2, <1>4, <1>5, <1>6 DEF HasUpvalue

LEMMA UpvalueUsable ==
  ASSUME IInv, status = "running", NEW u \in UpValues, upvalue[u] # NULL
  PROVE  /\ GetUpValue(u) \in Value /\ Usable(GetUpValue(u))
         /\ upvalue[u] \in UpValueObject
         /\ IsOpen(u) => upvalue[u].ref \in 1 .. Top /\ Captured(upvalue[u].ref)
<1>1. upvalue[u] \in UpValueObject
  BY DEF IInv, Always, TypeOK
<1>2. ASSUME IsOpen(u)
      PROVE  upvalue[u].ref \in 1 .. Top /\ Captured(upvalue[u].ref)
  <2>1. PICK i \in DOMAIN open : open[i] = u
    BY <1>2 DEF IInv, WhileRunning, OpenLive
  <2> QED
    BY <2>1 DEF IInv, WhileRunning, OpenLive, Captured
<1>3. CASE upvalue[u].ref # NULL
  BY <1>1, <1>2, <1>3, CalleeCells DEF IsOpen, GetUpValue
<1>4. CASE upvalue[u].ref = NULL
  <2>1. upvalue[u].value \in Value
    BY <1>1, <1>4, ValueAssumption DEF UpValueObject
  <2> QED
    BY <1>1, <1>2, <1>4, <2>1 DEF GetUpValue, IInv, WhileRunning, ValuesUsable
<1> QED
  BY <1>1, <1>2, <1>3, <1>4

LEMMA UpvaluesInv ==
  ASSUME IInv, status = "running", NEW i \in UpvalueIndices,
         LoadUpvalue(i) \/ StoreUpvalue(i)
  PROVE  IInv'
<1> DEFINE u == closure[Frame.fn].upvalues[i]
<1>1. HasUpvalue(i) /\ u \in UpValues /\ upvalue[u] # NULL
  BY InBounds
<1> HIDE DEF u
<1>2. /\ GetUpValue(u) \in Value /\ Usable(GetUpValue(u)) /\ upvalue[u] \in UpValueObject
      /\ IsOpen(u) => upvalue[u].ref \in 1 .. Top /\ Captured(upvalue[u].ref)
  BY <1>1, UpvalueUsable
<1>3. CASE LoadUpvalue(i)
  BY <1>1, <1>2, <1>3, NoOperands, ReplaceInv DEF LoadUpvalue, Running, Continue, u
<1>4. CASE StoreUpvalue(i)
  <2>1. /\ building = NULL /\ UNCHANGED <<frames, globals, closure, open, building, status>>
        /\ SetUpValue(u, Peek(0)) /\ Cells(1)
    BY <1>1, <1>4 DEF StoreUpvalue, Running, Continue, u
  <2>2. Peek(0) \in Value /\ Usable(Peek(0))
    <3>1. 0 < Top
      BY <2>1, FrameFacts DEF Cells
    <3> QED
      BY <3>1, PeekUsable
  <2>3. CASE upvalue[u].ref # NULL
    <3>1. /\ stack' = [stack EXCEPT ![upvalue[u].ref] = Peek(0)]
          /\ UNCHANGED <<frames, globals, heap, building, status>>
      BY <2>1, <2>3 DEF SetUpValue, heap
    <3>2. upvalue[u].ref \in 1 .. Top /\ Captured(upvalue[u].ref)
      BY <1>1, <1>2, <2>3 DEF IsOpen
    <3>3. \A j \in 2 .. Len(frames) : upvalue[u].ref # frames[j].slots - 1
      BY <3>2, CalleeCells
    <3> QED
      BY <2>1, <2>2, <3>1, <3>2, <3>3, AssignCellInv
  <2>4. CASE upvalue[u].ref = NULL
    <3>1. /\ upvalue' = [upvalue EXCEPT ![u].value = Peek(0)] /\ stack' = stack
          /\ UNCHANGED <<frames, globals, closure, open, building, status>>
      BY <2>1, <2>4 DEF SetUpValue
    <3>2. /\ upvalue'[u] = [ref |-> NULL, value |-> Peek(0)]
          /\ \A w \in UpValues : w # u => upvalue'[w] = upvalue[w]
          /\ DOMAIN upvalue' = UpValues /\ upvalue' = [w \in UpValues |-> upvalue'[w]]
      BY <1>1, <1>2, <2>4, <3>1, ValueAssumption DEF IInv, Always, TypeOK, UpValueObject
    <3>3. \A w \in UpValues : Assigned(w)
      BY <1>1, <2>2, <2>4, <3>2 DEF Assigned, UpValueObject, Usable, Whole
    <3>4. /\ stack' \in Seq(Value) /\ Top' = Top
          /\ globals' \in [Globals -> Value \cup {NULL}]
          /\ \A g \in Globals : Usable(globals'[g])
      BY <3>1 DEF IInv, Always, TypeOK, WhileRunning, ValuesUsable, Top
    <3> QED
      BY <2>1, <3>1, <3>2, <3>3, <3>4, CalleeCells, FrameFacts, QuietStep
  <2> QED
    BY <2>3, <2>4
<1> QED
  BY <1>3, <1>4
-----------------------------------------------------------------------------
(* OP_CLOSURE.                                                             *)

(* What a step keeps while it only changes closures under construction and *)
(* the closure on top of the stack.                                        *)
LEMMA FrameKept ==
  ASSUME IInv, status = "running", UNCHANGED frames,
         \A c \in Closures : closure[c] # NULL =>
            closure'[c] # NULL /\ closure'[c].prototype = closure[c].prototype
  PROVE  /\ Frame' = Frame
         /\ \A i \in 1 .. Len(frames) : Parameters(frames[i].fn)' = Parameters(frames[i].fn)
         /\ Parameters(Frame.fn)' = Parameters(Frame.fn)
         /\ Prototype(Frame.fn)' = Prototype(Frame.fn)
<1>1. ASSUME NEW i \in 1 .. Len(frames)
      PROVE  /\ Parameters(frames[i].fn)' = Parameters(frames[i].fn)
             /\ Prototype(frames[i].fn)' = Prototype(frames[i].fn)
  <2>1. /\ frames'[i] = frames[i] /\ frames[i].fn \in Closures => closure[frames[i].fn] # NULL
    BY FrameFacts, Apart DEF Usable, Value, Callables
  <2> QED
    BY <2>1 DEF Parameters, Prototype
<1>2. Len(frames) \in 1 .. Len(frames) /\ Frame = frames[Len(frames)] /\ Frame' = Frame
  BY FrameFacts DEF Frame
<1>3. Parameters(Frame.fn)' = Parameters(Frame.fn) /\ Prototype(Frame.fn)' = Prototype(Frame.fn)
  BY <1>1, <1>2 DEF Frame
<1> QED
  BY <1>1, <1>2, <1>3

LEMMA BeginClosureInv ==
  ASSUME IInv, status = "running", NEW f \in Fns, Declares(f), BeginClosure(f)
  PROVE  IInv'
<1>1. PICK c \in Closures :
        /\ closure[c] = NULL /\ building' = c
        /\ closure' = [closure EXCEPT ![c] = [prototype |-> f, upvalues |-> <<>>]]
  BY DEF BeginClosure
<1>2. building = NULL /\ UNCHANGED <<stack, frames, globals, upvalue, open, status>>
  BY DEF BeginClosure, Running
<1> DEFINE new == [prototype |-> f, upvalues |-> <<>>]
<1>3. /\ new \in ClosureObject /\ new # NULL /\ new.upvalues = <<>> /\ new.prototype = f
      /\ closure'[c] = new /\ \A d \in Closures : d # c => closure'[d] = closure[d]
      /\ closure' \in [Closures -> ClosureObject \cup {NULL}]
  <2>1. new \in ClosureObject
    BY DEF ClosureObject
  <2> QED
    BY <1>1, <2>1, ValueAssumption DEF IInv, Always, TypeOK
<1> HIDE DEF new
<1>4. TypeOK'
  BY <1>1, <1>2, <1>3 DEF IInv, Always, TypeOK
<1>5. OpenTyped' /\ OpenSorted' /\ UpvaluesInBounds' /\ OpenLive'
  BY <1>2 DEF IInv, Always, WhileRunning, OpenTyped, IsOpen, OpenSorted, OpenLive, Top,
              UpvaluesInBounds
<1>6. ClosuresComplete'
  BY <1>1, <1>2, <1>3, Apart DEF IInv, Always, ClosuresComplete, Value, Callables
<1>7. /\ Frame' = Frame /\ Parameters(Frame.fn)' = Parameters(Frame.fn)
      /\ Prototype(Frame.fn)' = Prototype(Frame.fn)
      /\ \A i \in 1 .. Len(frames) : Parameters(frames[i].fn)' = Parameters(frames[i].fn)
  BY <1>1, <1>2, <1>3, FrameKept
<1>8. FramesOK'
  BY <1>2, <1>7, FrameFacts DEF IInv, WhileRunning, FramesOK, Captured, Top
<1>9. ValuesUsable'
  <2>1. \A v : Usable(v) => Usable(v)'
    BY <1>1, <1>3 DEF Usable
  <2> QED
    BY <1>2, <2>1 DEF IInv, WhileRunning, ValuesUsable
<1>10. BuildingOK'
  <2>1. Declares(f)'
    BY <1>2, <1>7 DEF Declares, Slots, Top
  <2>2. Len(<<>>) <= Len(Captures[f])
    BY CodeAssumption
  <2> QED
    BY <1>1, <1>3, <2>1, <2>2 DEF BuildingOK
<1> QED
  BY <1>4, <1>5, <1>6, <1>8, <1>9, <1>10 DEF IInv, Always, WhileRunning

(* What the loop of OP_CLOSURE relies on.                                  *)
LEMMA BuildingFacts ==
  ASSUME IInv, status = "running", building # NULL
  PROVE  /\ building \in Closures /\ closure[building] \in ClosureObject
         /\ closure[building].prototype \in Fns
         /\ closure[building].upvalues \in Seq(UpValues)
         /\ Captures[closure[building].prototype] \in Seq(Capture)
         /\ Len(closure[building].upvalues) \in Nat
         /\ Len(closure[building].upvalues) <= Len(Captures[closure[building].prototype])
         /\ Unfinished => /\ NextIndex \in DOMAIN Captures[closure[building].prototype]
                          /\ NextCapture \in Capture
<1>1. building \in Closures /\ closure[building] \in ClosureObject
  BY DEF IInv, Always, WhileRunning, TypeOK, BuildingOK
<1>2. /\ closure[building].prototype \in Fns
      /\ closure[building].upvalues \in Seq(UpValues)
  BY <1>1 DEF ClosureObject
<1>3. Captures[closure[building].prototype] \in Seq(Capture)
  BY <1>2, CodeAssumption
<1>4. Len(closure[building].upvalues) <= Len(Captures[closure[building].prototype])
  BY DEF IInv, WhileRunning, BuildingOK
<1>5. Len(closure[building].upvalues) \in Nat
  BY <1>2
<1>6. ASSUME Unfinished
      PROVE  /\ NextIndex \in DOMAIN Captures[closure[building].prototype]
             /\ NextCapture \in Capture
  <2>1. NextIndex \in 1 .. Len(Captures[closure[building].prototype])
    BY <1>3, <1>5, <1>6 DEF Unfinished, NextIndex
  <2> QED
    BY <1>3, <2>1 DEF NextCapture
<1> QED
  BY <1>1, <1>2, <1>3, <1>4, <1>5, <1>6

(* One more upvalue: a shared one or a new one for a cell of the frame.    *)
LEMMA AddUpvalueInv ==
  ASSUME IInv, status = "running", Unfinished, NEW u \in UpValues, AddUpvalue(u),
         UNCHANGED <<stack, frames, globals, building, status>>,
         upvalue' \in [UpValues -> UpValueObject \cup {NULL}], upvalue'[u] # NULL,
         \A w \in UpValues : upvalue[w] # NULL => upvalue'[w] # NULL,
         \A w \in UpValues : upvalue'[w] # NULL => Usable(upvalue'[w].value),
         open' \in Seq(UpValues), OpenTyped', OpenSorted', OpenLive',
         \A a \in 1 .. Frame.slots - 1 : Captured(a)' => Captured(a)
  PROVE  IInv'
<1>0. PICK c \in Closures : c = building
  BY BuildingFacts DEF Unfinished
<1> DEFINE grown == [prototype |-> closure[c].prototype,
                     upvalues |-> Append(closure[c].upvalues, u)]
<1>1. /\ c # NULL /\ c \in Closures /\ closure[c] \in ClosureObject /\ closure[c] # NULL
      /\ closure[c].prototype \in Fns
      /\ closure[c].upvalues \in Seq(UpValues)
      /\ Captures[closure[c].prototype] \in Seq(Capture)
      /\ Len(closure[c].upvalues) + 1 <= Len(Captures[closure[c].prototype])
      /\ Len(closure[c].upvalues) \in Nat
  BY <1>0, BuildingFacts, ValueAssumption DEF Unfinished, NextIndex
<1>2. /\ Append(closure[c].upvalues, u) \in Seq(UpValues)
      /\ Len(Append(closure[c].upvalues, u)) = Len(closure[c].upvalues) + 1
      /\ \A i \in 1 .. Len(closure[c].upvalues) :
            Append(closure[c].upvalues, u)[i] = closure[c].upvalues[i]
      /\ Append(closure[c].upvalues, u)[Len(closure[c].upvalues) + 1] = u
  BY <1>1, AppendProperties
<1>3. closure' = [closure EXCEPT ![c] = grown]
  <2>1. \A more : [closure[c] EXCEPT !.upvalues = more] =
                    [prototype |-> closure[c].prototype, upvalues |-> more]
    BY <1>1 DEF ClosureObject
  <2>2. closure' = [closure EXCEPT ![c] = [closure[c] EXCEPT
                                             !.upvalues = Append(closure[c].upvalues, u)]]
    BY <1>0 DEF AddUpvalue
  <2> QED
    BY <2>1, <2>2
<1>4. /\ grown \in ClosureObject /\ grown # NULL
      /\ grown.prototype = closure[c].prototype
      /\ grown.upvalues \in Seq(UpValues)
      /\ Len(grown.upvalues) = Len(closure[c].upvalues) + 1
      /\ \A i \in 1 .. Len(grown.upvalues) :
            grown.upvalues[i] = u \/ \E j \in 1 .. Len(closure[c].upvalues) :
                                      grown.upvalues[i] = closure[c].upvalues[j]
  <2>1. grown \in ClosureObject
    BY <1>1, <1>2 DEF ClosureObject
  <2>2. \A i \in 1 .. Len(closure[c].upvalues) + 1 :
           i \in 1 .. Len(closure[c].upvalues) \/ i = Len(closure[c].upvalues) + 1
    <3>1. PICK n : n = Len(closure[c].upvalues)
      OBVIOUS
    <3>2. n \in Nat
      BY <1>1, <3>1
    <3>3. \A i \in 1 .. n + 1 : i \in 1 .. n \/ i = n + 1
      BY <3>2
    <3> QED
      BY <3>1, <3>3
  <2> QED
    BY <1>1, <1>2, <2>1, <2>2, ValueAssumption
<1> HIDE DEF grown
<1>5. /\ closure'[c] = grown /\ \A d \in Closures : d # c => closure'[d] = closure[d]
      /\ closure' \in [Closures -> ClosureObject \cup {NULL}]
      /\ \A d \in Closures : closure[d] # NULL =>
            closure'[d] # NULL /\ closure'[d].prototype = closure[d].prototype
  BY <1>1, <1>3, <1>4 DEF IInv, Always, TypeOK
<1>6. building = c /\ building' = c
  BY <1>0
<1>7. TypeOK'
  BY <1>5, <1>6 DEF IInv, Always, TypeOK
<1>8. UpvaluesInBounds'
  BY DEF IInv, Always, UpvaluesInBounds
<1>9. ClosuresComplete'
  <2>1. ASSUME NEW d \in Closures, closure'[d] # NULL
        PROVE  /\ \A i \in DOMAIN closure'[d].upvalues : upvalue'[closure'[d].upvalues[i]] # NULL
               /\ d # building' => Len(closure'[d].upvalues)
                                    = Len(Captures[closure'[d].prototype])
    <3>1. CASE d = c
      <4>1. \A j \in 1 .. Len(closure[c].upvalues) :
               closure[c].upvalues[j] \in UpValues /\ upvalue[closure[c].upvalues[j]] # NULL
        BY <1>1 DEF IInv, Always, ClosuresComplete
      <4>2. ASSUME NEW i \in 1 .. Len(grown.upvalues)
            PROVE  upvalue'[grown.upvalues[i]] # NULL
        BY <1>4, <4>1
      <4>3. DOMAIN grown.upvalues = 1 .. Len(grown.upvalues)
        BY <1>4
      <4> QED
        BY <1>5, <1>6, <3>1, <4>2, <4>3
    <3>2. CASE d # c
      <4>1. /\ closure[d] # NULL /\ closure[d] \in ClosureObject /\ closure'[d] = closure[d]
        BY <1>5, <2>1, <3>2 DEF IInv, Always, TypeOK
      <4>2. /\ \A i \in DOMAIN closure[d].upvalues :
                  closure[d].upvalues[i] \in UpValues /\ upvalue[closure[d].upvalues[i]] # NULL
            /\ Len(closure[d].upvalues) = Len(Captures[closure[d].prototype])
        BY <1>6, <3>2, <4>1 DEF IInv, Always, ClosuresComplete, ClosureObject
      <4> QED
        BY <4>1, <4>2
    <3> QED
      BY <3>1, <3>2
  <2> QED
    BY <2>1 DEF ClosuresComplete
<1>10. /\ Frame' = Frame /\ Parameters(Frame.fn)' = Parameters(Frame.fn)
       /\ Prototype(Frame.fn)' = Prototype(Frame.fn)
       /\ \A i \in 1 .. Len(frames) : Parameters(frames[i].fn)' = Parameters(frames[i].fn)
  BY <1>5, FrameKept
<1>11. FramesOK'
  <2>1. ASSUME NEW a, ~Captured(a), a \in 1 .. Frame.slots - 1
        PROVE  ~Captured(a)'
    BY <2>1
  <2>2. ASSUME NEW i \in 2 .. Len(frames)
        PROVE  ~Captured(frames[i].slots - 1)'
    <3>1. ~Captured(frames[i].slots - 1) /\ frames[i].slots - 1 \in 1 .. Frame.slots - 1
      BY CalleeCells, FrameFacts
    <3> QED
      BY <2>1, <3>1 DEF Captured
  <2> QED
    BY <1>10, <2>2, FrameFacts DEF IInv, WhileRunning, FramesOK, Top
<1>12. ValuesUsable'
  <2>1. \A v : Usable(v) => Usable(v)'
    BY <1>5, <1>6 DEF Usable
  <2> QED
    BY <2>1 DEF IInv, WhileRunning, ValuesUsable
<1>13. BuildingOK'
  <2>1. Declares(closure[c].prototype)'
    <3>1. Declares(closure[c].prototype)
      BY <1>1, <1>6 DEF IInv, WhileRunning, BuildingOK
    <3> QED
      BY <1>1, <1>5, <1>10, <3>1 DEF Declares, Slots, Top
  <2> QED
    BY <1>1, <1>4, <1>5, <1>6, <2>1 DEF BuildingOK
<1> QED
  BY <1>7, <1>8, <1>9, <1>11, <1>12, <1>13 DEF IInv, Always, WhileRunning

LEMMA CaptureLocalInv ==
  ASSUME IInv, status = "running", CaptureLocal
  PROVE  IInv'
<1> DEFINE a == Frame.slots + NextCapture.index
<1>1. /\ Unfinished /\ building # NULL
      /\ UNCHANGED <<stack, frames, globals, building, status>>
  BY DEF CaptureLocal, Unfinished
<1>2. a \in 1 .. Top /\ a >= Frame.slots
  <2>1. NextIndex \in DOMAIN Captures[closure[building].prototype] /\ NextCapture \in Capture
    BY <1>1, BuildingFacts
  <2>2. NextCapture.index \in Slots
    BY <1>1, <2>1 DEF CaptureLocal, NextCapture, IInv, WhileRunning, BuildingOK, Declares
  <2> QED
    BY <2>2, FrameFacts DEF Slots
<1>3. PICK cell \in 1 .. Top : cell = a
  BY <1>2
<1> DEFINE i == Position(cell)
<1>4. /\ i \in 1 .. Len(open) + 1
      /\ \A j \in 1 .. i - 1 : Ref(j) > cell
      /\ \A j \in i .. Len(open) : Ref(j) <= cell
      /\ IsOpenAt(cell) <=> i <= Len(open) /\ Ref(i) = cell
      /\ IsOpenAt(cell) <=> Captured(cell)
  BY PositionFinds, FrameFacts DEF IInv
<1>5. /\ open \in Seq(UpValues) /\ Len(open) \in Nat /\ DOMAIN open = 1 .. Len(open)
      /\ \A j \in 1 .. Len(open) :
            open[j] \in UpValues /\ IsOpen(open[j]) /\ Ref(j) \in Nat \ {0}
      /\ \A j, k \in 1 .. Len(open) : j < k => Ref(j) > Ref(k)
  BY OpenRefs DEF IInv
<1>6. CASE IsOpenAt(cell)
  <2>1. AddUpvalue(open[i]) /\ UNCHANGED <<upvalue, open>>
    BY <1>3, <1>6 DEF CaptureLocal
  <2>2. PICK u \in UpValues : u = open[i] /\ upvalue[u] # NULL
    BY <1>4, <1>5, <1>6 DEF IsOpen
  <2>3. AddUpvalue(u)
    BY <2>1, <2>2
  <2>4. OpenTyped' /\ OpenSorted' /\ OpenLive' /\ \A b : Captured(b)' => Captured(b)
    BY <1>1, <2>1 DEF IInv, Always, WhileRunning, OpenTyped, IsOpen, OpenSorted, OpenLive, Top,
                      Captured
  <2>5. /\ upvalue' \in [UpValues -> UpValueObject \cup {NULL}] /\ upvalue'[u] # NULL
        /\ open' \in Seq(UpValues)
        /\ \A w \in UpValues : upvalue'[w] # NULL => Usable(upvalue'[w].value)
    BY <2>1, <2>2 DEF IInv, Always, WhileRunning, TypeOK, ValuesUsable
  <2> QED
    BY <1>1, <2>1, <2>3, <2>4, <2>5, AddUpvalueInv
<1>7. CASE ~IsOpenAt(cell)
  <2>1. PICK u \in UpValues :
          /\ upvalue[u] = NULL
          /\ upvalue' = [upvalue EXCEPT ![u] = [ref |-> cell, value |-> NULL]]
          /\ open' = SubSeq(open, 1, i - 1) \o <<u>> \o SubSeq(open, i, Len(open))
          /\ AddUpvalue(u)
    BY <1>3, <1>7 DEF CaptureLocal
  <2> HIDE DEF a, i
  <2> DEFINE new == [ref |-> cell, value |-> NULL]
  <2>2. /\ new \in UpValueObject /\ new # NULL /\ new.ref = cell /\ new.value = NULL
        /\ cell # NULL /\ cell \in Nat \ {0}
    <3>1. cell \in Nat \ {0}
      BY FrameFacts
    <3> QED
      BY <3>1, ValueAssumption DEF UpValueObject
  <2>3. /\ upvalue'[u] = new /\ \A w \in UpValues : w # u => upvalue'[w] = upvalue[w]
        /\ upvalue' \in [UpValues -> UpValueObject \cup {NULL}]
    BY <2>1, <2>2 DEF IInv, Always, TypeOK
  <2> HIDE DEF new
  <2>4. /\ open' \in Seq(UpValues) /\ Len(open') = Len(open) + 1 /\ open'[i] = u
        /\ \A j \in 1 .. i - 1 : open'[j] = open[j]
        /\ \A j \in i .. Len(open) : open'[j + 1] = open[j]
    <3>1. open' = Insert(open, i, u)
      BY <2>1 DEF Insert
    <3>2. open \in Seq(UpValues) /\ i \in 1 .. Len(open) + 1
      BY <1>4, <1>5
    <3>3. /\ Insert(open, i, u) \in Seq(UpValues)
          /\ Len(Insert(open, i, u)) = Len(open) + 1
          /\ Insert(open, i, u)[i] = u
          /\ \A j \in 1 .. i - 1 : Insert(open, i, u)[j] = open[j]
          /\ \A j \in i .. Len(open) : Insert(open, i, u)[j + 1] = open[j]
      BY ONLY <3>2, u \in UpValues, Inserted
    <3> QED
      BY <3>1, <3>3
  <2>5. \A j \in 1 .. Len(open) : open[j] # u /\ upvalue'[open[j]] = upvalue[open[j]]
    BY <1>5, <2>1, <2>3 DEF IsOpen
  <2> DEFINE ref(j) == upvalue'[open'[j]].ref
  <2>6. /\ DOMAIN open' = 1 .. Len(open) + 1 /\ ref(i) = cell
        /\ \A j \in 1 .. i - 1 : ref(j) = Ref(j)
        /\ \A j \in i .. Len(open) : ref(j + 1) = Ref(j)
    BY <1>4, <1>5, <2>2, <2>3, <2>4, <2>5 DEF Ref
  <2>7. ASSUME NEW j \in 1 .. Len(open) + 1
        PROVE  \/ j = i
               \/ j \in 1 .. i - 1 /\ j \in 1 .. Len(open)
               \/ j - 1 \in i .. Len(open) /\ j - 1 \in 1 .. Len(open) /\ j = (j - 1) + 1
    BY <1>4, <1>5
  <2>8. OpenTyped'
    <3>1. ASSUME NEW j \in 1 .. Len(open) + 1
          PROVE  upvalue'[open'[j]] # NULL /\ upvalue'[open'[j]].ref # NULL
      <4>1. CASE j = i
        BY <2>2, <2>3, <2>4, <4>1
      <4>2. ASSUME NEW k \in 1 .. Len(open), open'[j] = open[k]
            PROVE  upvalue'[open'[j]] # NULL /\ upvalue'[open'[j]].ref # NULL
        BY <1>5, <2>5, <4>2 DEF IsOpen
      <4> QED
        BY <2>4, <2>7, <4>1, <4>2
    <3> QED
      BY <2>6, <3>1 DEF OpenTyped, IsOpen
  <2>9. OpenSorted'
    <3>1. Ref(i) < cell \/ i = Len(open) + 1
      BY <1>4, <1>5, <1>7, <2>2
    <3>2. ASSUME NEW j \in 1 .. Len(open) + 1, NEW k \in 1 .. Len(open) + 1, j < k
          PROVE  ref(j) > ref(k)
      <4> HIDE DEF ref
      <4>1. CASE j = i
        <5>1. k - 1 \in i .. Len(open) /\ k = (k - 1) + 1 /\ i # Len(open) + 1
              /\ i \in 1 .. Len(open) /\ k - 1 \in 1 .. Len(open)
          BY <1>4, <1>5, <3>2, <4>1
        <5>2. ref(k) = Ref(k - 1) /\ ref(j) = cell /\ Ref(i) < cell
          BY <2>6, <3>1, <4>1, <5>1
        <5>3. Ref(k - 1) <= Ref(i) /\ Ref(k - 1) \in Nat /\ Ref(i) \in Nat
          BY <1>5, <5>1, SMTT(30)
        <5> QED
          BY <2>2, <5>2, <5>3
      <4>2. CASE k = i
        <5>1. j \in 1 .. i - 1
          BY <1>4, <3>2, <4>2
        <5> QED
          BY <1>4, <2>6, <4>2, <5>1
      <4>3. CASE j # i /\ k # i
        <5>1. CASE j \in 1 .. i - 1 /\ k \in 1 .. i - 1
          BY <1>4, <1>5, <2>6, <3>2, <5>1
        <5>2. CASE j \in 1 .. i - 1 /\ k - 1 \in i .. Len(open)
          <6>1. ref(j) = Ref(j) /\ Ref(j) > cell /\ ref(k) = Ref(k - 1) /\ Ref(k - 1) <= cell
            BY <1>4, <1>5, <2>6, <2>7, <5>2
          <6>2. Ref(j) \in Nat /\ Ref(k - 1) \in Nat
            BY <1>4, <1>5, <5>2
          <6> QED
            BY <2>2, <6>1, <6>2
        <5>3. CASE j - 1 \in i .. Len(open) /\ k - 1 \in i .. Len(open)
          <6>1. ref(j) = Ref(j - 1) /\ ref(k) = Ref(k - 1)
            BY <2>6, <2>7, <5>3
          <6>2. j - 1 \in 1 .. Len(open) /\ k - 1 \in 1 .. Len(open) /\ j - 1 < k - 1
            BY <1>4, <3>2, <5>3
          <6> QED
            BY <1>5, <6>1, <6>2
        <5> QED
          BY <1>4, <1>5, <2>7, <3>2, <4>3, <5>1, <5>2, <5>3
      <4> QED
        BY <4>1, <4>2, <4>3
    <3> QED
      BY <2>6, <3>2 DEF OpenSorted
  <2>10. \A w \in UpValues : upvalue'[w] # NULL => Usable(upvalue'[w].value)
    BY <2>2, <2>3, Apart DEF IInv, WhileRunning, ValuesUsable, Usable, Value, Callables
  <2>11. {open'[j] : j \in 1 .. Len(open) + 1} = {open[j] : j \in 1 .. Len(open)} \cup {u}
    <3>1. ASSUME NEW j \in 1 .. Len(open)
          PROVE  \E k \in 1 .. Len(open) + 1 : open'[k] = open[j]
      <4>1. CASE j \in 1 .. i - 1
        BY <1>5, <2>4, <4>1
      <4>2. CASE j \in i .. Len(open)
        <5>1. j + 1 \in 1 .. Len(open) + 1
          BY <1>5
        <5> QED
          BY <2>4, <4>2, <5>1
      <4> QED
        BY <1>4, <1>5, <4>1, <4>2
    <3>2. ASSUME NEW j \in 1 .. Len(open) + 1
          PROVE  open'[j] = u \/ \E k \in 1 .. Len(open) : open'[j] = open[k]
      BY <2>4, <2>7
    <3>3. \E k \in 1 .. Len(open) + 1 : open'[k] = u
      BY <1>4, <2>4
    <3>4. PICK n, before, after : n = Len(open) /\ before = open /\ after = open'
      OBVIOUS
    <3>5. /\ \A j \in 1 .. n : \E k \in 1 .. n + 1 : after[k] = before[j]
          /\ \A j \in 1 .. n + 1 : after[j] = u \/ \E k \in 1 .. n : after[j] = before[k]
          /\ \E k \in 1 .. n + 1 : after[k] = u
      BY <3>1, <3>2, <3>3, <3>4
    <3>6. {after[j] : j \in 1 .. n + 1} = {before[j] : j \in 1 .. n} \cup {u}
      <4>1. ASSUME NEW e \in {after[j] : j \in 1 .. n + 1}
            PROVE  e \in {before[j] : j \in 1 .. n} \cup {u}
        BY <3>5
      <4>2. ASSUME NEW e \in {before[j] : j \in 1 .. n} \cup {u}
            PROVE  e \in {after[j] : j \in 1 .. n + 1}
        BY <3>5
      <4> QED
        BY <4>1, <4>2, Zenon
    <3> QED
      BY <3>4, <3>6
  <2>12. OpenLive'
    <3>1. {w \in UpValues : IsOpen(w)'} = {w \in UpValues : IsOpen(w)} \cup {u}
      BY <2>1, <2>2, <2>3 DEF IsOpen
    <3>2. {open[j] : j \in 1 .. Len(open)} = {w \in UpValues : IsOpen(w)}
      BY <1>5 DEF IInv, WhileRunning, OpenLive
    <3>3. \A j \in 1 .. Len(open) + 1 : ref(j) \in 1 .. Top
      <4>1. \A j \in 1 .. Len(open) : Ref(j) \in 1 .. Top
        BY <1>5 DEF IInv, WhileRunning, OpenLive, Ref
      <4> HIDE DEF ref
      <4> QED
        BY <2>6, <2>7, <4>1
    <3> QED
      BY <1>1, <2>6, <2>11, <3>1, <3>2, <3>3 DEF OpenLive, Top
  <2>13. ASSUME NEW b \in 1 .. Frame.slots - 1, Captured(b)'
         PROVE  Captured(b)
    <3>1. PICK j \in 1 .. Len(open) + 1 : ref(j) = b
      BY <2>6, <2>13 DEF Captured
    <3>2. j # i
      BY <1>2, <1>3, <2>6, <3>1, FrameFacts DEF a
    <3>3. \E k \in 1 .. Len(open) : Ref(k) = b
      <4> HIDE DEF ref
      <4> QED
        BY <2>6, <2>7, <3>1, <3>2
    <3> QED
      BY <1>5, <3>3 DEF Captured, Ref
  <2>14. upvalue'[u] # NULL /\ \A w \in UpValues : upvalue[w] # NULL => upvalue'[w] # NULL
    BY <2>2, <2>3
  <2> HIDE DEF ref
  <2> QED
    BY <1>1, <2>1, <2>3, <2>4, <2>8, <2>9, <2>10, <2>12, <2>13, <2>14, AddUpvalueInv
<1> QED
  BY <1>6, <1>7

LEMMA CaptureUpvalueInv ==
  ASSUME IInv, status = "running", CaptureUpvalue
  PROVE  IInv'
<1> DEFINE f == closure[building].prototype
           i == NextCapture.index
<1>1. /\ Unfinished /\ building # NULL /\ f \in Fns
      /\ Captures[f] \in Seq(Capture) /\ NextIndex \in DOMAIN Captures[f]
  BY BuildingFacts DEF CaptureUpvalue, Unfinished
<1>2. Parent[f] # Script /\ i \in 1 .. Len(Captures[Parent[f]])
  BY <1>1, CodeAssumption DEF CaptureUpvalue, NextCapture
<1>3. i \in UpvalueIndices
  <2>1. Parent[f] = Prototype(Frame.fn)
    BY <1>1 DEF IInv, WhileRunning, BuildingOK, Declares
  <2>2. Frame.fn # Script
    BY <1>2, <2>1, Apart DEF Prototype, Value, Callables
  <2>3. Parent[f] \in Fns /\ Captures[Parent[f]] \in Seq(Capture)
    BY <1>1, <1>2, CodeAssumption DEF Code
  <2> QED
    BY <1>2, <2>1, <2>2, <2>3 DEF UpvalueIndices
<1>4. PICK u \in UpValues : u = closure[Frame.fn].upvalues[i] /\ upvalue[u] # NULL
  BY <1>3, InBounds
<1>5. AddUpvalue(u) /\ UNCHANGED <<stack, frames, globals, upvalue, open, building, status>>
  BY <1>3, <1>4, InBounds DEF CaptureUpvalue
<1>6. OpenTyped' /\ OpenSorted' /\ OpenLive' /\ \A b : Captured(b)' => Captured(b)
  BY <1>5 DEF IInv, Always, WhileRunning, OpenTyped, IsOpen, OpenSorted, OpenLive, Top, Captured
<1>7. /\ upvalue' \in [UpValues -> UpValueObject \cup {NULL}] /\ upvalue'[u] # NULL
      /\ open' \in Seq(UpValues)
      /\ \A w \in UpValues : upvalue'[w] # NULL => Usable(upvalue'[w].value)
  BY <1>4, <1>5 DEF IInv, Always, WhileRunning, TypeOK, ValuesUsable
<1> QED
  BY <1>1, <1>5, <1>6, <1>7, AddUpvalueInv

LEMMA EndClosureInv ==
  ASSUME IInv, status = "running", EndClosure
  PROVE  IInv'
<1>1. /\ building # NULL /\ building' = NULL /\ ~Unfinished
      /\ UNCHANGED <<frames, globals, closure, upvalue, open, status>>
      /\ stack' = Append(SubSeq(stack, 1, Top), building)
  BY FrameFacts DEF EndClosure, heap, Replace, Drop, Built
<1>2. /\ building \in Closures /\ building \in Value /\ Whole(building)
      /\ Len(closure[building].upvalues) = Len(Captures[closure[building].prototype])
  <2>1. /\ building \in Closures /\ closure[building] # NULL
        /\ Len(closure[building].upvalues) \in Nat
        /\ Captures[closure[building].prototype] \in Seq(Capture)
        /\ Len(closure[building].upvalues) <= Len(Captures[closure[building].prototype])
    BY <1>1, BuildingFacts, ValueAssumption
  <2>2. Len(closure[building].upvalues) = Len(Captures[closure[building].prototype])
    BY <1>1, <2>1 DEF Unfinished, NextIndex
  <2> QED
    BY <2>1, <2>2, Apart DEF Whole, Value, Callables
<1>3. /\ stack' \in Seq(Value) /\ Top' = Top + 1
      /\ \A i \in 1 .. Top : stack'[i] = stack[i]
      /\ stack'[Top + 1] = building
  <2>1. stack \in Seq(Value) /\ Top \in 0 .. Len(stack)
    BY FrameFacts DEF IInv, Always, TypeOK, Top
  <2> QED
    BY <1>1, <1>2, <2>1, Topped DEF Top
<1>4. ASSUME NEW i \in 1 .. Top'
      PROVE  Whole(stack'[i])
  <2>1. Top \in Nat
    BY FrameFacts
  <2>2. \A j \in 1 .. Top : Whole(stack[j])
    BY CalleeCells DEF Usable, Whole
  <2> QED
    BY <1>2, <1>3, <2>1, <2>2
<1>5. \A i \in 2 .. Len(frames) : stack'[frames[i].slots - 1] = stack[frames[i].slots - 1]
  BY <1>3, CalleeCells
<1>6. /\ DOMAIN upvalue' = UpValues /\ upvalue' = [u \in UpValues |-> upvalue'[u]]
      /\ \A u \in UpValues : Assigned(u)
      /\ globals' \in [Globals -> Value \cup {NULL}]
      /\ \A g \in Globals : Whole(globals'[g])
  BY <1>1 DEF Assigned, IInv, Always, TypeOK, WhileRunning, ValuesUsable, Usable, Whole
<1>7. /\ Top' >= Frame.slots + Parameters(Frame.fn) - 1
      /\ \A a \in 1 .. Top : Captured(a) => a <= Top'
  BY <1>3, FrameFacts
<1> QED
  BY <1>1, <1>2, <1>3, <1>4, <1>5, <1>6, <1>7, MoveStep
-----------------------------------------------------------------------------
(* Upvalues that close.                                                    *)

(* The upvalues us leave the list, the others stay in their order: from[j] *)
(* is where the j-th of them was.                                          *)
LEMMA CloseStep ==
  ASSUME IInv, status = "running", building = NULL,
         UNCHANGED <<globals, closure, building, status>>,
         NEW us \in SUBSET UpValues, CloseAll(us), open' \in Seq(UpValues),
         NEW from \in [1 .. Len(open') -> 1 .. Len(open)],
         \A j \in 1 .. Len(open') : open'[j] = open[from[j]],
         \A j, k \in 1 .. Len(open') : j < k => from[j] < from[k],
         \A i \in 1 .. Len(open) : open[i] \in us <=> \A j \in 1 .. Len(open') : from[j] # i,
         \A u \in us : IsOpen(u),
         stack' \in Seq(Value), \A i \in 1 .. Top' : Usable(stack'[i]),
         \A j \in 1 .. Len(open') : Ref(from[j]) <= Top',
         frames' \in Seq([fn : Fns \cup Closures \cup {Script}, slots : Nat \ {0}]),
         frames' # <<>>, Len(frames') <= FrameMax,
         (\A a \in Nat : Captured(a)' => Captured(a)) => FramesOK'
  PROVE  IInv'
<1>1. /\ open \in Seq(UpValues) /\ Len(open) \in Nat /\ DOMAIN open = 1 .. Len(open)
      /\ \A j \in 1 .. Len(open) :
            open[j] \in UpValues /\ IsOpen(open[j]) /\ Ref(j) \in Nat \ {0}
      /\ \A j, k \in 1 .. Len(open) : j < k => Ref(j) > Ref(k)
  BY OpenRefs DEF IInv
<1>2. /\ Len(open') \in Nat /\ DOMAIN open' = 1 .. Len(open')
      /\ Top' \in Nat /\ DOMAIN stack' = 1 .. Top'
  BY DEF Top
<1>3. \A u \in UpValues : u \in us =>
        /\ upvalue'[u] = [ref |-> NULL, value |-> stack[upvalue[u].ref]]
        /\ upvalue'[u] \in UpValueObject /\ upvalue'[u] # NULL /\ upvalue'[u].ref = NULL
        /\ Usable(upvalue'[u].value)
  <2> SUFFICES ASSUME NEW u \in UpValues, u \in us
               PROVE  /\ upvalue'[u] = [ref |-> NULL, value |-> stack[upvalue[u].ref]]
                      /\ upvalue'[u] \in UpValueObject /\ upvalue'[u] # NULL
                      /\ upvalue'[u].ref = NULL /\ Usable(upvalue'[u].value)
    OBVIOUS
  <2>1. upvalue'[u] = [ref |-> NULL, value |-> stack[upvalue[u].ref]]
    BY DEF CloseAll
  <2>2. upvalue[u] # NULL /\ IsOpen(u)
    BY DEF IsOpen
  <2>3. stack[upvalue[u].ref] \in Value /\ Usable(stack[upvalue[u].ref])
    BY <2>2, UpvalueUsable, CalleeCells
  <2>4. upvalue'[u] \in UpValueObject
    BY <2>1, <2>3 DEF UpValueObject
  <2> QED
    BY <2>1, <2>3, <2>4, ValueAssumption
<1>4. \A u \in UpValues : u \notin us => upvalue'[u] = upvalue[u]
  BY DEF CloseAll
<1>5. upvalue' \in [UpValues -> UpValueObject \cup {NULL}]
  <2>1. \A u \in UpValues : upvalue'[u] \in UpValueObject \cup {NULL}
    BY <1>3, <1>4 DEF IInv, Always, TypeOK
  <2>2. upvalue' = [u \in UpValues |-> upvalue'[u]]
    BY DEF CloseAll
  <2> QED
    BY <2>1, <2>2
<1>6. ASSUME NEW j \in 1 .. Len(open')
      PROVE  /\ from[j] \in 1 .. Len(open) /\ open[from[j]] \notin us
             /\ open'[j] \in UpValues /\ upvalue'[open'[j]] = upvalue[open[from[j]]]
             /\ upvalue'[open'[j]].ref = Ref(from[j])
             /\ upvalue'[open'[j]] # NULL /\ upvalue'[open'[j]].ref # NULL
  <2>1. from[j] \in 1 .. Len(open) /\ open[from[j]] \notin us /\ open'[j] = open[from[j]]
    OBVIOUS
  <2>2. open[from[j]] \in UpValues /\ IsOpen(open[from[j]])
    BY <1>1, <2>1
  <2>3. upvalue'[open'[j]] = upvalue[open[from[j]]]
    BY <1>4, <2>1, <2>2
  <2> QED
    BY <2>1, <2>2, <2>3 DEF Ref, IsOpen
<1>7. TypeOK'
  BY <1>5 DEF IInv, Always, TypeOK
<1>8. OpenTyped' /\ UpvaluesInBounds'
  BY <1>2, <1>6 DEF IInv, Always, OpenTyped, IsOpen, UpvaluesInBounds
<1>9. OpenSorted'
  <2>1. ASSUME NEW j \in 1 .. Len(open'), NEW k \in 1 .. Len(open'), j < k
        PROVE  upvalue'[open'[j]].ref > upvalue'[open'[k]].ref
    BY <1>1, <1>6, <2>1, SMTT(30)
  <2> QED
    BY <1>2, <2>1 DEF OpenSorted
<1>10. ClosuresComplete'
  <2>1. \A u \in UpValues : upvalue[u] # NULL => upvalue'[u] # NULL
    BY <1>3, <1>4
  <2> QED
    BY <2>1 DEF IInv, Always, ClosuresComplete, TypeOK, ClosureObject
<1>11. FramesOK'
  <2>1. ASSUME NEW a \in Nat, Captured(a)'
        PROVE  Captured(a)
    <3>1. PICK j \in 1 .. Len(open') : upvalue'[open'[j]].ref = a
      BY <1>2, <2>1 DEF Captured
    <3>2. from[j] \in DOMAIN open /\ upvalue[open[from[j]]].ref = a
      BY <1>1, <1>6, <3>1 DEF Ref
    <3> QED
      BY <3>2 DEF Captured
  <2> QED
    BY <2>1
<1>12. OpenLive'
  <2>1. ASSUME NEW u \in UpValues, IsOpen(u)'
        PROVE  \E j \in 1 .. Len(open') : open'[j] = u
    <3>1. u \notin us
      BY <1>3, <2>1 DEF IsOpen
    <3>2. IsOpen(u)
      BY <1>4, <2>1, <3>1 DEF IsOpen
    <3>3. PICK i \in 1 .. Len(open) : open[i] = u
      BY <1>1, <3>2 DEF IInv, WhileRunning, OpenLive
    <3>4. PICK j \in 1 .. Len(open') : from[j] = i
      BY <3>1, <3>3
    <3> QED
      BY <3>3, <3>4
  <2>2. \A j \in 1 .. Len(open') : upvalue'[open'[j]].ref \in 1 .. Top'
    BY <1>1, <1>2, <1>6
  <2>3. {open'[j] : j \in 1 .. Len(open')} = {u \in UpValues : IsOpen(u)'}
    <3>1. \A j \in 1 .. Len(open') :
             open'[j] \in {u \in UpValues : IsOpen(u)'}
      BY <1>6 DEF IsOpen
    <3>2. {open'[j] : j \in 1 .. Len(open')} \subseteq {u \in UpValues : IsOpen(u)'}
      BY ONLY <3>1, Zenon
    <3>3. {u \in UpValues : IsOpen(u)'} \subseteq {open'[j] : j \in 1 .. Len(open')}
      <4>1. \A u \in UpValues : IsOpen(u)' => \E j \in 1 .. Len(open') : open'[j] = u
        BY ONLY <2>1
      <4> QED
        BY ONLY <4>1, Zenon
    <3> QED
      BY ONLY <3>2, <3>3, Zenon
  <2> QED
    BY <1>2, <2>2, <2>3 DEF OpenLive
<1>13. ValuesUsable' /\ BuildingOK'
  <2>1. \A v : Usable(v)' <=> Usable(v)
    BY DEF Usable
  <2>2. \A u \in UpValues : upvalue'[u] # NULL => Usable(upvalue'[u].value)
    BY <1>3, <1>4 DEF IInv, WhileRunning, ValuesUsable
  <2>3. \A g \in Globals : Usable(globals'[g])
    BY DEF IInv, WhileRunning, ValuesUsable
  <2> QED
    BY <1>2, <2>1, <2>2, <2>3 DEF ValuesUsable, BuildingOK
<1> QED
  BY <1>7, <1>8, <1>9, <1>10, <1>11, <1>12, <1>13 DEF IInv, Always, WhileRunning

LEMMA CloseUpvalueInv ==
  ASSUME IInv, status = "running", CloseUpvalue
  PROVE  IInv'
<1>1. /\ building = NULL /\ Cells(1) /\ stack' = SubSeq(stack, 1, Top - 1)
      /\ UNCHANGED <<frames, globals, closure, building, status>>
  BY DEF CloseUpvalue, Running, Drop
<1>2. /\ Top \in Nat /\ Top - 1 \in 0 .. Top
      /\ Top - 1 >= Frame.slots + Parameters(Frame.fn) - 1
  BY <1>1, FrameFacts DEF Cells
<1> DEFINE p == Position(Top)
<1>3. /\ p \in 1 .. Len(open) + 1
      /\ \A j \in p .. Len(open) : Ref(j) <= Top
      /\ \A j \in p + 1 .. Len(open) : Ref(j) < Top
      /\ \A j \in 1 .. p - 1 : Ref(j) > Top
      /\ IsOpenAt(Top) <=> p <= Len(open) /\ Ref(p) = Top
      /\ IsOpenAt(Top) <=> Captured(Top)
  BY <1>2, PositionFinds DEF IInv
<1>4. CASE ~IsOpenAt(Top)
  <2>1. Operands(1)
    BY <1>1, <1>2, <1>3, <1>4 DEF Operands
  <2>2. UNCHANGED <<frames, heap, building, status>> /\ stack' = Drop(1)
    BY <1>1, <1>4 DEF CloseUpvalue, heap
  <2> QED
    BY <1>1, <2>1, <2>2, DropInv DEF IInv, Always, TypeOK, WhileRunning, ValuesUsable
<1>5. CASE IsOpenAt(Top)
  <2> HIDE DEF p
  <2>1. /\ open \in Seq(UpValues) /\ Len(open) \in Nat /\ DOMAIN open = 1 .. Len(open)
        /\ \A j \in 1 .. Len(open) :
              open[j] \in UpValues /\ IsOpen(open[j]) /\ Ref(j) \in Nat \ {0}
        /\ \A j, k \in 1 .. Len(open) : j < k => Ref(j) > Ref(k)
    BY OpenRefs DEF IInv
  <2>2. p \in 1 .. Len(open) /\ CloseAll({open[p]})
    BY <1>3, <1>5, <2>1 DEF CloseUpvalue, p
  <2>3. /\ open' \in Seq(UpValues) /\ Len(open') = Len(open) - 1
        /\ \A j \in 1 .. p - 1 : open'[j] = open[j]
        /\ \A j \in p .. Len(open) - 1 : open'[j] = open[j + 1]
    <3>1. open' = Remove(open, p)
      BY <1>5 DEF CloseUpvalue, Remove, p
    <3>2. open \in Seq(UpValues)
      BY <2>1
    <3>3. /\ Remove(open, p) \in Seq(UpValues) /\ Len(Remove(open, p)) = Len(open) - 1
          /\ \A j \in 1 .. p - 1 : Remove(open, p)[j] = open[j]
          /\ \A j \in p .. Len(open) - 1 : Remove(open, p)[j] = open[j + 1]
      BY ONLY <2>2, <3>2, Removed
    <3> QED
      BY <3>1, <3>3
  <2> DEFINE from == [j \in 1 .. Len(open') |-> IF j < p THEN j ELSE j + 1]
  <2>4. /\ from \in [1 .. Len(open') -> 1 .. Len(open)]
        /\ \A j \in 1 .. Len(open') : from[j] # p
        /\ \A j, k \in 1 .. Len(open') : j < k => from[j] < from[k]
    BY <2>1, <2>2, <2>3
  <2>5. \A j \in 1 .. Len(open') : open'[j] = open[from[j]]
    BY <2>1, <2>2, <2>3
  <2>6. ASSUME NEW i \in 1 .. Len(open)
        PROVE  open[i] \in {open[p]} <=> \A j \in 1 .. Len(open') : from[j] # i
    <3>1. CASE i = p
      BY <2>4, <3>1
    <3>2. CASE i # p
      <4>1. open[i] # open[p]
        BY <2>1, <2>2, <3>2 DEF Ref
      <4>2. \E j \in 1 .. Len(open') : from[j] = i
        <5>1. CASE i < p
          BY <2>1, <2>2, <2>3, <5>1
        <5>2. CASE i > p
          <6>1. i - 1 \in 1 .. Len(open') /\ ~ (i - 1 < p) /\ (i - 1) + 1 = i
            BY <2>1, <2>2, <2>3, <5>2
          <6> QED
            BY <6>1
        <5> QED
          BY <2>1, <2>2, <3>2, <5>1, <5>2
      <4> QED
        BY <4>1, <4>2
    <3> QED
      BY <3>1, <3>2
  <2> HIDE DEF from
  <2>7. /\ stack' \in Seq(Value) /\ Top' = Top - 1
        /\ \A i \in 1 .. Top - 1 : stack'[i] = stack[i]
    <3>1. stack \in Seq(Value) /\ Top - 1 \in 0 .. Len(stack)
      BY <1>2 DEF IInv, Always, TypeOK, Top
    <3> QED
      BY <1>1, <3>1, Shorter DEF Top
  <2>8. \A i \in 1 .. Top' : Usable(stack'[i])
    BY <1>2, <2>7, CalleeCells
  <2>9. ASSUME NEW j \in 1 .. Len(open')
        PROVE  Ref(from[j]) <= Top'
    <3>1. from[j] \in 1 .. Len(open) /\ from[j] # p /\ Ref(from[j]) \in Nat
      BY <2>1, <2>4
    <3>2. Ref(from[j]) <= Top
      BY <2>1, <3>1 DEF IInv, WhileRunning, OpenLive, Ref
    <3>3. Ref(from[j]) # Ref(p)
      BY <2>1, <2>2, <3>1
    <3> QED
      BY <1>2, <1>3, <1>5, <2>7, <3>1, <3>2, <3>3
  <2>10. ASSUME \A a \in Nat : Captured(a)' => Captured(a)
         PROVE  FramesOK'
    <3>1. Frame' = Frame /\ \A fn : Parameters(fn)' = Parameters(fn)
      BY <1>1 DEF Frame, Parameters, Prototype
    <3>2. ASSUME NEW i \in 2 .. Len(frames)
          PROVE  /\ frames[i].slots - 1 <= Top'
                 /\ stack'[frames[i].slots - 1] = frames[i].fn
                 /\ ~Captured(frames[i].slots - 1)'
      <4>1. PICK a \in 1 .. Top - 1 : a = frames[i].slots - 1 /\ a \in Nat
        BY <1>2, CalleeCells, FrameFacts
      <4>2. stack[a] = frames[i].fn /\ ~Captured(a)
        BY <4>1, CalleeCells
      <4>3. ~Captured(a)'
        BY <2>10, <4>1, <4>2
      <4> QED
        BY <1>1, <2>7, <4>1, <4>2, <4>3 DEF Captured
    <3>3. /\ frames' # <<>> /\ frames'[1] = [fn |-> Script, slots |-> 1]
          /\ \A i, j \in DOMAIN frames' :
                i < j => frames'[j].slots > frames'[i].slots + Parameters(frames[i].fn)
      BY <1>1 DEF IInv, WhileRunning, FramesOK
    <3>4. Top' >= Frame.slots + Parameters(Frame.fn) - 1
      BY <1>2, <2>7
    <3> QED
      BY <1>1, <3>1, <3>2, <3>3, <3>4 DEF FramesOK
  <2>11. /\ {open[p]} \in SUBSET UpValues /\ \A u \in {open[p]} : IsOpen(u)
         /\ frames' \in Seq([fn : Fns \cup Closures \cup {Script}, slots : Nat \ {0}])
         /\ frames' # <<>> /\ Len(frames') <= FrameMax
    BY <1>1, <2>1, <2>2 DEF IInv, Always, TypeOK
  <2> QED
    BY <1>1, <2>2, <2>3, <2>4, <2>5, <2>6, <2>7, <2>8, <2>9, <2>10, <2>11, CloseStep
<1> QED
  BY <1>4, <1>5
-----------------------------------------------------------------------------
(* Calls and returns.                                                      *)

FrameRecord == [fn : Fns \cup Closures \cup {Script}, slots : Nat \ {0}]

LEMMA PushFrameInv ==
  ASSUME IInv, status = "running", building = NULL,
         NEW argc \in 0 .. Top, Operands(argc + 1),
         Peek(argc) \in Fns \cup Closures, Arity[Prototype(Peek(argc))] = argc, ~FramesFull,
         frames' = Append(frames, [fn |-> Peek(argc), slots |-> FirstSlot(argc)]),
         UNCHANGED <<stack, globals, heap, building, status>>
  PROVE  IInv'
<1> DEFINE new == [fn |-> Peek(argc), slots |-> Top - argc + 1]
           n == Len(frames)
<1>1. /\ Top \in Nat /\ argc \in Nat /\ Top - argc \in 1 .. Top
      /\ Top - argc >= Frame.slots + Parameters(Frame.fn)
      /\ Frame.slots \in Nat /\ Parameters(Frame.fn) \in Nat
  BY FrameFacts DEF Operands, Cells
<1>2. new \in FrameRecord /\ new.fn = Peek(argc) /\ new.slots = Top - argc + 1
  BY <1>1 DEF FrameRecord
<1>3. frames \in Seq(FrameRecord) /\ n \in Nat \ {0} /\ n + 1 <= FrameMax
  BY FrameFacts, BoundAssumption DEF IInv, Always, TypeOK, FramesFull, FrameRecord
<1>4. frames' = Append(frames, new)
  BY DEF FirstSlot
<1> HIDE DEF new
<1>5. /\ frames' \in Seq(FrameRecord) /\ frames' # <<>> /\ Len(frames') = n + 1
      /\ \A i \in 1 .. n : frames'[i] = frames[i]
      /\ frames'[n + 1] = new /\ DOMAIN frames' = 1 .. n + 1
  <2>1. /\ frames' \in Seq(FrameRecord) /\ frames' # <<>> /\ Len(frames') = n + 1
        /\ \A i \in 1 .. n : frames'[i] = frames[i]
        /\ frames'[n + 1] = new
    BY <1>2, <1>3, <1>4, AppendProperties
  <2> QED
    BY <1>3, <2>1
<1>6. UNCHANGED <<stack, globals, closure, upvalue, open, building, status>>
  BY DEF heap
<1>7. TypeOK'
  BY <1>3, <1>5, <1>6 DEF IInv, Always, TypeOK, FrameRecord
<1>8. /\ OpenTyped' /\ OpenSorted' /\ UpvaluesInBounds' /\ OpenLive' /\ ClosuresComplete'
      /\ ValuesUsable' /\ BuildingOK'
  BY <1>6 DEF IInv, Always, WhileRunning, OpenTyped, IsOpen, OpenSorted, UpvaluesInBounds, Top,
              OpenLive, ClosuresComplete, ValuesUsable, Usable, BuildingOK
<1>9. FramesOK'
  <2>1. /\ \A i \in 1 .. n : Parameters(frames[i].fn)' = Parameters(frames'[i].fn)
        /\ Parameters(Frame.fn)' = Parameters(Frame'.fn)
    BY <1>6 DEF Parameters, Prototype
  <2>2. Frame' = new
    BY <1>5 DEF Frame
  <2>3. frames'[1] = [fn |-> Script, slots |-> 1]
    BY <1>3, <1>5 DEF IInv, WhileRunning, FramesOK
  <2>4. ASSUME NEW i \in 2 .. n + 1
        PROVE  /\ (frames[i].slots - 1 <= Top)'
               /\ (stack[frames[i].slots - 1] = frames[i].fn)'
               /\ ~Captured(frames[i].slots - 1)'
    <3>1. PICK a \in 1 .. Top : /\ a = frames'[i].slots - 1
                                /\ stack[a] = frames'[i].fn /\ ~Captured(a)
      <4>1. CASE i = n + 1
        <5>1. Top - argc = frames'[i].slots - 1 /\ frames'[i].fn = stack[Top - argc]
          BY <1>1, <1>2, <1>5, <4>1 DEF Peek
        <5>2. Top - argc \in Top - (argc + 1) + 1 .. Top
          BY <1>1
        <5>3. ~Captured(Top - argc)
          BY <5>2 DEF Operands
        <5> QED
          BY <1>1, <5>1, <5>3
      <4>2. CASE i # n + 1
        <5>1. i \in 2 .. Len(frames) /\ frames'[i] = frames[i]
          BY <1>3, <1>5, <4>2
        <5> QED
          BY <5>1, CalleeCells
      <4> QED
        BY <4>1, <4>2
    <3> QED
      BY <1>1, <1>6, <3>1 DEF Captured, Top
  <2>5. ASSUME NEW i \in 1 .. n + 1, NEW j \in 1 .. n + 1, i < j
        PROVE  (frames[j].slots > frames[i].slots + Parameters(frames[i].fn))'
    <3>1. i \in 1 .. n /\ frames'[i] = frames[i]
      BY <1>3, <1>5, <2>5
    <3>2. Parameters(frames[i].fn)' = Parameters(frames[i].fn)
      BY <2>1, <3>1
    <3>3. CASE j = n + 1
      <4>1. frames[i].slots + Parameters(frames[i].fn) <= Frame.slots + Parameters(Frame.fn)
        <5>1. CASE i = n
          BY <1>1, <5>1 DEF Frame
        <5>2. CASE i < n
          <6>1. Frame.slots > frames[i].slots + Parameters(frames[i].fn)
            BY <1>3, <3>1, <5>2 DEF IInv, WhileRunning, FramesOK, Frame
          <6>2. frames[i].slots \in Nat /\ Parameters(frames[i].fn) \in Nat
            BY <3>1, FrameFacts
          <6> QED
            BY <1>1, <6>1, <6>2
        <5> QED
          BY <1>3, <3>1, <5>1, <5>2
      <4>2. frames[i].slots \in Nat /\ Parameters(frames[i].fn) \in Nat
        BY <3>1, FrameFacts
      <4> QED
        BY <1>1, <1>2, <1>5, <3>1, <3>3, <3>2, <4>1, <4>2
    <3>4. CASE j # n + 1
      <4>1. j \in 1 .. n /\ frames'[j] = frames[j]
        BY <1>3, <1>5, <3>4
      <4> QED
        BY <1>3, <2>5, <3>1, <3>2, <4>1 DEF IInv, WhileRunning, FramesOK
    <3> QED
      BY <3>3, <3>4
  <2>6. Top >= new.slots + Parameters(new.fn) - 1
    <3>1. new.fn # Script
      BY <1>2, Apart DEF Value, Callables
    <3>2. Parameters(new.fn) = argc
      BY <1>2, <3>1 DEF Parameters
    <3> QED
      BY <1>1, <1>2, <3>2
  <2>7. Top' = Top
    BY <1>6 DEF Top
  <2> QED
    BY <1>5, <2>1, <2>2, <2>3, <2>4, <2>5, <2>6, <2>7 DEF FramesOK
<1> QED
  BY <1>7, <1>8, <1>9 DEF IInv, Always, WhileRunning

LEMMA CallInv ==
  ASSUME IInv, status = "running", NEW argc \in 0 .. Top, Call(argc)
  PROVE  IInv'
<1> DEFINE fn == Peek(argc)
<1>1. building = NULL /\ Operands(argc + 1) /\ argc \in Nat
  <2>1. Top \in Nat
    BY FrameFacts
  <2>2. argc \in Nat
    BY <2>1
  <2>3. Running /\ Operands(argc + 1)
    BY DEF Call
  <2> QED
    BY <2>2, <2>3 DEF Running
<1>2. CASE \E reason \in Errors \ {"upvalue"} : Fail(reason)
  BY <1>2, FailInv
<1>3. CASE ~ \E reason \in Errors \ {"upvalue"} : Fail(reason)
  <2>1. {"not callable", "arity", "stack overflow", "native"} \subseteq Errors \ {"upvalue"}
    BY DEF Errors
  <2>2. /\ fn \in Callables /\ Arity[Prototype(fn)] = argc /\ ~FramesFull
        /\ \/ /\ fn \in Natives
              /\ \E v \in Data : /\ Replace(argc + 1, v) /\ Continue
                                 /\ UNCHANGED <<frames, globals, heap>>
           \/ /\ fn \notin Natives
              /\ frames' = Append(frames, [fn |-> fn, slots |-> FirstSlot(argc)])
              /\ Continue /\ UNCHANGED <<stack, globals, heap>>
    BY <1>3, <2>1 DEF Call
  <2>3. CASE fn \in Natives
    <3>1. PICK v \in Data : /\ Replace(argc + 1, v) /\ Continue
                            /\ UNCHANGED <<frames, globals, heap>>
      BY <2>2, <2>3
    <3> QED
      BY <1>1, <3>1, DataUsable, ReplaceInv DEF Continue
  <2>4. CASE fn \notin Natives
    BY <1>1, <2>2, <2>4, PushFrameInv DEF Continue, Callables
  <2> QED
    BY <2>3, <2>4
<1> QED
  BY <1>2, <1>3

LEMMA ReturnInv ==
  ASSUME IInv, status = "running", Return
  PROVE  IInv'
<1> DEFINE n == Len(frames)
           s == Frame.slots
<1>1. CASE n = 1
  <2>1. /\ building = NULL /\ status' = "done" /\ frames' = <<>>
        /\ UNCHANGED <<stack, globals, closure, upvalue, open, building>>
    BY <1>1 DEF Return, Running, heap
  <2>2. TypeOK'
    BY <2>1, BoundAssumption DEF IInv, Always, TypeOK
  <2>3. OpenTyped' /\ OpenSorted' /\ UpvaluesInBounds' /\ ClosuresComplete'
    BY <2>1 DEF IInv, Always, OpenTyped, IsOpen, OpenSorted, UpvaluesInBounds, ClosuresComplete
  <2> QED
    BY <2>1, <2>2, <2>3 DEF IInv, Always
<1>2. CASE n # 1
  <2>1. /\ building = NULL /\ Operands(1)
        /\ stack' = Append(SubSeq(stack, 1, s - 2), Peek(0))
        /\ CloseAll({open[i] : i \in 1 .. Dying})
        /\ open' = SubSeq(open, Dying + 1, Len(open))
        /\ frames' = SubSeq(frames, 1, n - 1)
        /\ UNCHANGED <<globals, closure, building, status>>
    BY <1>2 DEF Return, Running
  <2>2. /\ n \in Nat /\ n > 1 /\ n \in 2 .. Len(frames) /\ Frame = frames[n]
        /\ Top \in Nat /\ s \in Nat /\ s - 1 \in 1 .. Top /\ 0 < Top
    <3>1. n \in 2 .. Len(frames)
      BY <1>2, FrameFacts
    <3> QED
      BY <3>1, FrameFacts, CalleeCells
  <2>3. Peek(0) \in Value /\ Usable(Peek(0))
    BY <2>2, PeekUsable
  <2> HIDE DEF n, s
  <2>4. /\ stack' \in Seq(Value) /\ Top' = s - 1 /\ stack'[s - 1] = Peek(0)
        /\ \A i \in 1 .. s - 2 : stack'[i] = stack[i]
    <3>1. stack \in Seq(Value) /\ s - 2 \in 0 .. Len(stack)
      BY <2>2 DEF IInv, Always, TypeOK, Top
    <3>2. /\ stack' \in Seq(Value) /\ Len(stack') = s - 2 + 1 /\ stack'[s - 2 + 1] = Peek(0)
          /\ \A i \in 1 .. s - 2 : stack'[i] = stack[i]
      BY <2>1, <2>3, <3>1, Topped
    <3> QED
      BY <2>2, <3>2 DEF Top
  <2>5. ASSUME NEW i \in 1 .. Top'
        PROVE  Usable(stack'[i])
    BY <2>2, <2>3, <2>4, CalleeCells
  <2>6. /\ open \in Seq(UpValues) /\ Len(open) \in Nat
        /\ \A j \in 1 .. Len(open) : open[j] \in UpValues /\ IsOpen(open[j])
        /\ \A j, k \in 1 .. Len(open) : j < k => Ref(j) > Ref(k)
        /\ \A j \in 1 .. Len(open) : Ref(j) \in Nat
    BY OpenRefs DEF IInv
  <2>7. /\ Dying \in 0 .. Len(open)
        /\ \A j \in Dying + 1 .. Len(open) : Ref(j) < s
    BY <2>2, DyingCloses DEF IInv, s
  <2>8. PICK d \in 0 .. Len(open) : d = Dying
    BY <2>7
  <2>9. /\ open' \in Seq(UpValues) /\ Len(open') = Len(open) - d
        /\ \A j \in 1 .. Len(open) - d : open'[j] = open[d + j]
    BY <2>1, <2>6, <2>8, Upper
  <2> DEFINE from == [j \in 1 .. Len(open') |-> d + j]
             us == {open[i] : i \in 1 .. d}
  <2>10. /\ from \in [1 .. Len(open') -> 1 .. Len(open)]
         /\ \A j \in 1 .. Len(open') : open'[j] = open[from[j]]
         /\ \A j, k \in 1 .. Len(open') : j < k => from[j] < from[k]
         /\ \A j \in 1 .. Len(open') : from[j] \in d + 1 .. Len(open)
    BY <2>6, <2>9
  <2>11. /\ us \in SUBSET UpValues /\ \A u \in us : IsOpen(u)
    BY <2>6
  <2>12. ASSUME NEW i \in 1 .. Len(open)
         PROVE  open[i] \in us <=> \A j \in 1 .. Len(open') : from[j] # i
    <3>1. CASE i \in 1 .. d
      <4>1. \A j \in 1 .. Len(open') : from[j] # i
        BY <2>6, <2>10, <3>1
      <4> QED
        BY <3>1, <4>1
    <3>2. CASE i \in d + 1 .. Len(open)
      <4>1. ASSUME NEW k \in 1 .. d
            PROVE  open[k] # open[i]
        BY <2>6, <3>2 DEF Ref
      <4>2. i - d \in 1 .. Len(open') /\ from[i - d] = i
        BY <2>6, <2>9, <3>2
      <4> QED
        BY <4>1, <4>2
    <3> QED
      BY <2>6, <3>1, <3>2
  <2>13. \A j \in 1 .. Len(open') : Ref(from[j]) <= Top'
    <3>1. ASSUME NEW j \in 1 .. Len(open')
          PROVE  Ref(from[j]) <= Top'
      <4>1. from[j] \in d + 1 .. Len(open) /\ from[j] \in 1 .. Len(open)
        BY <2>10
      <4>2. Ref(from[j]) < s /\ Ref(from[j]) \in Nat
        BY <2>6, <2>7, <2>8, <4>1
      <4> QED
        BY <2>2, <2>4, <4>2
    <3> QED
      BY <3>1
  <2>14. CloseAll(us)
    BY <2>1, <2>8
  <2> HIDE DEF from, us
  <2>15. /\ frames' \in Seq(FrameRecord) /\ Len(frames') = n - 1 /\ frames' # <<>>
         /\ DOMAIN frames' = 1 .. n - 1 /\ \A i \in 1 .. n - 1 : frames'[i] = frames[i]
    <3>1. frames \in Seq(FrameRecord) /\ n - 1 \in 0 .. Len(frames)
      BY <2>2 DEF IInv, Always, TypeOK, FrameRecord, n
    <3>2. /\ frames' \in Seq(FrameRecord) /\ Len(frames') = n - 1
          /\ \A i \in 1 .. n - 1 : frames'[i] = frames[i]
      BY <2>1, <3>1, Shorter
    <3> QED
      BY <2>2, <3>2
  <2>16. Len(frames') <= FrameMax
    BY <2>2, <2>15, BoundAssumption DEF IInv, Always, TypeOK, n
  <2>17. ASSUME \A a \in Nat : Captured(a)' => Captured(a)
         PROVE  FramesOK'
    <3>1. /\ \A i \in 1 .. n - 1 : Parameters(frames[i].fn)' = Parameters(frames'[i].fn)
          /\ Parameters(Frame.fn)' = Parameters(Frame'.fn)
      BY <2>1 DEF Parameters, Prototype
    <3>2. Frame' = frames[n - 1]
      BY <2>2, <2>15 DEF Frame
    <3>3. frames'[1] = [fn |-> Script, slots |-> 1]
      BY <2>2, <2>15 DEF IInv, WhileRunning, FramesOK
    <3>4. ASSUME NEW i \in 1 .. n - 1
          PROVE  /\ s > frames[i].slots + Parameters(frames[i].fn)
                 /\ frames[i].slots \in Nat /\ Parameters(frames[i].fn) \in Nat
      <4>1. i \in 1 .. Len(frames) /\ i < n /\ i \in DOMAIN frames /\ n \in DOMAIN frames
        BY <2>2, FrameFacts DEF n
      <4> QED
        BY <2>2, <4>1, FrameFacts DEF IInv, WhileRunning, FramesOK, s
    <3>5. ASSUME NEW i \in 2 .. n - 1
          PROVE  /\ (frames[i].slots - 1 <= Top)'
                 /\ (stack[frames[i].slots - 1] = frames[i].fn)'
                 /\ ~Captured(frames[i].slots - 1)'
      <4>1. i \in 2 .. Len(frames) /\ i \in 1 .. n - 1 /\ frames'[i] = frames[i]
        BY <2>2, <2>15 DEF n
      <4>2. PICK a \in 1 .. s - 2 : a = frames[i].slots - 1 /\ a \in Nat
        BY <2>2, <3>4, <4>1, CalleeCells
      <4>3. stack[a] = frames[i].fn /\ ~Captured(a)
        BY <4>1, <4>2, CalleeCells
      <4>4. ~Captured(a)'
        BY <2>17, <4>2, <4>3
      <4> QED
        BY <2>2, <2>4, <4>1, <4>2, <4>3, <4>4 DEF Captured
    <3>6. ASSUME NEW i \in 1 .. n - 1, NEW j \in 1 .. n - 1, i < j
          PROVE  (frames[j].slots > frames[i].slots + Parameters(frames[i].fn))'
      <4>1. i \in DOMAIN frames /\ j \in DOMAIN frames
        BY <2>2, FrameFacts, SMTT(30) DEF n
      <4>2. frames[j].slots > frames[i].slots + Parameters(frames[i].fn)
        BY <3>6, <4>1 DEF IInv, WhileRunning, FramesOK
      <4>3. Parameters(frames[i].fn)' = Parameters(frames[i].fn)
        BY <2>15, <3>1
      <4> QED
        BY <2>15, <4>2, <4>3
    <3>7. (Top >= Frame.slots + Parameters(Frame.fn) - 1)'
      <4>1. n - 1 \in 1 .. n - 1
        BY <2>2
      <4> QED
        BY <2>2, <2>4, <3>1, <3>2, <3>4, <4>1
    <3> QED
      BY <2>15, <3>1, <3>2, <3>3, <3>5, <3>6, <3>7 DEF FramesOK
  <2> QED
    BY <2>1, <2>4, <2>5, <2>9, <2>10, <2>11, <2>12, <2>13, <2>14, <2>15, <2>16, <2>17, CloseStep
       DEF FrameRecord
<1> QED
  BY <1>1, <1>2

LEMMA Inductive == IInv /\ [Next]_vars => IInv'
<1> SUFFICES ASSUME IInv, [Next]_vars PROVE IInv'
  OBVIOUS
<1>1. CASE UNCHANGED vars
  BY <1>1 DEF vars, IInv, Always, WhileRunning, TypeOK, OpenTyped, IsOpen, OpenSorted, OpenLive,
              ClosuresComplete, UpvaluesInBounds, FramesOK, ValuesUsable, Usable, BuildingOK,
              Captured, Parameters, Prototype, Frame, Top, Declares, Slots
<1>2. CASE Next
  <2>1. status = "running"
    BY <1>2 DEF Next
  <2>2. CASE \/ \E v \in Data : PushConst(v)
             \/ \E n \in 1 .. 2, v \in Data : NumberOp(n, v) \/ AnyOp(n, v)
             \/ Pop
             \/ \E f \in Fns : PushFunction(f)
    BY <2>1, <2>2, ValuesInv
  <2>3. CASE \E g \in Globals : DefineGlobal(g) \/ LoadGlobal(g) \/ StoreGlobal(g)
    BY <2>1, <2>3, GlobalsInv
  <2>4. CASE \/ \E slot \in Slots : LoadLocal(slot) \/ (Cells(1) /\ StoreLocal(slot))
             \/ \E i \in UpvalueIndices : LoadUpvalue(i) \/ StoreUpvalue(i)
    BY <2>1, <2>4, LocalsInv, UpvaluesInv
  <2>5. CASE \/ \E f \in Fns : Declares(f) /\ BeginClosure(f)
             \/ CaptureLocal \/ CaptureUpvalue \/ EndClosure \/ CloseUpvalue
    BY <2>1, <2>5, BeginClosureInv, CaptureLocalInv, CaptureUpvalueInv, EndClosureInv,
       CloseUpvalueInv
  <2>6. CASE (\E argc \in 0 .. Top : Call(argc)) \/ Return
    BY <2>1, <2>6, CallInv, ReturnInv
  <2> QED
    BY <1>2, <2>2, <2>3, <2>4, <2>5, <2>6 DEF Next
<1> QED
  BY <1>1, <1>2

LEMMA Invariance == Spec => []IInv
BY InitInv, Inductive, PTL DEF Spec

(* The variables keep their types.                                         *)
THEOREM TypeCorrect == Spec => []TypeOK
BY Invariance, PTL DEF IInv, Always

(* The cells of the frames lie one above the other, below the slots of     *)
(* each callee is the callee, and no parameter is ever dropped.            *)
THEOREM FramesStayNested == Spec => []FramesNested
<1>1. IInv => FramesNested
  <2> SUFFICES ASSUME IInv, status = "running" PROVE FramesNested
    BY DEF FramesNested
  <2>1. ASSUME NEW i \in 2 .. Len(frames)
        PROVE  frames[i].slots > frames[i - 1].slots + Parameters(frames[i - 1].fn)
    <3>1. i \in DOMAIN frames /\ i - 1 \in DOMAIN frames /\ i - 1 < i
      BY FrameFacts
    <3> QED
      BY <3>1 DEF IInv, WhileRunning, FramesOK
  <2> QED
    BY <2>1 DEF FramesNested, IInv, WhileRunning, FramesOK
<1> QED
  BY <1>1, Invariance, PTL

(* vm->upvalues is strictly descending, so that every walk over it that    *)
(* stops early has seen what it looks for.                                 *)
THEOREM OpenListSorted == Spec => []OpenSorted
BY Invariance, PTL DEF IInv, Always

(* The list holds the open upvalues, and no upvalue outlives its cell.     *)
THEOREM NoUpvalueOutlivesItsCell == Spec => []OpenLive
<1>1. IInv => OpenLive
  BY DEF IInv, WhileRunning, OpenLive
<1> QED
  BY <1>1, Invariance, PTL

(* A closure that can be called has an upvalue for every captured          *)
(* variable.                                                               *)
THEOREM ClosuresAreComplete == Spec => []ClosuresComplete
BY Invariance, PTL DEF IInv, Always

(* The checks on the operands of OP_LOAD_UVAL, OP_STORE_UVAL and           *)
(* OP_CLOSURE never fail.                                                  *)
THEOREM UpvalueOperandsInBounds == Spec => []UpvaluesInBounds
BY Invariance, PTL DEF IInv, Always
=============================================================================
