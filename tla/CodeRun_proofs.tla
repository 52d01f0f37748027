---------------------------- MODULE CodeRun_proofs ----------------------------
(***************************************************************************)
(* Proofs about CodeRun: what Codegen promises of the code it emits, and   *)
(* what the stack holds when this code runs.                               *)
(*                                                                         *)
(* A chart of a chunk gives every instruction a shape that the stack has   *)
(* when it is reached, on any path: how deep it is at least, which locals  *)
(* are in their slots, and how far the array literal in progress is.  An   *)
(* instruction leads from its shape to that of the one that follows, and   *)
(* no jump lands at a shape that asks for more than the one it starts at.  *)
(* The code generator could draw the chart while it emits code; the proof  *)
(* does, and execution keeps to it.                                        *)
(***************************************************************************)
EXTENDS CodeRun, Codegen_proofs

-----------------------------------------------------------------------------
(* Hypotheses.  The operands of the code are cut to a byte (Emit): what is *)
(* proved of locals and of arrays holds while nothing is lost by that.     *)

LocalsFit == \A p \in Profiles : (p.depth - 1) * p.locals <= ByteSize
ArraysFit == SlotSize < ByteSize /\ \A p \in Profiles : \A n \in p.arrays : n < ByteSize
Tracked == Orderly /\ LocalsFit
Arrayed == Tracked /\ ArraysFit

-----------------------------------------------------------------------------
(* The shape of the stack.                                                 *)

(* Locals that stand in different bytes, and have different names.         *)
Distinct(L) == /\ \A s \in L : s.slot < ByteSize
            /\ \A s, t \in L : s # t => s.slot # t.slot /\ s.id # t.id
Clear(L, n) == \A s \in L : s.slot < n

(* <<n, f, j>>: of n elements f were stored in the array, and j are on the *)
(* stack above it.                                                         *)
Progress == Nat \X Nat \X Nat
None == <<0, 0, 0>>
Building(n, f, j) == IF Arrayed /\ f < n THEN <<n, f, j>> ELSE None

Shapes == {x \in [depth : Nat, locals : SUBSET Symbols, array : Progress] : Distinct(x.locals)}
Shape(n, L, a) == [depth |-> n, locals |-> L, array |-> a]
Under(x, y) == x.depth <= y.depth /\ x.locals \subseteq y.locals /\ x.array = y.array

-----------------------------------------------------------------------------
(* From the shape at an instruction to the shape behind it.                *)

Pushing == {"OP_CONST", "OP_NIL", "OP_LOAD_GLOB", "OP_LOAD_LOC", "OP_ARR", "OP_CLOSURE"}
Popping == {"OP_POP", "OP_PRINT", "OP_DEFINE_GLOB", "OP_ADD"}
Writing == Pushing \cup {"OP_ADD", "OP_CALL", "OP_COLLECT"}
Leaving == {"OP_JMP", "OP_LOOP", "OP_RETURN"}
Effect(ch, o) == IF OpAt(ch, o) \in Pushing THEN 1
                 ELSE IF OpAt(ch, o) \in Popping THEN -1
                 ELSE IF OpAt(ch, o) = "OP_CALL" THEN -ByteAt(ch, o + 1)
                 ELSE IF OpAt(ch, o) = "OP_COLLECT" THEN -ByteAt(ch, o + 2)
                 ELSE 0

(* What an instruction was emitted for, and nothing else.                  *)
MeaningAt(ch, o) == {m \in ch.meaning : m[1] = o}
Marks(ch, o, what) == MeaningAt(ch, o) = {<<o, what>>}
OfLocal(ch, o, s) == ByteAt(ch, o + 1) = s.slot /\ Marks(ch, o, <<"local", s.id>>)

(* Nothing is written below the locals that stay, a local that is read is  *)
(* there, and one that is stored takes the cell and the name of no other.  *)
Stores(ch, o, x, y, s) ==
  /\ OfLocal(ch, o, s) /\ s.slot < x.depth
  /\ \A t \in y.locals : t = s \/ (t \in x.locals /\ t.slot # s.slot /\ t.id # s.id)
KeepsLocals(ch, o, x, y) ==
  /\ OpAt(ch, o) \in Writing => Clear(y.locals, x.depth + Effect(ch, o) - 1)
  /\ OpAt(ch, o) = "OP_LOAD_LOC" /\ Tracked => \E s \in x.locals : OfLocal(ch, o, s)
  /\ IF OpAt(ch, o) = "OP_STORE_LOC" /\ Tracked THEN \E s \in Symbols : Stores(ch, o, x, y, s)
     ELSE y.locals \subseteq x.locals

(* In an array literal the numbers come one after the other, and each      *)
(* batch of them is stored behind those before.                            *)
FillsArray(ch, o, x, y) ==
  /\ OpAt(ch, o) \in {"OP_CONST", "OP_CLOSURE"} =>
       \E c \in Constants : /\ Marks(ch, o, c)
                            /\ x.array # None => c = Number(x.array[2] + x.array[3] + 1)
  /\ OpAt(ch, o) = "OP_CONST" =>
       y.array = IF x.array = None THEN None ELSE <<x.array[1], x.array[2], x.array[3] + 1>>
  /\ OpAt(ch, o) = "OP_ARR" => x.array = None /\ y.array = Building(ByteAt(ch, o + 1), 0, 0)
  /\ OpAt(ch, o) = "OP_COLLECT" =>
       /\ x.array # None
       /\ ByteAt(ch, o + 1) * SlotSize = x.array[2] /\ ByteAt(ch, o + 2) = x.array[3]
       /\ x.array[2] + x.array[3] <= x.array[1]
       /\ y.array = Building(x.array[1], x.array[2] + x.array[3], 0)
  /\ OpAt(ch, o) \notin {"OP_CONST", "OP_ARR", "OP_COLLECT"} => x.array = None /\ y.array = None

Leads(ch, o, x, y) == /\ y.depth <= x.depth + Effect(ch, o)
                      /\ KeepsLocals(ch, o, x, y)
                      /\ Arrayed => FillsArray(ch, o, x, y)

(* d charts ch, but for the jumps whose operands are waiting.              *)
Passes(ch, d, waiting, o) ==
  /\ OpAt(ch, o) \notin Leaving => Leads(ch, o, d[o], d[Following(ch, o)])
  /\ OpAt(ch, o) \in Jumps => \/ o + 1 \in waiting
                              \/ Target(ch, o) \in Begins(ch) /\ Under(d[Target(ch, o)], d[o])
Anchored(ch) == \A m \in ch.meaning : m[1] \in Ops(ch)
Charts(ch, d, waiting) == /\ ch \in Chunks /\ Whole(ch) /\ Anchored(ch)
                          /\ d \in [Nat -> Shapes] /\ d[0] = Shape(0, {}, None)
                          /\ \A o \in Ops(ch) : Passes(ch, d, waiting, o)

(* A chunk that went on, and its chart.                                    *)
Prolongs(ch, to, d, dd) == /\ Count(ch) <= Count(to) /\ Kept(ch, to)
                           /\ \A o \in 0 .. Count(ch) : dd[o] = d[o]

LEMMA ShapeParts ==
  ASSUME NEW n, NEW L, NEW a
  PROVE  Shape(n, L, a).depth = n /\ Shape(n, L, a).locals = L /\ Shape(n, L, a).array = a
BY DEF Shape

LEMMA ShapeType ==
  ASSUME NEW n \in Nat, NEW L \in SUBSET Symbols, Distinct(L), NEW a \in Progress
  PROVE  Shape(n, L, a) \in Shapes
BY DEF Shape, Shapes

LEMMA ShapesAre ==
  ASSUME NEW x \in Shapes
  PROVE  /\ x.depth \in Nat /\ x.locals \in SUBSET Symbols /\ x.array \in Progress /\ Distinct(x.locals)
         /\ x = Shape(x.depth, x.locals, x.array)
BY DEF Shapes, Shape

LEMMA NoneType == None \in Progress
BY DEF None, Progress

LEMMA BuildingType ==
  ASSUME NEW n \in Nat, NEW f \in Nat, NEW j \in Nat
  PROVE  Building(n, f, j) \in Progress
BY NoneType DEF Building, Progress

LEMMA UnderItself ==
  ASSUME NEW x \in Shapes
  PROVE  Under(x, x)
BY ShapesAre DEF Under

LEMMA UnderTwice ==
  ASSUME NEW x \in Shapes, NEW y \in Shapes, NEW z \in Shapes, Under(x, y), Under(y, z)
  PROVE  Under(x, z)
<1>1. x.depth \in Nat /\ y.depth \in Nat /\ z.depth \in Nat
  BY ShapesAre
<1>2. x.depth <= y.depth /\ y.depth <= z.depth /\ x.array = z.array
      /\ x.locals \subseteq y.locals /\ y.locals \subseteq z.locals
  BY DEF Under
<1>3. x.locals \subseteq z.locals
  BY <1>2
<1>4. x.depth <= z.depth
  BY <1>1, <1>2
<1> QED
  BY <1>2, <1>3, <1>4 DEF Under

LEMMA WidthOf ==
  ASSUME NEW ch \in Chunks, Whole(ch), NEW o \in Ops(ch)
  PROVE  /\ OpAt(ch, o) \in {"OP_CALL", "OP_ARR"} => OperandsAt(ch, o) = 1
         /\ OpAt(ch, o) = "OP_COLLECT" => OperandsAt(ch, o) = 2
<1>1. "OP_CALL" \in WithOne /\ "OP_ARR" \in WithOne /\ "OP_COLLECT" \in WithTwo
  BY DEF WithOne, WithTwo
<1> QED
  BY <1>1, Widths DEF OperandsAt, OpAt

LEMMA EffectIs ==
  ASSUME NEW ch \in Chunks, Whole(ch), NEW o \in Ops(ch)
  PROVE  /\ Effect(ch, o) \in Int
         /\ \A to : SameAt(ch, to, o) => Effect(to, o) = Effect(ch, o)
<1>1. Instruction(ch, o)
  BY InstructionIs
<1>2. PICK f : f = Following(ch, o)
  OBVIOUS
<1>3. o \in Nat /\ f \in Nat /\ f = o + 1 + OperandsAt(ch, o)
      /\ \A k \in o + 1 .. f - 1 : ch.code[k + 1] \in ByteCells
  BY <1>1, <1>2 DEF Instruction
<1>4. OpAt(ch, o) = "OP_CALL" => ByteAt(ch, o + 1) \in Int
  <2>1. ASSUME OpAt(ch, o) = "OP_CALL"
        PROVE  ByteAt(ch, o + 1) \in Int
    <3>1. o + 1 \in o + 1 .. f - 1
      BY <1>3, <2>1, WidthOf
    <3>2. ch.code[o + 1 + 1] \in ByteCells
      BY <1>3, <3>1
    <3> QED
      BY <3>2, CellKinds, CodegenAssumption DEF ByteAt
  <2> QED
    BY <2>1
<1>5. OpAt(ch, o) = "OP_COLLECT" => ByteAt(ch, o + 2) \in Int
  <2>1. ASSUME OpAt(ch, o) = "OP_COLLECT"
        PROVE  ByteAt(ch, o + 2) \in Int
    <3>1. o + 2 \in o + 1 .. f - 1
      BY <1>3, <2>1, WidthOf
    <3>2. ch.code[o + 2 + 1] \in ByteCells
      BY <1>3, <3>1
    <3> QED
      BY <3>2, CellKinds, CodegenAssumption DEF ByteAt
  <2> QED
    BY <2>1
<1>6. Effect(ch, o) \in Int
  BY <1>4, <1>5 DEF Effect
<1>7. ASSUME NEW to, SameAt(ch, to, o)
      PROVE  Effect(to, o) = Effect(ch, o)
  <2>1. OpAt(to, o) = OpAt(ch, o)
    BY <1>7 DEF SameAt
  <2>2. OpAt(ch, o) = "OP_CALL" => ByteAt(to, o + 1) = ByteAt(ch, o + 1)
    BY <1>7, WidthOf DEF SameAt, SameOperands
  <2>3. OpAt(ch, o) = "OP_COLLECT" => ByteAt(to, o + 2) = ByteAt(ch, o + 2)
    BY <1>7, WidthOf DEF SameAt, SameOperands
  <2> QED
    BY <2>1, <2>2, <2>3 DEF Effect
<1> QED
  BY <1>6, <1>7

(* What holds of an instruction holds where its cells and its meaning are  *)
(* the same.                                                               *)
LEMMA LeadsKept ==
  ASSUME NEW ch \in Chunks, Whole(ch), NEW o \in Ops(ch), NEW to, SameAt(ch, to, o),
         MeaningAt(to, o) = MeaningAt(ch, o), NEW x, NEW y, Leads(ch, o, x, y)
  PROVE  Leads(to, o, x, y)
<1>1. OpAt(to, o) = OpAt(ch, o) /\ Effect(to, o) = Effect(ch, o)
  BY EffectIs DEF SameAt
<1>2. OpAt(ch, o) \in {"OP_LOAD_LOC", "OP_STORE_LOC"} => ByteAt(to, o + 1) = ByteAt(ch, o + 1)
  BY DEF SameAt, Naming
<1>3. OpAt(ch, o) = "OP_ARR" => ByteAt(to, o + 1) = ByteAt(ch, o + 1)
  BY WidthOf DEF SameAt, SameOperands
<1>4. OpAt(ch, o) = "OP_COLLECT" => /\ ByteAt(to, o + 1) = ByteAt(ch, o + 1)
                                    /\ ByteAt(to, o + 2) = ByteAt(ch, o + 2)
  BY WidthOf DEF SameAt, SameOperands
<1>5. \A what : Marks(to, o, what) = Marks(ch, o, what)
  BY DEF Marks
<1>6. KeepsLocals(to, o, x, y)
  <2>1. KeepsLocals(ch, o, x, y)
    BY DEF Leads
  <2>2. OpAt(ch, o) \in {"OP_LOAD_LOC", "OP_STORE_LOC"} =>
          \A s : OfLocal(to, o, s) = OfLocal(ch, o, s)
    BY <1>2, <1>5 DEF OfLocal
  <2>3. OpAt(ch, o) = "OP_STORE_LOC" => \A s : Stores(to, o, x, y, s) = Stores(ch, o, x, y, s)
    BY <2>2 DEF Stores
  <2> QED
    BY <1>1, <2>1, <2>2, <2>3 DEF KeepsLocals
<1>7. Arrayed => FillsArray(to, o, x, y)
  <2>1. Arrayed => FillsArray(ch, o, x, y)
    BY DEF Leads
  <2> QED
    BY <1>1, <1>3, <1>4, <1>5, <2>1 DEF FillsArray
<1> QED
  BY <1>1, <1>6, <1>7 DEF Leads

(* An instruction was emitted, and what it was emitted for was noted.      *)
Remembers(ch, to) == /\ ch.meaning \subseteq to.meaning
                     /\ \A m \in to.meaning : m \in ch.meaning \/ m[1] = Count(ch)
Adds(ch, to, op) ==
  /\ to \in Chunks /\ Count(ch) < Count(to) /\ Remembers(ch, to)
  /\ Whole(ch) => Continued(ch, to, op) /\ Following(to, Count(ch)) = Count(to)
(* v may stand behind it, when the holes of more are added.                *)
Follows(ch, to, op, d, v, more) ==
  /\ v \in Shapes /\ more \in SUBSET Nat
  /\ op \notin Leaving => Leads(to, Count(ch), d[Count(ch)], v)
  /\ op \in Jumps => \/ Count(ch) + 1 \in more
                     \/ /\ Target(to, Count(ch)) \in Begins(ch)
                        /\ Under(d[Target(to, Count(ch))], d[Count(ch)])
Marked(d, to, v) == [d EXCEPT ![Count(to)] = v]

LEMMA ChartEmit ==
  ASSUME NEW ch, NEW d, NEW W \in SUBSET Nat, Charts(ch, d, W),
         NEW to, NEW op, Adds(ch, to, op),
         NEW v, NEW more, Follows(ch, to, op, d, v, more),
         NEW dd, dd = Marked(d, to, v)
  PROVE  Charts(to, dd, W \cup more) /\ Prolongs(ch, to, d, dd) /\ dd[Count(to)] = v
<1>0. /\ v \in Shapes /\ more \in SUBSET Nat
      /\ op \notin Leaving => Leads(to, Count(ch), d[Count(ch)], v)
      /\ op \in Jumps => \/ Count(ch) + 1 \in more
                         \/ /\ Target(to, Count(ch)) \in Begins(ch)
                            /\ Under(d[Target(to, Count(ch))], d[Count(ch)])
  BY DEF Follows
<1>1. /\ ch \in Chunks /\ Whole(ch) /\ d \in [Nat -> Shapes] /\ d[0] = Shape(0, {}, None)
      /\ Anchored(ch) /\ \A o \in Ops(ch) : Passes(ch, d, W, o)
  BY DEF Charts
<1>2. PICK c, n : c = Count(ch) /\ n = Count(to)
  OBVIOUS
<1>3. to \in Chunks /\ c \in Nat /\ n \in Nat /\ c < n
  BY <1>1, <1>2, ChunkType DEF Adds
<1>4. /\ Whole(to) /\ Ops(to) = Ops(ch) \cup {c} /\ OpAt(to, c) = op
      /\ \A o \in Ops(ch) : SameAt(ch, to, o)
      /\ Following(to, c) = n
  BY <1>1, <1>2 DEF Adds, Continued
<1>5. /\ dd \in [Nat -> Shapes] /\ dd[n] = v /\ dd[0] = Shape(0, {}, None)
      /\ \A o \in 0 .. c : dd[o] = d[o]
  <2>1. \A o \in 0 .. c : o \in Nat /\ o # n
    BY <1>3
  <2>2. 0 \in 0 .. c
    BY <1>3
  <2> QED
    BY <1>0, <1>1, <1>2, <1>3, <2>1, <2>2 DEF Marked
<1>6. Kept(ch, to)
  <2>1. Begins(ch) \subseteq Begins(to)
    BY <1>2, <1>4 DEF Begins
  <2> QED
    BY <1>4, <2>1 DEF Kept, SameAt
<1>7. (\A b \in Begins(ch) : b \in 0 .. c) /\ \A o \in Ops(ch) : o # c
  BY <1>2, <1>3 DEF Begins, Ops
<1>12. Anchored(to) /\ \A o \in Ops(ch) : MeaningAt(to, o) = MeaningAt(ch, o)
  BY <1>1, <1>2, <1>4, <1>7 DEF Adds, Remembers, Anchored, MeaningAt
<1>8. ASSUME NEW o \in Ops(ch)
      PROVE  Passes(to, dd, W \cup more, o)
  <2>1. Passes(ch, d, W, o) /\ SameAt(ch, to, o) /\ MeaningAt(to, o) = MeaningAt(ch, o)
    BY <1>1, <1>4, <1>12
  <2>2. OpAt(to, o) = OpAt(ch, o) /\ Following(to, o) = Following(ch, o)
    BY <2>1 DEF SameAt
  <2>3. \A x, y : Leads(ch, o, x, y) => Leads(to, o, x, y)
    BY <1>1, <2>1, LeadsKept
  <2>4. o \in 0 .. c /\ Following(ch, o) \in 0 .. c
    BY <1>1, <1>7 DEF Begins, Whole
  <2>5. dd[o] = d[o] /\ dd[Following(ch, o)] = d[Following(ch, o)]
    BY <1>5, <2>4
  <2>6. ASSUME OpAt(ch, o) \in Jumps
        PROVE  \/ o + 1 \in W \cup more
               \/ Target(to, o) \in Begins(to) /\ Under(dd[Target(to, o)], dd[o])
    <3>1. Target(to, o) = Target(ch, o)
      BY <2>1, <2>6 DEF SameAt
    <3>2. \/ o + 1 \in W
          \/ Target(ch, o) \in Begins(ch) /\ Under(d[Target(ch, o)], d[o])
      BY <2>1, <2>6 DEF Passes
    <3>3. Target(ch, o) \in Begins(ch) => dd[Target(ch, o)] = d[Target(ch, o)]
      BY <1>5, <1>7
    <3> QED
      BY <1>6, <2>5, <3>1, <3>2, <3>3 DEF Kept
  <2> QED
    BY <2>1, <2>2, <2>3, <2>5, <2>6 DEF Passes
<1>9. Passes(to, dd, W \cup more, c)
  <2>1. dd[c] = d[c]
    BY <1>3, <1>5
  <2>2. op \notin Leaving => Leads(to, c, dd[c], dd[Following(to, c)])
    BY <1>0, <1>2, <1>4, <1>5, <2>1
  <2>3. ASSUME op \in Jumps
        PROVE  \/ c + 1 \in W \cup more
               \/ Target(to, c) \in Begins(to) /\ Under(dd[Target(to, c)], dd[c])
    <3>1. \/ c + 1 \in more
          \/ Target(to, c) \in Begins(ch) /\ Under(d[Target(to, c)], d[c])
      BY <1>0, <1>2, <2>3
    <3>2. Target(to, c) \in Begins(ch) => dd[Target(to, c)] = d[Target(to, c)]
      BY <1>5, <1>7
    <3> QED
      BY <1>6, <2>1, <3>1, <3>2 DEF Kept
  <2> QED
    BY <1>4, <2>2, <2>3 DEF Passes
<1>10. Charts(to, dd, W \cup more)
  BY <1>3, <1>4, <1>5, <1>8, <1>9, <1>12 DEF Charts
<1>11. Prolongs(ch, to, d, dd)
  BY <1>2, <1>3, <1>5, <1>6 DEF Prolongs
<1> QED
  BY <1>2, <1>5, <1>10, <1>11

-----------------------------------------------------------------------------
(* What is emitted for an expression.                                      *)

LEMMA SmallerByte ==
  ASSUME NEW n \in Nat
  PROVE  Byte(n) \in Nat /\ Byte(n) <= n /\ (n < ByteSize => Byte(n) = n)
BY CodegenAssumption DEF Byte

LEMMA SecondOf ==
  ASSUME NEW s \in Seq(Nat), Len(s) = 2
  PROVE  s[1] \in Nat /\ s[2] \in Nat
<1>1. 1 \in 1 .. Len(s) /\ 2 \in 1 .. Len(s)
  OBVIOUS
<1> QED
  BY <1>1, ElementOfSeq

(* The instruction of a chunk at c, as it was emitted.                     *)
Stands(to, c, op, operands) ==
  OpAt(to, c) = op /\ \A j \in 1 .. Len(operands) : ByteAt(to, c + j) = Byte(operands[j])

LEMMA EmitStands ==
  ASSUME NEW ch \in Chunks, NEW to \in Chunks, NEW op \in DOMAIN Width,
         NEW operands \in Seq(Int), Emitted(ch, to, op, operands), Fitting(op, operands)
  PROVE  Stands(to, Count(ch), op, operands) /\ Following(to, Count(ch)) = Count(to)
<1>1. PICK c, n : c = Count(ch) /\ n = Len(operands)
  OBVIOUS
<1>2. c \in Nat /\ n \in Nat /\ Count(to) = c + 1 + n
  BY <1>1, ChunkType DEF Emitted
<1>3. OpAt(to, c) = op
  BY <1>1 DEF Emitted, OpAt
<1>4. \A j \in 1 .. n : ByteAt(to, c + j) = Byte(operands[j])
  <2>1. ASSUME NEW j \in 1 .. n
        PROVE  ByteAt(to, c + j) = Byte(operands[j])
    <3>1. to.code[c + 1 + j] = [byte |-> Byte(operands[j])]
      BY <1>1 DEF Emitted
    <3>2. c + 1 + j = c + j + 1
      BY <1>2
    <3> QED
      BY <3>1, <3>2 DEF ByteAt
  <2> QED
    BY <2>1
<1>5. OperandsAt(to, c) = n
  <2>1. CASE op = "OP_CLOSURE"
    <3>1. n >= 2 /\ n = 2 + 2 * Byte(operands[2])
      BY <1>1, <2>1 DEF Fitting
    <3>2. ByteAt(to, c + 2) = Byte(operands[2])
      BY <1>2, <1>4, <3>1
    <3> QED
      BY <1>3, <2>1, <3>1, <3>2 DEF OperandsAt, OpAt
  <2>2. CASE op # "OP_CLOSURE"
    BY <1>1, <1>3, <2>2 DEF OperandsAt, OpAt, Fitting
  <2> QED
    BY <2>1, <2>2
<1>6. Following(to, c) = Count(to)
  BY <1>2, <1>5 DEF Following
<1> QED
  BY <1>1, <1>3, <1>4, <1>6 DEF Stands

LEMMA EmitAdds ==
  ASSUME NEW ch \in Chunks, NEW to \in Chunks, NEW op \in DOMAIN Width,
         NEW operands \in Seq(Int), Emitted(ch, to, op, operands), Fitting(op, operands),
         Remembers(ch, to)
  PROVE  Adds(ch, to, op)
<1>1. Count(ch) \in Nat /\ Len(operands) \in Nat /\ Count(to) = Count(ch) + 1 + Len(operands)
  BY ChunkType DEF Emitted
<1>2. Count(ch) < Count(to)
  BY <1>1
<1>3. Whole(ch) => Continued(ch, to, op)
  BY EmittedWhole
<1> QED
  BY <1>2, <1>3, EmitStands DEF Adds

(* Emission that leads from the shape x to the shape y.                    *)
Moves(ch, to, x, y) ==
  /\ to \in Chunks
  /\ \A d : \A W \in SUBSET Nat : Charts(ch, d, W) /\ d[Count(ch)] = x =>
       \E dd : Charts(to, dd, W) /\ Prolongs(ch, to, d, dd) /\ dd[Count(to)] = y

LEMMA ProlongsTwice ==
  ASSUME NEW a, NEW b, NEW c, NEW da, NEW db, NEW dc,
         a \in Chunks, b \in Chunks, c \in Chunks,
         Prolongs(a, b, da, db), Prolongs(b, c, db, dc)
  PROVE  Prolongs(a, c, da, dc)
<1>1. PICK p, q, r : p = Count(a) /\ q = Count(b) /\ r = Count(c)
  OBVIOUS
<1>2. p \in Nat /\ q \in Nat /\ r \in Nat /\ p <= q /\ q <= r
  BY <1>1, ChunkType DEF Prolongs
<1>3. Kept(a, c)
  <2>1. Kept(a, b) /\ Kept(b, c)
    BY DEF Prolongs
  <2> QED
    BY <2>1 DEF Kept
<1>4. ASSUME NEW o \in 0 .. p
      PROVE  dc[o] = da[o]
  <2>1. o \in 0 .. q
    BY <1>2
  <2> QED
    BY <1>1, <2>1 DEF Prolongs
<1> QED
  BY <1>1, <1>2, <1>3, <1>4 DEF Prolongs

LEMMA ProlongsItself ==
  ASSUME NEW ch \in Chunks, NEW d
  PROVE  Prolongs(ch, ch, d, d)
BY ChunkType DEF Prolongs, Kept

LEMMA MovesThen ==
  ASSUME NEW a \in Chunks, NEW b, NEW c, NEW x, NEW y, NEW z, Moves(a, b, x, y), Moves(b, c, y, z)
  PROVE  Moves(a, c, x, z)
<1>1. b \in Chunks /\ c \in Chunks
  BY DEF Moves
<1>2. ASSUME NEW d, NEW W \in SUBSET Nat, Charts(a, d, W), d[Count(a)] = x
      PROVE  \E dd : Charts(c, dd, W) /\ Prolongs(a, c, d, dd) /\ dd[Count(c)] = z
  <2>1. PICK db : Charts(b, db, W) /\ Prolongs(a, b, d, db) /\ db[Count(b)] = y
    BY <1>2 DEF Moves
  <2>2. PICK dc : Charts(c, dc, W) /\ Prolongs(b, c, db, dc) /\ dc[Count(c)] = z
    BY <2>1 DEF Moves
  <2> QED
    BY <1>1, <2>1, <2>2, ProlongsTwice
<1> QED
  BY <1>1, <1>2 DEF Moves

LEMMA MovesNone ==
  ASSUME NEW ch \in Chunks, NEW x
  PROVE  Moves(ch, ch, x, x)
BY ProlongsItself DEF Moves

(* An instruction that was emitted, and leads from x to y.                 *)
Arrives(ch, to, op, operands, x, y) ==
  Anchored(ch) /\ Stands(to, Count(ch), op, operands) => Leads(to, Count(ch), x, y)

LEMMA EmitMoves ==
  ASSUME NEW ch \in Chunks, NEW op \in DOMAIN Width, op \notin Jumps, op \notin Leaving,
         NEW operands \in Seq(Int), Fitting(op, operands),
         NEW to \in Chunks, Emitted(ch, to, op, operands), Remembers(ch, to),
         NEW x, NEW y \in Shapes, Arrives(ch, to, op, operands, x, y)
  PROVE  Moves(ch, to, x, y)
<1>1. ASSUME NEW d, NEW W \in SUBSET Nat, Charts(ch, d, W), d[Count(ch)] = x
      PROVE  \E dd : Charts(to, dd, W) /\ Prolongs(ch, to, d, dd) /\ dd[Count(to)] = y
  <2>1. Adds(ch, to, op) /\ Stands(to, Count(ch), op, operands)
    BY EmitAdds, EmitStands
  <2>2. Leads(to, Count(ch), x, y)
    BY <1>1, <2>1 DEF Arrives, Charts
  <2>3. PICK dd, none : dd = Marked(d, to, y) /\ none = {}
    OBVIOUS
  <2>4. Follows(ch, to, op, d, y, none)
    BY <1>1, <2>2, <2>3 DEF Follows
  <2>5. Charts(to, dd, W \cup none) /\ Prolongs(ch, to, d, dd) /\ dd[Count(to)] = y
    <3>1. Adds(ch, to, op) /\ Charts(ch, d, W) /\ dd = Marked(d, to, y)
      BY <1>1, <2>1, <2>3
    <3> QED
      BY <2>4, <3>1, ChartEmit
  <2>6. W \cup none = W
    BY <2>3
  <2> QED
    BY <2>5, <2>6
<1> QED
  BY <1>1 DEF Moves

(* The shapes x and y are of one list of locals, v apart, without an array *)
(* in progress.                                                            *)
Apiece(x, y, v) == /\ y.depth = x.depth + v /\ y.locals \subseteq x.locals
                   /\ x.array = None /\ y.array = None

LEMMA AloneMoves ==
  ASSUME NEW ch \in Chunks, NEW x \in Shapes, NEW y \in Shapes
  PROVE  /\ Apiece(x, y, 1) /\ Clear(y.locals, x.depth) => Moves(ch, Emit(ch, "OP_NIL", <<>>), x, y)
         /\ Apiece(x, y, -1) /\ Clear(y.locals, y.depth - 1) => Moves(ch, Emit(ch, "OP_ADD", <<>>), x, y)
         /\ \A op \in {"OP_POP", "OP_PRINT"} : Apiece(x, y, -1) => Moves(ch, Emit(ch, op, <<>>), x, y)
<1>1. ASSUME NEW op \in {"OP_NIL", "OP_POP", "OP_PRINT", "OP_ADD"}, NEW v \in {-1, 1},
             Apiece(x, y, v), v = IF op = "OP_NIL" THEN 1 ELSE -1,
             op \in {"OP_NIL", "OP_ADD"} => Clear(y.locals, y.depth - 1)
      PROVE  Moves(ch, Emit(ch, op, <<>>), x, y)
  <2>1. op \in DOMAIN Width /\ Width[op] = 0 /\ op \notin Jumps /\ op \notin Leaving
        /\ op # "OP_CLOSURE"
    BY <1>1, Widths DEF Alone, Jumps, Leaving
  <2>2. <<>> \in Seq(Int) /\ Len(<<>>) = 0
    OBVIOUS
  <2>3. Fitting(op, <<>>)
    BY <2>1, <2>2 DEF Fitting
  <2>4. PICK to : to = Emit(ch, op, <<>>)
    OBVIOUS
  <2>5. Emitted(ch, to, op, <<>>) /\ to \in Chunks /\ Remembers(ch, to)
    <3>1. Emitted(ch, to, op, <<>>) /\ to.meaning = ch.meaning
      BY <2>1, <2>2, <2>4, EmitType
    <3> QED
      BY <3>1 DEF Emitted, Remembers
  <2>6. ASSUME OpAt(to, Count(ch)) = op
        PROVE  Leads(to, Count(ch), x, y)
    <3>1. Effect(to, Count(ch)) = v
      BY <1>1, <2>6 DEF Effect, Pushing, Popping
    <3>2. y.depth = x.depth + v /\ x.depth \in Nat /\ y.depth \in Nat
      BY <1>1, ShapesAre DEF Apiece
    <3>3. KeepsLocals(to, Count(ch), x, y)
      <4>1. x.depth + v - 1 = y.depth - 1
        BY <1>1, <3>2
      <4>2. op \in Writing => Clear(y.locals, x.depth + Effect(to, Count(ch)) - 1)
        BY <1>1, <3>1, <4>1 DEF Writing, Pushing
      <4> QED
        BY <1>1, <2>6, <4>2 DEF KeepsLocals, Apiece
    <3>4. FillsArray(to, Count(ch), x, y)
      BY <1>1, <2>6 DEF FillsArray, Apiece
    <3> QED
      BY <1>1, <3>1, <3>2, <3>3, <3>4 DEF Leads
  <2>7. Arrives(ch, to, op, <<>>, x, y)
    BY <2>6 DEF Arrives, Stands
  <2> QED
    BY <2>1, <2>2, <2>3, <2>4, <2>5, <2>7, EmitMoves
<1>2. x.depth \in Nat /\ y.depth \in Nat
  BY ShapesAre
<1>3. Apiece(x, y, 1) => y.depth - 1 = x.depth
  BY <1>2 DEF Apiece
<1> QED
  BY <1>1, <1>3

(* Instructions that name a constant.  One that pushes a number counts as  *)
(* the next element while an array literal is in progress.                 *)
Element(x, y, value) ==
  IF Arrayed /\ x.array # None
  THEN /\ value = Number(x.array[2] + x.array[3] + 1)
       /\ y.array = <<x.array[1], x.array[2], x.array[3] + 1>>
  ELSE x.array = None /\ y.array = None
Named(x, y, op, value) ==
  /\ y.depth = x.depth + IF op \in Pushing THEN 1 ELSE IF op \in Popping THEN -1 ELSE 0
  /\ y.locals \subseteq x.locals
  /\ op \in Pushing => Clear(y.locals, x.depth)
  /\ IF op = "OP_CONST" THEN Element(x, y, value) ELSE x.array = None /\ y.array = None

LEMMA ConstantMoves ==
  ASSUME NEW ch \in Chunks, NEW op \in {"OP_CONST", "OP_LOAD_GLOB", "OP_STORE_GLOB", "OP_DEFINE_GLOB"},
         NEW value \in Constants, NEW x \in Shapes, NEW y \in Shapes, Named(x, y, op, value)
  PROVE  Moves(ch, EmitConstant(ch, op, value), x, y)
<1>1. op \in DOMAIN Width /\ Width[op] = 1 /\ op \notin Jumps /\ op \notin Leaving
      /\ op \notin {"OP_CLOSURE", "OP_CALL", "OP_COLLECT"} /\ op \in NamedOps
  BY Widths DEF WithOne, Jumps, Leaving, NamedOps
<1>2. PICK operands : operands = <<Place(ch, value)>>
  OBVIOUS
<1>3. operands \in Seq(Int) /\ Len(operands) = 1
  <2>1. Place(ch, value) \in Int
    BY PlaceIs
  <2> QED
    BY <1>2, <2>1
<1>4. Fitting(op, operands)
  BY <1>1, <1>3 DEF Fitting
<1>5. PICK raw, to : raw = Emit(ch, op, operands) /\ to = EmitConstant(ch, op, value)
  OBVIOUS
<1>6. Emitted(ch, raw, op, operands) /\ raw.meaning = ch.meaning
  BY <1>1, <1>3, <1>5, EmitType
<1>7. to \in Chunks
  BY <1>1, <1>5, ConstantSteps DEF Builds
<1>8. to.code = raw.code /\ to.meaning = ch.meaning \cup {<<Count(ch), value>>}
  <2>1. raw \in Chunks
    BY <1>6 DEF Emitted
  <2> QED
    BY <1>2, <1>5, <1>6, <2>1 DEF EmitConstant, Means, Chunks
<1>9. Emitted(ch, to, op, operands) /\ Remembers(ch, to)
  BY <1>6, <1>7, <1>8 DEF Emitted, Count, Remembers
<1>10. ASSUME Anchored(ch), OpAt(to, Count(ch)) = op
       PROVE  Leads(to, Count(ch), x, y)
  <2>1. PICK c, v : c = Count(ch) /\ v = Effect(to, c)
    OBVIOUS
  <2>2. v = IF op \in Pushing THEN 1 ELSE IF op \in Popping THEN -1 ELSE 0
    BY <1>1, <1>10, <2>1 DEF Effect
  <2>3. y.depth = x.depth + v /\ x.depth \in Nat /\ y.depth \in Nat
    BY <2>2, ShapesAre DEF Named
  <2>4. Marks(to, c, value)
    <3>1. c \notin Ops(ch)
      BY <2>1, ChunkType DEF Ops
    <3>2. \A m \in ch.meaning : m[1] # c
      BY <1>10, <3>1 DEF Anchored
    <3> QED
      BY <1>8, <2>1, <3>2 DEF Marks, MeaningAt
  <2>5. KeepsLocals(to, c, x, y)
    <3>1. op \in Writing => op \in Pushing /\ v = 1 /\ x.depth + v - 1 = x.depth
      BY <2>2, <2>3 DEF Writing, Pushing, Popping
    <3> QED
      BY <1>10, <2>1, <3>1 DEF KeepsLocals, Named
  <2>6. Arrayed => FillsArray(to, c, x, y)
    <3>1. CASE op = "OP_CONST"
      BY <1>10, <2>1, <2>4, <3>1 DEF FillsArray, Named, Element
    <3>2. CASE op # "OP_CONST"
      BY <1>10, <2>1, <3>2 DEF FillsArray, Named
    <3> QED
      BY <3>1, <3>2
  <2> QED
    BY <2>1, <2>3, <2>5, <2>6 DEF Leads
<1>11. Arrives(ch, to, op, operands, x, y)
  BY <1>10 DEF Arrives, Stands
<1> QED
  BY <1>1, <1>3, <1>4, <1>5, <1>7, <1>9, <1>11, EmitMoves

(* Instructions that name a local.                                         *)
LEMMA SlotMoves ==
  ASSUME NEW ch \in Chunks, NEW op \in {"OP_LOAD_LOC", "OP_STORE_LOC"}, NEW s \in Symbols,
         NEW x \in Shapes, NEW y \in Shapes, x.array = None, y.array = None,
         y.depth = x.depth + IF op = "OP_LOAD_LOC" THEN 1 ELSE 0,
         op = "OP_LOAD_LOC" \/ ~Tracked => y.locals \subseteq x.locals,
         op = "OP_LOAD_LOC" => Clear(y.locals, x.depth),
         op = "OP_LOAD_LOC" /\ Tracked => s \in x.locals,
         op = "OP_STORE_LOC" /\ Tracked =>
           /\ s.slot < ByteSize /\ s.slot < x.depth
           /\ \A t \in y.locals : t = s \/ (t \in x.locals /\ t.slot # s.slot /\ t.id # s.id)
  PROVE  Moves(ch, EmitSlot(ch, op, s), x, y)
<1>1. op \in DOMAIN Width /\ Width[op] = 1 /\ op \notin Jumps /\ op \notin Leaving
      /\ op \notin {"OP_CLOSURE", "OP_CALL", "OP_COLLECT"}
  BY Widths DEF WithOne, Jumps, Leaving
<1>2. PICK operands : operands = <<s.slot>>
  OBVIOUS
<1>3. operands \in Seq(Int) /\ Len(operands) = 1 /\ s.slot \in Nat
  <2>1. s.slot \in Nat
    BY DEF Symbols
  <2> QED
    BY <1>2, <2>1
<1>4. Fitting(op, operands)
  BY <1>1, <1>3 DEF Fitting
<1>5. PICK raw, to : raw = Emit(ch, op, operands) /\ to = EmitSlot(ch, op, s)
  OBVIOUS
<1>6. Emitted(ch, raw, op, operands) /\ raw.meaning = ch.meaning
  BY <1>1, <1>3, <1>5, EmitType
<1>7. to \in Chunks
  BY <1>5, SlotSteps DEF Builds
<1>8. to.code = raw.code /\ to.meaning = ch.meaning \cup {<<Count(ch), <<"local", s.id>>>>}
  <2>1. raw \in Chunks
    BY <1>6 DEF Emitted
  <2> QED
    BY <1>2, <1>5, <1>6, <2>1 DEF EmitSlot, Means, Chunks
<1>9. Emitted(ch, to, op, operands) /\ Remembers(ch, to)
  BY <1>6, <1>7, <1>8 DEF Emitted, Count, Remembers
<1>10. ASSUME Anchored(ch), Stands(to, Count(ch), op, operands)
       PROVE  Leads(to, Count(ch), x, y)
  <2>1. PICK c, v : c = Count(ch) /\ v = Effect(to, c)
    OBVIOUS
  <2>0. OpAt(to, c) = op /\ ByteAt(to, c + 1) = Byte(s.slot)
    BY <1>2, <1>3, <1>10, <2>1 DEF Stands
  <2>2. v = IF op = "OP_LOAD_LOC" THEN 1 ELSE 0
    BY <2>0, <2>1 DEF Effect, Pushing, Popping
  <2>3. y.depth = x.depth + v /\ x.depth \in Nat /\ y.depth \in Nat /\ Distinct(x.locals)
    BY <2>2, ShapesAre
  <2>4. Marks(to, c, <<"local", s.id>>)
    <3>1. c \notin Ops(ch)
      BY <2>1, ChunkType DEF Ops
    <3>2. \A m \in ch.meaning : m[1] # c
      BY <1>10, <3>1 DEF Anchored
    <3> QED
      BY <1>8, <2>1, <3>2 DEF Marks, MeaningAt
  <2>5. Tracked => OfLocal(to, c, s)
    <3>1. Tracked => s.slot < ByteSize
      BY <2>3 DEF Distinct
    <3>2. Tracked => ByteAt(to, c + 1) = s.slot
      BY <1>3, <2>0, <3>1, SmallerByte
    <3> QED
      BY <2>4, <3>2 DEF OfLocal
  <2>6. KeepsLocals(to, c, x, y)
    <3>1. CASE op = "OP_LOAD_LOC"
      <4>1. x.depth + v - 1 = x.depth
        BY <2>2, <2>3, <3>1
      <4> QED
        BY <2>0, <2>1, <2>5, <3>1, <4>1 DEF KeepsLocals
    <3>2. CASE op = "OP_STORE_LOC"
      <4>1. op \notin Writing
        BY <3>2 DEF Writing, Pushing
      <4>2. Tracked => Stores(to, c, x, y, s)
        BY <2>5, <3>2 DEF Stores
      <4> QED
        BY <2>0, <3>2, <4>1, <4>2 DEF KeepsLocals
    <3> QED
      BY <3>1, <3>2
  <2>7. FillsArray(to, c, x, y)
    BY <2>0 DEF FillsArray
  <2> QED
    BY <2>1, <2>3, <2>6, <2>7 DEF Leads
<1>11. Arrives(ch, to, op, operands, x, y)
  BY <1>10 DEF Arrives
<1> QED
  BY <1>1, <1>3, <1>4, <1>5, <1>7, <1>9, <1>11, EmitMoves


(* Fewer cells are asked for than there are.                               *)
LEMMA ClearBelow ==
  ASSUME NEW L \in SUBSET Symbols, NEW m \in Int, NEW n \in Int, m <= n, Clear(L, m)
  PROVE  Clear(L, n)
<1>1. \A s \in L : s.slot \in Nat
  BY DEF Symbols
<1> QED
  BY <1>1 DEF Clear

LEMMA CallMoves ==
  ASSUME NEW ch \in Chunks, NEW n \in Nat, NEW x \in Shapes, NEW y \in Shapes,
         Apiece(x, y, -n), Clear(y.locals, y.depth - 1)
  PROVE  Moves(ch, Emit(ch, "OP_CALL", <<n>>), x, y)
<1>1. PICK op, operands : op = "OP_CALL" /\ operands = <<n>>
  OBVIOUS
<1>2. op \in DOMAIN Width /\ Width[op] = 1 /\ op \notin Jumps /\ op \notin Leaving
      /\ op # "OP_CLOSURE"
  BY <1>1, Widths DEF WithOne, Jumps, Leaving
<1>3. operands \in Seq(Int) /\ Len(operands) = 1
  BY <1>1
<1>4. Fitting(op, operands)
  BY <1>2, <1>3 DEF Fitting
<1>5. PICK to : to = Emit(ch, op, operands)
  OBVIOUS
<1>6. Emitted(ch, to, op, operands) /\ to \in Chunks /\ Remembers(ch, to)
  <2>1. Emitted(ch, to, op, operands) /\ to.meaning = ch.meaning
    BY <1>2, <1>3, <1>5, EmitType
  <2> QED
    BY <2>1 DEF Emitted, Remembers
<1>7. ASSUME Stands(to, Count(ch), op, operands)
      PROVE  Leads(to, Count(ch), x, y)
  <2>1. PICK c, v : c = Count(ch) /\ v = Effect(to, c)
    OBVIOUS
  <2>2. OpAt(to, c) = "OP_CALL" /\ ByteAt(to, c + 1) = Byte(n)
    BY <1>1, <1>3, <1>7, <2>1 DEF Stands
  <2>3. v = -Byte(n)
    BY <2>1, <2>2 DEF Effect, Pushing, Popping
  <2>4. x.depth \in Nat /\ y.depth \in Nat /\ y.depth = x.depth - n /\ v \in Int
        /\ y.depth <= x.depth + v /\ y.locals \in SUBSET Symbols
    <3>1. Byte(n) \in Nat /\ Byte(n) <= n
      BY SmallerByte
    <3> QED
      BY <2>3, <3>1, ShapesAre DEF Apiece
  <2>5. Clear(y.locals, x.depth + v - 1)
    BY <2>4, ClearBelow
  <2>6. KeepsLocals(to, c, x, y)
    BY <2>1, <2>2, <2>5 DEF KeepsLocals, Apiece
  <2>7. FillsArray(to, c, x, y)
    BY <2>2 DEF FillsArray, Apiece
  <2> QED
    BY <2>1, <2>4, <2>6, <2>7 DEF Leads
<1>8. Arrives(ch, to, op, operands, x, y)
  BY <1>7 DEF Arrives
<1> QED
  BY <1>1, <1>2, <1>3, <1>4, <1>5, <1>6, <1>8, EmitMoves

(* The array of a literal of n elements.                                   *)
Begun(x, y, n) == /\ y.depth = x.depth + 1 /\ y.locals \subseteq x.locals
                  /\ x.array = None /\ y.array = Building(n, 0, 0) /\ (Arrayed => n < ByteSize)

LEMMA ArrayMoves ==
  ASSUME NEW ch \in Chunks, NEW n \in Nat, NEW x \in Shapes, NEW y \in Shapes,
         Begun(x, y, n), Clear(y.locals, x.depth)
  PROVE  Moves(ch, Emit(ch, "OP_ARR", <<n>>), x, y)
<1>1. PICK op, operands : op = "OP_ARR" /\ operands = <<n>>
  OBVIOUS
<1>2. op \in DOMAIN Width /\ Width[op] = 1 /\ op \notin Jumps /\ op \notin Leaving
      /\ op # "OP_CLOSURE"
  BY <1>1, Widths DEF WithOne, Jumps, Leaving
<1>3. operands \in Seq(Int) /\ Len(operands) = 1
  BY <1>1
<1>4. Fitting(op, operands)
  BY <1>2, <1>3 DEF Fitting
<1>5. PICK to : to = Emit(ch, op, operands)
  OBVIOUS
<1>6. Emitted(ch, to, op, operands) /\ to \in Chunks /\ Remembers(ch, to)
  <2>1. Emitted(ch, to, op, operands) /\ to.meaning = ch.meaning
    BY <1>2, <1>3, <1>5, EmitType
  <2> QED
    BY <2>1 DEF Emitted, Remembers
<1>7. ASSUME Stands(to, Count(ch), op, operands)
      PROVE  Leads(to, Count(ch), x, y)
  <2>1. PICK c, v : c = Count(ch) /\ v = Effect(to, c)
    OBVIOUS
  <2>2. OpAt(to, c) = "OP_ARR" /\ ByteAt(to, c + 1) = Byte(n)
    BY <1>1, <1>3, <1>7, <2>1 DEF Stands
  <2>3. v = 1
    BY <2>1, <2>2 DEF Effect, Pushing
  <2>4. x.depth \in Nat /\ y.depth = x.depth + v /\ y.depth \in Nat /\ x.depth + v - 1 = x.depth
    BY <2>3, ShapesAre DEF Begun
  <2>5. KeepsLocals(to, c, x, y)
    BY <2>1, <2>2, <2>4 DEF KeepsLocals, Begun
  <2>6. Arrayed => FillsArray(to, c, x, y)
    <3>1. Arrayed => ByteAt(to, c + 1) = n
      BY <2>2, SmallerByte DEF Begun
    <3> QED
      BY <2>2, <3>1 DEF FillsArray, Begun
  <2> QED
    BY <2>1, <2>4, <2>5, <2>6 DEF Leads
<1>8. Arrives(ch, to, op, operands, x, y)
  BY <1>7 DEF Arrives
<1> QED
  BY <1>1, <1>2, <1>3, <1>4, <1>5, <1>6, <1>8, EmitMoves

(* The elements pushed last become those behind the ones in the array.     *)
Collects(x, y, arg) ==
  /\ y.depth = x.depth - arg[2] /\ y.locals \subseteq x.locals
  /\ IF Arrayed
     THEN /\ x.array # None /\ arg[1] < ByteSize /\ arg[2] < ByteSize
          /\ arg[1] * SlotSize = x.array[2] /\ arg[2] = x.array[3]
          /\ x.array[2] + x.array[3] <= x.array[1]
          /\ y.array = Building(x.array[1], x.array[2] + x.array[3], 0)
     ELSE x.array = None /\ y.array = None

LEMMA CollectMoves ==
  ASSUME NEW ch \in Chunks, NEW arg \in Seq(Nat), Len(arg) = 2,
         NEW x \in Shapes, NEW y \in Shapes, Collects(x, y, arg), Clear(y.locals, y.depth - 1)
  PROVE  Moves(ch, Emit(ch, "OP_COLLECT", arg), x, y)
<1>1. PICK op : op = "OP_COLLECT"
  OBVIOUS
<1>2. op \in DOMAIN Width /\ Width[op] = 2 /\ op \notin Jumps /\ op \notin Leaving
      /\ op # "OP_CLOSURE"
  BY <1>1, Widths DEF WithTwo, Jumps, Leaving
<1>3. arg \in Seq(Int) /\ arg[1] \in Nat /\ arg[2] \in Nat
  <2>1. Nat \subseteq Int
    OBVIOUS
  <2>2. arg \in Seq(Int)
    BY <2>1, SeqMonotonic
  <2> QED
    BY <2>2, SecondOf
<1>4. Fitting(op, arg)
  BY <1>2 DEF Fitting
<1>5. PICK to : to = Emit(ch, op, arg)
  OBVIOUS
<1>6. Emitted(ch, to, op, arg) /\ to \in Chunks /\ Remembers(ch, to)
  <2>1. Emitted(ch, to, op, arg) /\ to.meaning = ch.meaning
    BY <1>2, <1>3, <1>5, EmitType
  <2> QED
    BY <2>1 DEF Emitted, Remembers
<1>7. ASSUME Stands(to, Count(ch), op, arg)
      PROVE  Leads(to, Count(ch), x, y)
  <2>1. PICK c, v : c = Count(ch) /\ v = Effect(to, c)
    OBVIOUS
  <2>2. OpAt(to, c) = "OP_COLLECT" /\ ByteAt(to, c + 1) = Byte(arg[1])
        /\ ByteAt(to, c + 2) = Byte(arg[2])
    <3>1. 1 \in 1 .. Len(arg) /\ 2 \in 1 .. Len(arg)
      OBVIOUS
    <3> QED
      BY <1>1, <1>7, <2>1, <3>1 DEF Stands
  <2>3. v = -Byte(arg[2])
    BY <2>1, <2>2 DEF Effect, Pushing, Popping
  <2>4. x.depth \in Nat /\ y.depth \in Nat /\ y.depth = x.depth - arg[2] /\ v \in Int
        /\ y.depth <= x.depth + v /\ y.locals \in SUBSET Symbols
    <3>1. Byte(arg[2]) \in Nat /\ Byte(arg[2]) <= arg[2]
      BY <1>3, SmallerByte
    <3> QED
      BY <1>3, <2>3, <3>1, ShapesAre DEF Collects
  <2>5. Clear(y.locals, x.depth + v - 1)
    BY <2>4, ClearBelow
  <2>6. KeepsLocals(to, c, x, y)
    BY <2>1, <2>2, <2>5 DEF KeepsLocals, Collects
  <2>7. Arrayed => FillsArray(to, c, x, y)
    <3>1. Arrayed => Byte(arg[1]) = arg[1] /\ Byte(arg[2]) = arg[2]
      BY <1>3, SmallerByte DEF Collects
    <3> QED
      BY <2>2, <3>1 DEF FillsArray, Collects
  <2> QED
    BY <2>1, <2>4, <2>6, <2>7 DEF Leads
<1>8. Arrives(ch, to, op, arg, x, y)
  BY <1>7 DEF Arrives
<1> QED
  BY <1>1, <1>2, <1>3, <1>4, <1>5, <1>6, <1>8, EmitMoves

(* What a node leaves on the stack.                                        *)
Weight(n) == IF n.type \in {"LITERAL_EXPR", "VAR_EXPR", "LOCAL_EXPR", "ARR_EXPR"} THEN 1
             ELSE IF n.type = "BINARY_EXPR" THEN -1
             ELSE IF n.type = "CALL_EXPR" THEN -n.arg
             ELSE IF n.type = "COLLECT" THEN -n.arg[2]
             ELSE 0

(* From the shape before a node to the one behind it: the locals stay.     *)
NodeTakes(n, x, y) ==
  /\ x \in Shapes /\ y \in Shapes
  /\ y.depth = x.depth + Weight(n) /\ y.locals = x.locals /\ Clear(y.locals, y.depth - 1)
  /\ n.type \in {"LOCAL_EXPR", "ASSIGN_LOCAL"} /\ Tracked => n.arg \in x.locals
  /\ n.type = "LITERAL_EXPR" => Element(x, y, n.arg)
  /\ n.type = "ARR_EXPR" => Begun(x, y, n.arg)
  /\ n.type = "COLLECT" => Collects(x, y, n.arg)
  /\ n.type \notin {"LITERAL_EXPR", "ARR_EXPR", "COLLECT"} => x.array = None /\ y.array = None

LEMMA NodeMoves ==
  ASSUME NEW ch \in Chunks, NEW n \in Nodes, NEW x, NEW y, NodeTakes(n, x, y)
  PROVE  Moves(ch, EmitNode(ch, n), x, y)
<1>0. x \in Shapes /\ y \in Shapes /\ y.depth = x.depth + Weight(n)
      /\ y.locals = x.locals /\ Clear(y.locals, y.depth - 1)
  BY DEF NodeTakes
<1>a. x.depth \in Nat /\ y.depth \in Nat /\ x.locals \in SUBSET Symbols /\ Distinct(x.locals)
  BY <1>0, ShapesAre
<1>1. CASE n \in [type : {"LITERAL_EXPR", "VAR_EXPR", "ASSIGN_GLOBAL"}, arg : Constants]
  <2>1. n.arg \in Constants
    BY <1>1
  <2>2. ASSUME Weight(n) = 1
        PROVE  Clear(y.locals, x.depth)
    <3>1. y.depth - 1 = x.depth
      BY <1>0, <1>a, <2>2
    <3> QED
      BY <1>0, <3>1
  <2>3. PICK op \in {"OP_CONST", "OP_LOAD_GLOB", "OP_STORE_GLOB", "OP_DEFINE_GLOB"} :
             Named(x, y, op, n.arg) /\ EmitNode(ch, n) = EmitConstant(ch, op, n.arg)
    <3>1. CASE n.type = "LITERAL_EXPR"
      <4>1. EmitNode(ch, n) = EmitConstant(ch, "OP_CONST", n.arg)
        BY <3>1 DEF EmitNode
      <4>2. Weight(n) = 1
        BY <3>1 DEF Weight
      <4>3. Element(x, y, n.arg)
        BY <3>1 DEF NodeTakes
      <4>4. Named(x, y, "OP_CONST", n.arg)
        BY <1>0, <2>2, <4>2, <4>3 DEF Named, Pushing
      <4> QED
        BY <4>1, <4>4
    <3>2. CASE n.type = "VAR_EXPR"
      <4>1. EmitNode(ch, n) = EmitConstant(ch, "OP_LOAD_GLOB", n.arg)
        BY <3>2 DEF EmitNode
      <4>2. Weight(n) = 1
        BY <3>2 DEF Weight
      <4>3. x.array = None /\ y.array = None
        BY <3>2 DEF NodeTakes
      <4>4. Named(x, y, "OP_LOAD_GLOB", n.arg)
        BY <1>0, <2>2, <4>2, <4>3 DEF Named, Pushing
      <4> QED
        BY <4>1, <4>4
    <3>3. CASE n.type = "ASSIGN_GLOBAL"
      <4>1. EmitNode(ch, n) = EmitConstant(ch, "OP_STORE_GLOB", n.arg)
        BY <3>3 DEF EmitNode
      <4>2. Weight(n) = 0
        BY <3>3 DEF Weight
      <4>3. x.array = None /\ y.array = None
        BY <3>3 DEF NodeTakes
      <4>4. Named(x, y, "OP_STORE_GLOB", n.arg)
        BY <1>0, <4>2, <4>3 DEF Named, Pushing, Popping
      <4> QED
        BY <4>1, <4>4
    <3> QED
      BY <1>1, <3>1, <3>2, <3>3
  <2> QED
    BY <1>0, <2>1, <2>3, ConstantMoves
<1>2. CASE n \in [type : {"LOCAL_EXPR", "ASSIGN_LOCAL"}, arg : Symbols]
  <2>1. n.arg \in Symbols /\ n.type \in {"LOCAL_EXPR", "ASSIGN_LOCAL"}
    BY <1>2
  <2>2. x.array = None /\ y.array = None /\ (Tracked => n.arg \in x.locals)
    BY <2>1 DEF NodeTakes
  <2>3. CASE n.type = "LOCAL_EXPR"
    <3>1. EmitNode(ch, n) = EmitSlot(ch, "OP_LOAD_LOC", n.arg) /\ Weight(n) = 1
      BY <2>3 DEF EmitNode, Weight
    <3>2. y.depth = x.depth + 1 /\ y.depth - 1 = x.depth
      BY <1>0, <1>a, <3>1
    <3>3. Clear(y.locals, x.depth)
      BY <1>0, <3>2
    <3> QED
      BY <1>0, <2>1, <2>2, <3>1, <3>2, <3>3, SlotMoves
  <2>4. CASE n.type = "ASSIGN_LOCAL"
    <3>1. EmitNode(ch, n) = EmitSlot(ch, "OP_STORE_LOC", n.arg) /\ Weight(n) = 0
      BY <2>4 DEF EmitNode, Weight
    <3>2. y.depth = x.depth + 0
      BY <1>0, <3>1
    <3>3. PICK s : s = n.arg
      OBVIOUS
    <3>4. s \in Symbols /\ s.slot \in Nat
      BY <2>1, <3>3 DEF Symbols
    <3>5. Tracked => s.slot < ByteSize /\ s.slot < x.depth
      <4>1. \A t \in x.locals : t.slot < y.depth - 1
        BY <1>0 DEF Clear
      <4> QED
        BY <1>a, <2>2, <3>2, <3>3, <3>4, <4>1 DEF Distinct
    <3>6. Tracked => \A t \in y.locals : t = s \/ (t \in x.locals /\ t.slot # s.slot /\ t.id # s.id)
      BY <1>0, <1>a, <2>2, <3>3 DEF Distinct
    <3> QED
      BY <1>0, <2>2, <3>1, <3>2, <3>3, <3>4, <3>5, <3>6, SlotMoves
  <2> QED
    BY <2>1, <2>3, <2>4
<1>3. CASE n \in [type : {"BINARY_EXPR"}, arg : {0}]
  <2>1. n.type = "BINARY_EXPR"
    BY <1>3
  <2>2. EmitNode(ch, n) = Emit(ch, "OP_ADD", <<>>)
    BY <2>1 DEF EmitNode
  <2>3. Weight(n) = -1
    BY <2>1 DEF Weight
  <2>4. Apiece(x, y, -1)
    BY <1>0, <2>1, <2>3 DEF Apiece, NodeTakes
  <2> QED
    BY <1>0, <2>2, <2>4, AloneMoves
<1>4. CASE n \in [type : {"CALL_EXPR", "ARR_EXPR"}, arg : Nat]
  <2>1. n.arg \in Nat
    BY <1>4
  <2>2. CASE n.type = "CALL_EXPR"
    <3>1. EmitNode(ch, n) = Emit(ch, "OP_CALL", <<n.arg>>) /\ Weight(n) = -n.arg
      BY <2>2 DEF EmitNode, Weight
    <3>2. Apiece(x, y, -n.arg)
      BY <1>0, <2>2, <3>1 DEF Apiece, NodeTakes
    <3> QED
      BY <1>0, <2>1, <3>1, <3>2, CallMoves
  <2>3. CASE n.type = "ARR_EXPR"
    <3>1. EmitNode(ch, n) = Emit(ch, "OP_ARR", <<n.arg>>) /\ Weight(n) = 1
      BY <2>3 DEF EmitNode, Weight
    <3>2. Begun(x, y, n.arg)
      BY <2>3 DEF NodeTakes
    <3>3. y.depth - 1 = x.depth
      BY <1>0, <1>a, <3>1
    <3>4. Clear(y.locals, x.depth)
      BY <1>0, <3>3
    <3> QED
      BY <1>0, <2>1, <3>1, <3>2, <3>4, ArrayMoves
  <2> QED
    BY <1>4, <2>2, <2>3
<1>5. CASE n \in [type : {"COLLECT"}, arg : {s \in Seq(Nat) : Len(s) = 2}]
  <2>1. n.type = "COLLECT" /\ n.arg \in Seq(Nat) /\ Len(n.arg) = 2
    BY <1>5
  <2>2. EmitNode(ch, n) = Emit(ch, "OP_COLLECT", n.arg)
    BY <2>1 DEF EmitNode
  <2>3. Collects(x, y, n.arg)
    BY <2>1 DEF NodeTakes
  <2> QED
    BY <1>0, <2>1, <2>2, <2>3, CollectMoves
<1> QED
  BY <1>1, <1>2, <1>3, <1>4, <1>5 DEF Nodes

(* The shapes along the nodes of an expression.                            *)
Taking(e, w) == /\ w \in [0 .. Len(e) -> Shapes]
                /\ \A i \in 1 .. Len(e) : NodeTakes(e[i], w[i - 1], w[i])
Takes(e, x, y) == \E w : Taking(e, w) /\ w[0] = x /\ w[Len(e)] = y

LEMMA ExprMoves ==
  ASSUME NEW ch \in Chunks, NEW e \in Seq(Nodes), NEW x, NEW y, Takes(e, x, y)
  PROVE  Moves(ch, EmitExpr(ch, e), x, y) /\ EmitExpr(ch, e) \in Chunks
<1>1. PICK f \in [0 .. Len(e) -> Chunks] : Walks(ch, e, f)
  BY WalkExists
<1>2. PICK w : Taking(e, w) /\ w[0] = x /\ w[Len(e)] = y
  BY DEF Takes
<1>3. PICK m : m = Len(e)
  OBVIOUS
<1>4. m \in Nat /\ (\A n \in 1 .. m : e[n] \in Nodes) /\ (\A n \in 0 .. m : f[n] \in Chunks)
  BY <1>3
<1>5. f[0] = ch /\ (\A n \in 1 .. m : f[n] = EmitNode(f[n - 1], e[n])) /\ EmitExpr(ch, e) = f[m]
  BY <1>1, <1>3 DEF Walks
<1>6. w[0] = x /\ (\A n \in 1 .. m : NodeTakes(e[n], w[n - 1], w[n])) /\ w[m] = y
  BY <1>2, <1>3 DEF Taking
<1> DEFINE good == {n \in 0 .. m : Moves(ch, f[n], x, w[n])}
<1>7. 0 \in good
  BY <1>4, <1>5, <1>6, MovesNone
<1>8. ASSUME NEW n \in 1 .. m, n - 1 \in good
      PROVE  n \in good
  <2>1. n \in 0 .. m /\ n - 1 \in 0 .. m
    BY <1>4
  <2>2. Moves(ch, f[n - 1], x, w[n - 1])
    BY <1>8
  <2>3. Moves(f[n - 1], f[n], w[n - 1], w[n])
    BY <1>4, <1>5, <1>6, <2>1, NodeMoves
  <2>4. Moves(ch, f[n], x, w[n])
    BY <2>2, <2>3, MovesThen
  <2> QED
    BY <2>1, <2>4
<1> HIDE DEF good
<1>9. \A n \in 0 .. m : n \in good
  BY <1>4, <1>7, <1>8, Upward
<1>10. Moves(ch, f[m], x, w[m])
  BY <1>4, <1>9 DEF good
<1> QED
  BY <1>4, <1>5, <1>6, <1>10

LEMMA TakesOne ==
  ASSUME NEW n \in Nodes, NEW x, NEW y, NodeTakes(n, x, y)
  PROVE  Takes(<<n>>, x, y)
<1>1. x \in Shapes /\ y \in Shapes
  BY DEF NodeTakes
<1>2. PICK e : e = <<n>>
  OBVIOUS
<1>3. Len(e) = 1 /\ e[1] = n
  BY <1>2
<1>4. PICK w : w = [i \in 0 .. 1 |-> IF i = 0 THEN x ELSE y]
  OBVIOUS
<1>5. w \in [0 .. 1 -> Shapes] /\ w[0] = x /\ w[1] = y
  BY <1>1, <1>4
<1>6. Taking(e, w)
  <2>1. \A i \in 1 .. 1 : i = 1 /\ i - 1 = 0
    OBVIOUS
  <2> QED
    BY <1>3, <1>5, <2>1 DEF Taking
<1> QED
  BY <1>2, <1>3, <1>5, <1>6 DEF Takes

LEMMA TakesJoined ==
  ASSUME NEW a \in Seq(Nodes), NEW b \in Seq(Nodes), NEW x, NEW y, NEW z, Takes(a, x, y), Takes(b, y, z)
  PROVE  Takes(a \o b, x, z) /\ a \o b \in Seq(Nodes)
<1>1. PICK wa : Taking(a, wa) /\ wa[0] = x /\ wa[Len(a)] = y
  BY DEF Takes
<1>2. PICK wb : Taking(b, wb) /\ wb[0] = y /\ wb[Len(b)] = z
  BY DEF Takes
<1>3. PICK all, m, n : all = a \o b /\ m = Len(a) /\ n = Len(b)
  OBVIOUS
<1>4. m \in Nat /\ n \in Nat
  BY <1>3
<1>5. IsJoin(Nodes, a, b, all)
  BY <1>3, Joined
<1>6. /\ all \in Seq(Nodes) /\ Len(all) = m + n
      /\ \A i \in 1 .. m : all[i] = a[i]
      /\ \A i \in 1 .. n : all[m + i] = b[i]
  BY <1>3, <1>5 DEF IsJoin
<1>7. PICK w : w = [i \in 0 .. m + n |-> IF i <= m THEN wa[i] ELSE wb[i - m]]
  OBVIOUS
<1>8. /\ \A i \in 0 .. m : wa[i] \in Shapes
      /\ \A i \in 0 .. n : wb[i] \in Shapes
      /\ wa[0] = x /\ wa[m] = y /\ wb[0] = y /\ wb[n] = z
  BY <1>1, <1>2, <1>3 DEF Taking
<1>9. \A i \in 0 .. m + n : i <= m => i \in 0 .. m /\ w[i] = wa[i]
  BY <1>4, <1>7
<1>10. \A i \in 0 .. m + n : i >= m => i - m \in 0 .. n /\ w[i] = wb[i - m]
  <2>1. ASSUME NEW i \in 0 .. m + n, i > m
        PROVE  i - m \in 0 .. n /\ w[i] = wb[i - m]
    BY <1>4, <1>7, <2>1
  <2>2. m \in 0 .. m + n /\ m - m = 0 /\ 0 \in 0 .. n /\ w[m] = wb[0]
    BY <1>4, <1>8, <1>9
  <2> QED
    BY <1>4, <2>1, <2>2
<1>11. w \in [0 .. m + n -> Shapes]
  <2>1. ASSUME NEW i \in 0 .. m + n
        PROVE  w[i] \in Shapes
    <3>1. CASE i <= m
      BY <1>8, <1>9, <3>1
    <3>2. CASE i >= m
      BY <1>8, <1>10, <3>2
    <3> QED
      BY <1>4, <3>1, <3>2
  <2> QED
    BY <1>7, <2>1
<1>12. w[0] = x
  BY <1>4, <1>8, <1>9
<1>13. w[m + n] = z
  <2>1. PICK k : k = m + n
    OBVIOUS
  <2>2. k \in 0 .. m + n /\ k >= m /\ k - m = n
    BY <1>4, <2>1
  <2>3. w[k] = wb[n]
    BY <1>10, <2>2
  <2> QED
    BY <1>8, <2>1, <2>3
<1>14. ASSUME NEW i \in 1 .. m + n
       PROVE  NodeTakes(all[i], w[i - 1], w[i])
  <2>1. i \in 0 .. m + n /\ i - 1 \in 0 .. m + n
    BY <1>4
  <2>2. CASE i <= m
    <3>1. i \in 1 .. m /\ i - 1 <= m
      BY <1>4, <2>2
    <3>2. NodeTakes(a[i], wa[i - 1], wa[i])
      BY <1>1, <1>3, <3>1 DEF Taking
    <3> QED
      BY <1>6, <1>9, <2>1, <2>2, <3>1, <3>2
  <2>3. CASE i > m
    <3>1. PICK j : j = i - m
      OBVIOUS
    <3>2. j \in 1 .. n /\ i = m + j /\ i >= m /\ i - 1 >= m /\ i - 1 - m = j - 1
      BY <1>4, <2>1, <2>3, <3>1
    <3>3. NodeTakes(b[j], wb[j - 1], wb[j])
      BY <1>2, <1>3, <3>2 DEF Taking
    <3>4. all[i] = b[j]
      BY <1>6, <3>2
    <3>5. w[i] = wb[j] /\ w[i - 1] = wb[j - 1]
      BY <1>10, <2>1, <3>1, <3>2
    <3> QED
      BY <3>3, <3>4, <3>5
  <2> QED
    BY <1>4, <2>2, <2>3
<1>15. Taking(all, w)
  BY <1>6, <1>11, <1>14 DEF Taking
<1>16. Takes(all, x, z)
  BY <1>6, <1>12, <1>13, <1>15 DEF Takes
<1> QED
  BY <1>3, <1>6, <1>16

(* The nodes of an array literal leave the array: COLLECT takes what the   *)
(* batch before it pushed.                                                 *)
LEMMA TimesMore ==
  ASSUME NEW a \in Nat, NEW b \in Nat, NEW s \in Nat, a <= b
  PROVE  a * s <= b * s /\ (a + 1) * s = a * s + s
<1>1. PICK c \in Nat : b = a + c
  <2>1. b - a \in Nat /\ b = a + (b - a)
    OBVIOUS
  <2> QED
    BY <2>1
<1>2. c * s \in Nat /\ b * s = a * s + c * s
  BY <1>1
<1>3. a * s \in Nat
  OBVIOUS
<1> QED
  BY <1>2, <1>3

(* The elements in an array after b batches.                               *)
Filled(count, b) == IF b * SlotSize <= count THEN b * SlotSize ELSE count

(* Batch b begins where the one before it ended, short of the last element.*)
BatchAt(count, b, f, n) ==
  /\ n = Batch(count, b) /\ f = Filled(count, b - 1) /\ f = (b - 1) * SlotSize
  /\ n \in 1 .. SlotSize /\ f \in Nat /\ f < count /\ b - 1 <= f
  /\ f + n <= count /\ f + n = Filled(count, b)

LEMMA BatchIs ==
  ASSUME NEW count \in Nat, NEW b \in 1 .. Batches(count)
  PROVE  BatchAt(count, b, Filled(count, b - 1), Batch(count, b))
<1>1. PICK S : S = SlotSize
  OBVIOUS
<1>2. S \in Nat \ {0}
  BY <1>1, CodegenAssumption
<1>3. PICK m, k : m = Batches(count) /\ k = count + S - 1
  OBVIOUS
<1>4. k \in Nat /\ m = k \div S
  BY <1>1, <1>2, <1>3 DEF Batches
<1>5. m \in Nat /\ S * m <= k
  BY <1>2, <1>4
<1>6. b \in Nat \ {0} /\ b <= m /\ b - 1 \in Nat
  BY <1>3, <1>5
<1>7. PICK f : f = (b - 1) * S
  OBVIOUS
<1>8. f \in Nat /\ b * S = f + S /\ b * S <= m * S
  <2>1. (b - 1 + 1) * S = (b - 1) * S + S
    BY <1>2, <1>6, TimesMore
  <2>2. b - 1 + 1 = b
    BY <1>6
  <2>3. b * S <= m * S
    BY <1>2, <1>5, <1>6, TimesMore
  <2>4. (b - 1) * S \in Nat
    BY <1>2, <1>6
  <2> QED
    BY <1>7, <2>1, <2>2, <2>3, <2>4
<1>9. f < count
  <2>1. m * S = S * m
    BY <1>2, <1>5
  <2>2. f + S <= k
    <3>1. PICK p : p = S * m
      OBVIOUS
    <3> QED
      BY <1>2, <1>4, <1>5, <1>8, <2>1, <3>1
  <2> QED
    BY <1>2, <1>3, <1>8, <2>2
<1>10. b - 1 <= f
  <2>1. (b - 1) * 1 <= (b - 1) * S
    BY <1>2, <1>6
  <2> QED
    BY <1>6, <1>7, <2>1
<1>11. Filled(count, b - 1) = f
  BY <1>1, <1>7, <1>8, <1>9 DEF Filled
<1>12. CASE f + S <= count
  <2>1. Batch(count, b) = S /\ Filled(count, b) = f + S
    BY <1>1, <1>8, <1>12 DEF Batch, Filled
  <2>2. S \in 1 .. S
    BY <1>2
  <2> QED
    BY <1>1, <1>7, <1>8, <1>9, <1>10, <1>11, <1>12, <2>1, <2>2 DEF BatchAt
<1>13. CASE ~(f + S <= count)
  <2>1. Batch(count, b) = count % S /\ Filled(count, b) = count
    BY <1>1, <1>8, <1>13 DEF Batch, Filled
  <2>2. PICK r : r = count - f
    OBVIOUS
  <2>3. r \in 0 .. S - 1 /\ r # 0
    BY <1>2, <1>8, <1>9, <1>13, <2>2
  <2>4. count = (b - 1) * S + r
    BY <1>7, <1>8, <2>2
  <2>5. count % S = r
    <3>1. PICK q : q = count \div S
      OBVIOUS
    <3>2. q \in Nat /\ count % S \in 0 .. S - 1 /\ count = S * q + (count % S)
      BY <1>2, <3>1
    <3>3. PICK t : t = count % S
      OBVIOUS
    <3>4. S * q = q * S
      BY <1>2, <3>2
    <3>5. q <= b - 1
      <4>1. SUFFICES ASSUME b <= q
                     PROVE  FALSE
        BY <1>6, <3>2
      <4>2. b * S <= q * S
        BY <1>2, <1>6, <3>2, <4>1, TimesMore
      <4>3. q * S \in Nat
        BY <1>2, <3>2
      <4>4. f + S <= count
        BY <1>2, <1>8, <3>2, <3>4, <4>2, <4>3
      <4> QED
        BY <1>13, <4>4
    <3>6. b - 1 <= q
      <4>1. SUFFICES ASSUME q + 1 <= b - 1
                     PROVE  FALSE
        BY <1>6, <3>2
      <4>2. q + 1 \in Nat /\ (q + 1) * S <= (b - 1) * S
        BY <1>2, <1>6, <3>2, <4>1, TimesMore
      <4>3. (q + 1) * S = q * S + S
        BY <1>2, <3>2, TimesMore
      <4>4. q * S \in Nat
        BY <1>2, <3>2
      <4>5. count < q * S + S
        BY <1>2, <3>2, <3>4, <4>4
      <4>6. q * S + S <= f
        BY <1>7, <4>2, <4>3
      <4> QED
        BY <1>2, <1>8, <1>9, <4>4, <4>5, <4>6
    <3>7. q = b - 1
      BY <1>6, <3>2, <3>5, <3>6
    <3>8. count = f + t
      BY <1>7, <3>2, <3>3, <3>4, <3>7
    <3> QED
      BY <1>8, <2>2, <3>2, <3>3, <3>8
  <2>6. r \in 1 .. S /\ f + r = count
    BY <1>2, <1>8, <2>2, <2>3
  <2> QED
    BY <1>1, <1>7, <1>8, <1>9, <1>10, <1>11, <2>1, <2>5, <2>6 DEF BatchAt
<1> QED
  BY <1>12, <1>13

(* After all batches the array is full.                                    *)
LEMMA AllFilled ==
  ASSUME NEW count \in Nat
  PROVE  Batches(count) \in Nat /\ Filled(count, Batches(count)) = count /\ Filled(count, 0) = 0
<1>1. PICK S : S = SlotSize
  OBVIOUS
<1>2. S \in Nat \ {0}
  BY <1>1, CodegenAssumption
<1>3. PICK m, k : m = Batches(count) /\ k = count + S - 1
  OBVIOUS
<1>4. k \in Nat /\ m = k \div S
  BY <1>1, <1>2, <1>3 DEF Batches
<1>5. m \in Nat /\ k % S \in 0 .. S - 1 /\ k = S * m + (k % S)
  BY <1>2, <1>4
<1>6. S * m = m * S /\ m * S \in Nat
  BY <1>2, <1>5
<1>7. count <= m * S
  BY <1>2, <1>3, <1>5, <1>6
<1>8. Filled(count, m) = count
  BY <1>1, <1>6, <1>7 DEF Filled
<1>9. 0 * S = 0
  BY <1>2
<1> QED
  BY <1>1, <1>3, <1>5, <1>8, <1>9 DEF Filled

(* Where an expression is compiled: n cells below it, among them those of  *)
(* the locals L.                                                           *)
Ground(n, L) == /\ n \in Nat /\ L \in SUBSET Symbols /\ Distinct(L) /\ Clear(L, n)
                /\ Tracked => Visible \subseteq L
LiteralsFit == Arrayed => SlotSize < ByteSize /\ \A n \in profile.arrays : n < ByteSize
Above(n, L, k, a) == Shape(n + k, L, a)

LEMMA GroundAbove ==
  ASSUME NEW n, NEW L, Ground(n, L), NEW k \in Nat, NEW a \in Progress, NEW x, x = Above(n, L, k, a)
  PROVE  /\ x \in Shapes /\ x.depth = n + k /\ x.locals = L /\ x.array = a
         /\ k >= 1 => Clear(L, x.depth - 1)
<1>1. n \in Nat /\ L \in SUBSET Symbols /\ Distinct(L) /\ Clear(L, n) /\ n + k \in Nat
  BY DEF Ground
<1>2. x \in Shapes /\ x.depth = n + k /\ x.locals = L /\ x.array = a
  BY <1>1, ShapeType, ShapeParts DEF Above
<1>3. k >= 1 => Clear(L, x.depth - 1)
  BY <1>1, <1>2, ClearBelow
<1> QED
  BY <1>2, <1>3

LEMMA BuildingIs ==
  ASSUME NEW n \in Nat, NEW f \in Nat, f < n, NEW j \in Nat, NEW a, a = Building(n, f, j)
  PROVE  /\ Arrayed => a # None /\ a[1] = n /\ a[2] = f /\ a[3] = j /\ a = <<n, f, j>>
         /\ ~Arrayed => a = None
BY DEF Building, None

LEMMA ElementsTake ==
  ASSUME NEW count \in Nat, NEW b \in 1 .. Batches(count), NEW n, NEW L, Ground(n, L),
         NEW f, NEW size, BatchAt(count, b, f, size)
  PROVE  Takes(Elements(count, b), Above(n, L, 1, Building(count, f, 0)),
               Above(n, L, 1 + size, Building(count, f, size)))
<1>1. size \in Nat /\ f \in Nat /\ f < count /\ f = (b - 1) * SlotSize /\ size = Batch(count, b)
  BY CodegenAssumption DEF BatchAt
<1>2. PICK e : e = Elements(count, b)
  OBVIOUS
<1>3. Len(e) = size /\ \A i \in 1 .. size : e[i] = Literal(f + i)
  BY <1>1, <1>2 DEF Elements
<1>4. PICK w : w = [i \in 0 .. size |-> Above(n, L, 1 + i, Building(count, f, i))]
  OBVIOUS
<1>5. \A i \in 0 .. size : /\ w[i] \in Shapes /\ w[i].depth = n + (1 + i) /\ w[i].locals = L
                           /\ w[i].array = Building(count, f, i) /\ Clear(L, w[i].depth - 1)
  <2>1. ASSUME NEW i \in 0 .. size
        PROVE  /\ w[i] \in Shapes /\ w[i].depth = n + (1 + i) /\ w[i].locals = L
               /\ w[i].array = Building(count, f, i) /\ Clear(L, w[i].depth - 1)
    <3>1. i \in Nat /\ 1 + i \in Nat /\ 1 + i >= 1
      BY <1>1
    <3>2. Building(count, f, i) \in Progress
      BY <1>1, <3>1, BuildingType
    <3>3. w[i] = Above(n, L, 1 + i, Building(count, f, i))
      BY <1>4
    <3> QED
      BY <3>1, <3>2, <3>3, GroundAbove
  <2> QED
    BY <2>1
<1>6. ASSUME NEW i \in 1 .. size
      PROVE  NodeTakes(e[i], w[i - 1], w[i])
  <2>1. i \in 0 .. size /\ i - 1 \in 0 .. size /\ i - 1 \in Nat /\ i \in Nat /\ n \in Nat
    BY <1>1 DEF Ground
  <2>2. PICK node, x, y : node = e[i] /\ x = w[i - 1] /\ y = w[i]
    OBVIOUS
  <2>3. node.type = "LITERAL_EXPR" /\ node.arg = Number(f + i)
    BY <1>3, <2>2 DEF Literal, Node
  <2>4. Weight(node) = 1
    BY <2>3 DEF Weight
  <2>5. y.depth = x.depth + 1 /\ x \in Shapes /\ y \in Shapes /\ x.locals = L /\ y.locals = L
        /\ Clear(L, y.depth - 1)
    BY <1>5, <2>1, <2>2
  <2>6. x.array = Building(count, f, i - 1) /\ y.array = Building(count, f, i)
    BY <1>5, <2>1, <2>2
  <2>7. Element(x, y, node.arg)
    <3>1. CASE Arrayed
      <4>1. /\ x.array # None /\ x.array[1] = count /\ x.array[2] = f /\ x.array[3] = i - 1
            /\ y.array = <<count, f, i>>
        BY <1>1, <2>1, <2>6, <3>1, BuildingIs
      <4>2. f + (i - 1) + 1 = f + i /\ i - 1 + 1 = i
        BY <1>1, <2>1
      <4> QED
        BY <2>3, <3>1, <4>1, <4>2 DEF Element
    <3>2. CASE ~Arrayed
      <4>1. x.array = None /\ y.array = None
        BY <1>1, <2>1, <2>6, <3>2, BuildingIs
      <4> QED
        BY <3>2, <4>1 DEF Element
    <3> QED
      BY <3>1, <3>2
  <2>8. NodeTakes(node, x, y)
    BY <2>3, <2>4, <2>5, <2>7 DEF NodeTakes
  <2> QED
    BY <2>2, <2>8
<1>7. Taking(e, w)
  <2>1. w \in [0 .. size -> Shapes]
    BY <1>4, <1>5
  <2> QED
    BY <1>3, <1>6, <2>1 DEF Taking
<1>8. w[0] = Above(n, L, 1, Building(count, f, 0)) /\ w[size] = Above(n, L, 1 + size, Building(count, f, size))
  <2>1. 0 \in 0 .. size /\ size \in 0 .. size /\ 1 + 0 = 1
    BY <1>1
  <2> QED
    BY <1>4, <2>1
<1> QED
  BY <1>2, <1>3, <1>7, <1>8 DEF Takes

LEMMA CollectTakes ==
  ASSUME NEW count \in Nat, Arrayed => count < ByteSize /\ SlotSize < ByteSize,
         NEW b \in 1 .. Batches(count), NEW n, NEW L, Ground(n, L),
         NEW f, NEW size, BatchAt(count, b, f, size)
  PROVE  Takes(CollectNode(count, b), Above(n, L, 1 + size, Building(count, f, size)),
               Above(n, L, 1, Building(count, f + size, 0)))
<1>1. /\ size \in Nat /\ f \in Nat /\ f < count /\ f = (b - 1) * SlotSize /\ size = Batch(count, b)
      /\ b - 1 <= f /\ size <= SlotSize /\ SlotSize \in Nat /\ b - 1 \in Nat /\ ByteSize \in Nat
      /\ f + size <= count
  <2>1. Batches(count) \in Nat
    BY AllFilled
  <2> QED
    BY <2>1, CodegenAssumption DEF BatchAt
<1>2. PICK arg, node : arg = <<b - 1, size>> /\ node = Node("COLLECT", arg)
  OBVIOUS
<1>3. arg \in Seq(Nat) /\ Len(arg) = 2 /\ arg[1] = b - 1 /\ arg[2] = size
  BY <1>1, <1>2
<1>4. node.type = "COLLECT" /\ node.arg = arg
  BY <1>2 DEF Node
<1>5. node \in Nodes
  BY <1>2, <1>3 DEF Node, Nodes
<1>6. Weight(node) = -size
  BY <1>3, <1>4 DEF Weight
<1>7. PICK x, y : /\ x = Above(n, L, 1 + size, Building(count, f, size))
                  /\ y = Above(n, L, 1, Building(count, f + size, 0))
  OBVIOUS
<1>8. x \in Shapes /\ x.depth = n + (1 + size) /\ x.locals = L /\ x.array = Building(count, f, size)
  <2>1. Building(count, f, size) \in Progress /\ 1 + size \in Nat
    BY <1>1, BuildingType
  <2> QED
    BY <1>7, <2>1, GroundAbove
<1>9. /\ y \in Shapes /\ y.depth = n + 1 /\ y.locals = L /\ y.array = Building(count, f + size, 0)
      /\ Clear(L, y.depth - 1)
  <2>1. f + size \in Nat /\ 0 \in Nat
    BY <1>1
  <2>2. Building(count, f + size, 0) \in Progress /\ 1 \in Nat /\ 1 >= 1
    BY <2>1, BuildingType
  <2> QED
    BY <1>7, <2>2, GroundAbove
<1>10. y.depth = x.depth - size /\ y.depth = x.depth + (-size)
  BY <1>1, <1>8, <1>9 DEF Ground
<1>11. Collects(x, y, arg)
  <2>1. CASE Arrayed
    <3>1. x.array # None /\ x.array[1] = count /\ x.array[2] = f /\ x.array[3] = size
      BY <1>1, <1>8, <2>1, BuildingIs
    <3>2. arg[1] < ByteSize /\ arg[2] < ByteSize /\ arg[1] * SlotSize = f
      BY <1>1, <1>3, <2>1
    <3>3. x.array[2] + x.array[3] <= x.array[1]
      BY <1>1, <3>1
    <3> QED
      BY <1>3, <1>8, <1>9, <1>10, <2>1, <3>1, <3>2, <3>3 DEF Collects
  <2>2. CASE ~Arrayed
    <3>1. x.array = None /\ y.array = None
      BY <1>8, <1>9, <2>2 DEF Building
    <3> QED
      BY <1>3, <1>8, <1>9, <1>10, <2>2, <3>1 DEF Collects
  <2> QED
    BY <2>1, <2>2
<1>12. NodeTakes(node, x, y)
  BY <1>4, <1>6, <1>8, <1>9, <1>10, <1>11 DEF NodeTakes
<1>13. Takes(<<node>>, x, y)
  BY <1>5, <1>12, TakesOne
<1>14. CollectNode(count, b) = <<node>>
  BY <1>1, <1>2 DEF CollectNode
<1> QED
  BY <1>7, <1>13, <1>14

LEMMA ArrayTakes ==
  ASSUME NEW count \in Nat, Arrayed => count < ByteSize /\ SlotSize < ByteSize,
         NEW n, NEW L, Ground(n, L)
  PROVE  Takes(ArrayOf(count), Above(n, L, 0, None), Above(n, L, 1, None))
<1>1. PICK f \in [0 .. Batches(count) -> Seq(Nodes)] : ArrayWalk(count, f)
  BY ArrayWalkExists
<1>2. PICK m : m = Batches(count)
  OBVIOUS
<1>3. m \in Nat /\ Filled(count, m) = count /\ Filled(count, 0) = 0
  BY <1>2, AllFilled
<1>4. /\ f[0] = FirstNode(count) /\ ArrayOf(count) = f[m]
      /\ \A b \in 1 .. m : f[b] = f[b - 1] \o Elements(count, b) \o CollectNode(count, b)
  BY <1>1, <1>2 DEF ArrayWalk
<1>5. PICK from : from = Above(n, L, 0, None)
  OBVIOUS
<1> DEFINE good == {b \in 0 .. m : Takes(f[b], from, Above(n, L, 1, Building(count, Filled(count, b), 0)))}
<1>6. 0 \in good
  <2>1. PICK node, y : node = Node("ARR_EXPR", count) /\ y = Above(n, L, 1, Building(count, 0, 0))
    OBVIOUS
  <2>2. node \in Nodes /\ node.type = "ARR_EXPR" /\ node.arg = count
    BY <2>1 DEF Node, Nodes
  <2>3. Weight(node) = 1
    BY <2>2 DEF Weight
  <2>4. from \in Shapes /\ from.depth = n + 0 /\ from.locals = L /\ from.array = None
    BY <1>5, NoneType, GroundAbove
  <2>5. /\ y \in Shapes /\ y.depth = n + 1 /\ y.locals = L /\ y.array = Building(count, 0, 0)
        /\ Clear(L, y.depth - 1)
    <3>1. Building(count, 0, 0) \in Progress /\ 1 \in Nat /\ 1 >= 1
      BY BuildingType
    <3> QED
      BY <2>1, <3>1, GroundAbove
  <2>6. y.depth = from.depth + 1
    BY <2>4, <2>5 DEF Ground
  <2>7. Begun(from, y, count)
    BY <2>4, <2>5, <2>6 DEF Begun
  <2>8. NodeTakes(node, from, y)
    BY <2>2, <2>3, <2>4, <2>5, <2>6, <2>7 DEF NodeTakes
  <2>9. Takes(<<node>>, from, y)
    BY <2>2, <2>8, TakesOne
  <2> QED
    BY <1>3, <1>4, <2>1, <2>9 DEF FirstNode
<1>7. ASSUME NEW b \in 1 .. m, b - 1 \in good
      PROVE  b \in good
  <2>1. b \in 0 .. m /\ b \in Nat \ {0} /\ b - 1 \in 0 .. m /\ b \in 1 .. Batches(count)
    BY <1>2, <1>3
  <2>2. PICK s, e, c, g, size : /\ s = f[b - 1] /\ e = Elements(count, b) /\ c = CollectNode(count, b)
                                /\ g = Filled(count, b - 1) /\ size = Batch(count, b)
    OBVIOUS
  <2>3. BatchAt(count, b, g, size)
    BY <2>1, <2>2, BatchIs
  <2>4. PICK x, y, z : /\ x = Above(n, L, 1, Building(count, g, 0))
                       /\ y = Above(n, L, 1 + size, Building(count, g, size))
                       /\ z = Above(n, L, 1, Building(count, g + size, 0))
    OBVIOUS
  <2>5. Takes(s, from, x) /\ s \in Seq(Nodes)
    BY <1>2, <1>7, <2>1, <2>2, <2>4
  <2>6. e \in Seq(Nodes) /\ c \in Seq(Nodes)
    BY <2>1, <2>2, BatchType
  <2>7. Takes(e, x, y)
    BY <2>1, <2>2, <2>3, <2>4, ElementsTake
  <2>8. Takes(c, y, z)
    BY <2>1, <2>2, <2>3, <2>4, CollectTakes
  <2>9. PICK se : se = s \o e
    OBVIOUS
  <2>10. Takes(se, from, y) /\ se \in Seq(Nodes)
    BY <2>5, <2>6, <2>7, <2>9, TakesJoined
  <2>11. Takes(se \o c, from, z)
    BY <2>6, <2>8, <2>10, TakesJoined
  <2>12. f[b] = se \o c
    BY <1>4, <2>2, <2>9
  <2>13. g + size = Filled(count, b)
    BY <2>3 DEF BatchAt
  <2> QED
    BY <2>1, <2>4, <2>11, <2>12, <2>13
<1> HIDE DEF good
<1>8. \A b \in 0 .. m : b \in good
  BY <1>3, <1>6, <1>7, Upward
<1>9. Takes(f[m], from, Above(n, L, 1, Building(count, count, 0)))
  <2>1. m \in good
    BY <1>3, <1>8
  <2> QED
    BY <1>3, <2>1 DEF good
<1>10. Building(count, count, 0) = None
  BY DEF Building
<1> QED
  BY <1>4, <1>5, <1>9, <1>10

(* A node that is no part of an array literal.                             *)
LEMMA SimpleTakes ==
  ASSUME NEW n, NEW L, Ground(n, L), NEW node \in Nodes, node.type \notin {"ARR_EXPR", "COLLECT"},
         node.type \in {"LOCAL_EXPR", "ASSIGN_LOCAL"} => node.arg \in Visible,
         NEW j \in Nat, NEW k \in Nat \ {0}, k = j + Weight(node)
  PROVE  Takes(<<node>>, Above(n, L, j, None), Above(n, L, k, None))
<1>1. PICK x, y : x = Above(n, L, j, None) /\ y = Above(n, L, k, None)
  OBVIOUS
<1>2. x \in Shapes /\ x.depth = n + j /\ x.locals = L /\ x.array = None
  BY <1>1, NoneType, GroundAbove
<1>3. y \in Shapes /\ y.depth = n + k /\ y.locals = L /\ y.array = None /\ Clear(L, y.depth - 1)
  <2>1. k \in Nat /\ k >= 1
    OBVIOUS
  <2> QED
    BY <1>1, <2>1, NoneType, GroundAbove
<1>4. y.depth = x.depth + Weight(node)
  <2>1. Weight(node) = k - j
    <3>1. CASE node.type = "CALL_EXPR"
      <4>1. Weight(node) = -node.arg
        BY <3>1 DEF Weight
      <4>2. node.arg \in Nat
        BY <3>1 DEF Nodes
      <4> QED
        BY <4>1, <4>2
    <3>2. CASE node.type # "CALL_EXPR"
      <4>1. Weight(node) \in {-1, 0, 1}
        BY <3>2 DEF Weight
      <4> QED
        BY <4>1
    <3> QED
      BY <3>1, <3>2
  <2> QED
    BY <1>2, <1>3, <2>1 DEF Ground
<1>5. node.type = "LITERAL_EXPR" => Element(x, y, node.arg)
  BY <1>2, <1>3 DEF Element
<1>6. NodeTakes(node, x, y)
  BY <1>2, <1>3, <1>4, <1>5 DEF NodeTakes, Ground
<1> QED
  BY <1>1, <1>6, TakesOne

(* Every expression of the programs leaves its value.                      *)
Valued(S, n, L) == \A e \in S : e \in Seq(Nodes) /\ Takes(e, Above(n, L, 0, None), Above(n, L, 1, None))

LEMMA LiteralTakes ==
  ASSUME Typed, NEW v \in Literals, NEW n, NEW L, Ground(n, L), NEW j \in Nat
  PROVE  v \in Seq(Nodes) /\ Takes(v, Above(n, L, j, None), Above(n, L, j + 1, None))
<1>1. PICK m \in profile.numbers : v = <<Literal(m)>>
  BY DEF Literals
<1>2. m \in Nat
  BY DEF Typed, Programs
<1>3. Literal(m) \in Nodes /\ Literal(m).type = "LITERAL_EXPR"
  BY <1>2, LiteralType DEF Literal, Node
<1>4. Weight(Literal(m)) = 1
  BY <1>3 DEF Weight
<1>5. j + 1 \in Nat \ {0} /\ j + 1 = j + Weight(Literal(m))
  BY <1>4
<1> QED
  BY <1>1, <1>3, <1>5, SimpleTakes

(* A value, and a node that uses it.                                       *)
LEMMA ThenTakes ==
  ASSUME NEW n, NEW L, Ground(n, L), NEW v \in Seq(Nodes), NEW node \in Nodes,
         node.type \notin {"ARR_EXPR", "COLLECT"},
         node.type \in {"LOCAL_EXPR", "ASSIGN_LOCAL"} => node.arg \in Visible,
         NEW i \in Nat, NEW j \in Nat, NEW k \in Nat \ {0}, k = j + Weight(node),
         Takes(v, Above(n, L, i, None), Above(n, L, j, None))
  PROVE  v \o <<node>> \in Seq(Nodes) /\ Takes(v \o <<node>>, Above(n, L, i, None), Above(n, L, k, None))
<1>1. PICK one : one = <<node>>
  OBVIOUS
<1>2. one \in Seq(Nodes) /\ Takes(one, Above(n, L, j, None), Above(n, L, k, None))
  BY <1>1, SimpleTakes
<1> QED
  BY <1>1, <1>2, TakesJoined

LEMMA AssignTakes ==
  ASSUME Typed, NEW n, NEW L, Ground(n, L)
  PROVE  Valued({v \o <<SetGlobal>> : v \in Literals}, n, L)
<1>1. SetGlobal \in Nodes /\ SetGlobal.type = "ASSIGN_GLOBAL"
  BY NameType DEF SetGlobal, Node
<1>2. Weight(SetGlobal) = 0
  BY <1>1 DEF Weight
<1>3. ASSUME NEW v \in Literals
      PROVE  /\ v \o <<SetGlobal>> \in Seq(Nodes)
             /\ Takes(v \o <<SetGlobal>>, Above(n, L, 0, None), Above(n, L, 1, None))
  <2>1. v \in Seq(Nodes) /\ Takes(v, Above(n, L, 0, None), Above(n, L, 0 + 1, None))
    BY LiteralTakes
  <2>2. 0 + 1 = 1 /\ 1 \in Nat \ {0} /\ 1 = 1 + Weight(SetGlobal)
    BY <1>2
  <2>3. Takes(v, Above(n, L, 0, None), Above(n, L, 1, None))
    BY <2>1, <2>2
  <2> QED
    BY <1>1, <2>1, <2>2, <2>3, ThenTakes
<1> QED
  BY <1>3 DEF Valued

LEMMA StoreTakes ==
  ASSUME Typed, NEW n, NEW L, Ground(n, L)
  PROVE  Valued(UNION {{v \o <<SetLocal(s)>> : v \in Literals} : s \in Visible}, n, L)
<1>1. ASSUME NEW s \in Visible, NEW v \in Literals
      PROVE  /\ v \o <<SetLocal(s)>> \in Seq(Nodes)
             /\ Takes(v \o <<SetLocal(s)>>, Above(n, L, 0, None), Above(n, L, 1, None))
  <2>1. PICK node : node = SetLocal(s)
    OBVIOUS
  <2>2. node \in Nodes /\ node.type = "ASSIGN_LOCAL" /\ node.arg = s
    BY <2>1, VisibleType, LocalType DEF SetLocal, Node
  <2>3. Weight(node) = 0
    BY <2>2 DEF Weight
  <2>4. v \in Seq(Nodes) /\ Takes(v, Above(n, L, 0, None), Above(n, L, 0 + 1, None))
    BY LiteralTakes
  <2>5. 0 + 1 = 1 /\ 1 \in Nat \ {0} /\ 1 = 1 + Weight(node)
    BY <2>3
  <2>6. Takes(v, Above(n, L, 0, None), Above(n, L, 1, None))
    BY <2>4, <2>5
  <2> QED
    BY <2>1, <2>2, <2>4, <2>5, <2>6, ThenTakes
<1> DEFINE B == UNION {{v \o <<SetLocal(s)>> : v \in Literals} : s \in Visible}
<1>2. ASSUME NEW e \in B
      PROVE  e \in Seq(Nodes) /\ Takes(e, Above(n, L, 0, None), Above(n, L, 1, None))
  <2>1. PICK s \in Visible, v \in Literals : e = v \o <<SetLocal(s)>>
    BY <1>2
  <2> HIDE DEF B
  <2> QED
    BY <1>1, <2>1
<1> HIDE DEF B
<1>3. Valued(B, n, L)
  BY <1>2 DEF Valued
<1> QED
  BY <1>3 DEF B

LEMMA CallTakes ==
  ASSUME Typed, NEW n, NEW L, Ground(n, L)
  PROVE  /\ Valued({<<GlobalVar>> \o v \o <<Node("CALL_EXPR", 1)>> : v \in Literals}, n, L)
         /\ Valued({<<GlobalVar>>}, n, L)
<1>1. PICK gv, call : gv = <<GlobalVar>> /\ call = Node("CALL_EXPR", 1)
  OBVIOUS
<1>2. gv \in Seq(Nodes) /\ Takes(gv, Above(n, L, 0, None), Above(n, L, 1, None))
  <2>1. GlobalVar \in Nodes /\ GlobalVar.type = "VAR_EXPR"
    BY NameType DEF GlobalVar, Node
  <2>2. Weight(GlobalVar) = 1
    BY <2>1 DEF Weight
  <2>3. 0 \in Nat /\ 1 \in Nat \ {0} /\ 1 = 0 + Weight(GlobalVar)
    BY <2>2
  <2> QED
    BY <1>1, <2>1, <2>3, SimpleTakes
<1>3. call \in Nodes /\ call.type = "CALL_EXPR" /\ call.arg = 1
  BY <1>1 DEF Node, Nodes
<1>4. Weight(call) = -1
  BY <1>3 DEF Weight
<1>5. ASSUME NEW v \in Literals, NEW e, e = gv \o v \o <<call>>
      PROVE  e \in Seq(Nodes) /\ Takes(e, Above(n, L, 0, None), Above(n, L, 1, None))
  <2>1. PICK both : both = gv \o v
    OBVIOUS
  <2>2. v \in Seq(Nodes) /\ Takes(v, Above(n, L, 1, None), Above(n, L, 1 + 1, None))
    BY LiteralTakes
  <2>3. both \in Seq(Nodes) /\ Takes(both, Above(n, L, 0, None), Above(n, L, 1 + 1, None))
    BY <1>2, <2>1, <2>2, TakesJoined
  <2>4. 1 + 1 = 2 /\ 2 \in Nat /\ 1 \in Nat \ {0} /\ 1 = 2 + Weight(call)
    BY <1>4
  <2>5. Takes(both, Above(n, L, 0, None), Above(n, L, 2, None))
    BY <2>3, <2>4
  <2>6. both \o <<call>> \in Seq(Nodes) /\ Takes(both \o <<call>>, Above(n, L, 0, None), Above(n, L, 1, None))
    BY <1>3, <2>3, <2>4, <2>5, ThenTakes
  <2> QED
    BY <1>5, <2>1, <2>6
<1>6. Valued({gv \o v \o <<call>> : v \in Literals}, n, L)
  BY <1>5 DEF Valued
<1>7. Valued({gv}, n, L)
  BY <1>2 DEF Valued
<1> QED
  BY <1>1, <1>6, <1>7

LEMMA EffectsValued ==
  ASSUME Typed, NEW n, NEW L, Ground(n, L)
  PROVE  Valued(Effects, n, L) /\ Valued(Conditions, n, L)
<1> DEFINE A == {v \o <<SetGlobal>> : v \in Literals}
           B == UNION {{v \o <<SetLocal(s)>> : v \in Literals} : s \in Visible}
           C == {<<GlobalVar>> \o v \o <<Node("CALL_EXPR", 1)>> : v \in Literals}
<1>1. Effects = Of("set global", A) \cup Of("set local", B) \cup Of("call", C)
  BY Zenon DEF Effects
<1>2. Valued(A, n, L) /\ Valued(B, n, L) /\ Valued(C, n, L)
  BY AssignTakes, StoreTakes, CallTakes
<1> HIDE DEF A, B, C
<1>3. Valued(Effects, n, L)
  BY <1>1, <1>2 DEF Valued, Of
<1>4. Valued(Conditions, n, L)
  BY CallTakes DEF Conditions
<1> QED
  BY <1>3, <1>4

LEMMA OthersValued ==
  ASSUME Typed, NEW n, NEW L, Ground(n, L)
  PROVE  Valued(Optional \ {<<>>}, n, L) /\ Valued(Increments \ {<<>>}, n, L)
<1>1. \A v \in Literals : v \in Seq(Nodes) /\ Takes(v, Above(n, L, 0, None), Above(n, L, 0 + 1, None))
  BY LiteralTakes
<1>2. 0 + 1 = 1
  OBVIOUS
<1>3. Valued(Optional \ {<<>>}, n, L)
  BY <1>1, <1>2 DEF Valued, Optional
<1>4. PICK A : A = {v \o <<SetGlobal>> : v \in Literals}
  OBVIOUS
<1>5. Valued(A, n, L)
  BY <1>4, AssignTakes
<1>6. Increments = {<<>>} \cup Of("for", A)
  BY <1>4 DEF Increments
<1>7. Valued(Increments \ {<<>>}, n, L)
  BY <1>5, <1>6 DEF Valued, Of
<1> QED
  BY <1>3, <1>7

LEMMA PrintedValued ==
  ASSUME Typed, LiteralsFit, NEW n, NEW L, Ground(n, L)
  PROVE  Valued(Printed, n, L)
<1> DEFINE A == UNION {{v \o <<LocalVar(s), Plus>> : v \in Literals} : s \in Visible}
           B == {ArrayOf(k) : k \in profile.arrays}
<1>1. Valued(A, n, L)
  <2>1. Plus \in Nodes /\ Plus.type = "BINARY_EXPR"
    BY DEF Plus, Node, Nodes
  <2>2. Weight(Plus) = -1
    BY <2>1 DEF Weight
  <2>3. ASSUME NEW s \in Visible, NEW v \in Literals, NEW e, e = v \o <<LocalVar(s), Plus>>
        PROVE  e \in Seq(Nodes) /\ Takes(e, Above(n, L, 0, None), Above(n, L, 1, None))
    <3>1. PICK node : node = LocalVar(s)
      OBVIOUS
    <3>2. node \in Nodes /\ node.type = "LOCAL_EXPR" /\ node.arg = s
      BY <3>1, VisibleType, LocalType DEF LocalVar, Node
    <3>3. Weight(node) = 1
      BY <3>2 DEF Weight
    <3>4. 1 \in Nat \ {0} /\ 2 \in Nat \ {0} /\ 2 = 1 + Weight(node) /\ 1 = 2 + Weight(Plus) /\ 0 + 1 = 1
      BY <2>2, <3>3
    <3>5. PICK lv, p : lv = <<node>> /\ p = <<Plus>>
      OBVIOUS
    <3>6. lv \in Seq(Nodes) /\ Takes(lv, Above(n, L, 1, None), Above(n, L, 2, None))
      BY <3>2, <3>4, <3>5, SimpleTakes
    <3>7. lv \o p \in Seq(Nodes) /\ Takes(lv \o p, Above(n, L, 1, None), Above(n, L, 1, None))
      BY <2>1, <3>4, <3>5, <3>6, ThenTakes
    <3>8. lv \o p = <<LocalVar(s), Plus>>
      <4>0. p \in Seq(Nodes)
        BY <2>1, <3>5
      <4>1. IsJoin(Nodes, lv, p, lv \o p)
        BY <3>6, <4>0, Joined
      <4>2. PICK all : all = lv \o p
        OBVIOUS
      <4>3. all \in Seq(Nodes) /\ Len(all) = 2 /\ all[1] = node /\ all[2] = Plus
        BY <3>5, <4>1, <4>2 DEF IsJoin
      <4>4. all = <<LocalVar(s), Plus>>
        BY <3>1, <4>3
      <4> QED
        BY <4>2, <4>4
    <3>9. PICK two : two = <<LocalVar(s), Plus>>
      OBVIOUS
    <3>10. two \in Seq(Nodes) /\ Takes(two, Above(n, L, 1, None), Above(n, L, 1, None))
      BY <3>7, <3>8, <3>9
    <3>11. v \in Seq(Nodes) /\ Takes(v, Above(n, L, 0, None), Above(n, L, 1, None))
      <4>1. v \in Seq(Nodes) /\ Takes(v, Above(n, L, 0, None), Above(n, L, 0 + 1, None))
        BY LiteralTakes
      <4> QED
        BY <3>4, <4>1
    <3>12. v \o two \in Seq(Nodes) /\ Takes(v \o two, Above(n, L, 0, None), Above(n, L, 1, None))
      BY <3>10, <3>11, TakesJoined
    <3> QED
      BY <2>3, <3>9, <3>12
  <2>4. ASSUME NEW e \in A
        PROVE  e \in Seq(Nodes) /\ Takes(e, Above(n, L, 0, None), Above(n, L, 1, None))
    <3>1. PICK s \in Visible, v \in Literals : e = v \o <<LocalVar(s), Plus>>
      BY <2>4
    <3> HIDE DEF A
    <3> QED
      BY <2>3, <3>1
  <2> HIDE DEF A
  <2> QED
    BY <2>4 DEF Valued
<1>2. Valued(B, n, L)
  <2>1. \A k \in profile.arrays : k \in Nat /\ (Arrayed => k < ByteSize /\ SlotSize < ByteSize)
    BY DEF Typed, Programs, LiteralsFit
  <2>2. \A k \in profile.arrays : /\ ArrayOf(k) \in Seq(Nodes)
                                  /\ Takes(ArrayOf(k), Above(n, L, 0, None), Above(n, L, 1, None))
    BY <2>1, ArrayType, ArrayTakes
  <2> QED
    BY <2>2 DEF Valued
<1>3. Printed = Of("sum", A) \cup B
  BY Zenon DEF Printed
<1> HIDE DEF A, B
<1> QED
  BY <1>1, <1>2, <1>3 DEF Valued, Of

LEMMA ValueMoves ==
  ASSUME NEW ch \in Chunks, NEW n, NEW L, Ground(n, L), NEW S, Valued(S \ {<<>>}, n, L), NEW e \in S,
         NEW value, value = IF e = <<>> THEN Emit(ch, "OP_NIL", <<>>) ELSE EmitExpr(ch, e)
  PROVE  Moves(ch, value, Above(n, L, 0, None), Above(n, L, 1, None)) /\ value \in Chunks
<1>1. CASE e = <<>>
  <2>1. PICK x, y : x = Above(n, L, 0, None) /\ y = Above(n, L, 1, None)
    OBVIOUS
  <2>2. x \in Shapes /\ x.depth = n + 0 /\ x.locals = L /\ x.array = None
    BY <2>1, NoneType, GroundAbove
  <2>3. y \in Shapes /\ y.depth = n + 1 /\ y.locals = L /\ y.array = None
    BY <2>1, NoneType, GroundAbove
  <2>4. Apiece(x, y, 1) /\ Clear(y.locals, x.depth)
    BY <2>2, <2>3 DEF Apiece, Ground
  <2>5. Moves(ch, value, x, y)
    BY <1>1, <2>2, <2>3, <2>4, AloneMoves
  <2> QED
    BY <2>1, <2>5 DEF Moves
<1>2. CASE e # <<>>
  <2>1. e \in Seq(Nodes) /\ Takes(e, Above(n, L, 0, None), Above(n, L, 1, None))
    BY <1>2 DEF Valued
  <2> QED
    BY <1>2, <2>1, ExprMoves
<1> QED
  BY <1>1, <1>2

(* The instructions that end a block take its locals from the stack.       *)
LEMMA PopsMove ==
  ASSUME NEW ch \in Chunks, NEW k \in Nat, NEW n \in Nat, NEW K \in SUBSET Symbols, Distinct(K),
         NEW L \in SUBSET K, k = 0 => K = L
  PROVE  Moves(ch, Popped(ch, k), Shape(n + k, K, None), Shape(n, L, None))
<1> DEFINE at(i) == Shape(n + (k - i), IF i = 0 THEN K ELSE L, None)
           good == {i \in 0 .. k : Moves(ch, Popped(ch, i), at(0), at(i))}
<1>1. \A i \in 0 .. k : at(i) \in Shapes
  <2>1. Distinct(L)
    BY DEF Distinct
  <2>2. ASSUME NEW i \in 0 .. k
        PROVE  at(i) \in Shapes
    <3>1. n + (k - i) \in Nat
      OBVIOUS
    <3>2. PICK M : M = IF i = 0 THEN K ELSE L
      OBVIOUS
    <3>3. M \in SUBSET Symbols /\ Distinct(M)
      BY <2>1, <3>2
    <3> QED
      BY <3>1, <3>2, <3>3, NoneType, ShapeType
  <2> QED
    BY <2>2
<1>2. 0 \in good
  BY PoppedNone, MovesNone
<1>3. ASSUME NEW i \in 1 .. k, i - 1 \in good
      PROVE  i \in good
  <2>1. PICK to, x, y : to = Popped(ch, i - 1) /\ x = at(i - 1) /\ y = at(i)
    OBVIOUS
  <2>2. i \in 0 .. k /\ i - 1 \in 0 .. k /\ i \in Nat \ {0}
    OBVIOUS
  <2>3. Moves(ch, to, at(0), x)
    BY <1>3, <2>1
  <2>4. to \in Chunks
    BY <2>3 DEF Moves
  <2>5. x \in Shapes /\ y \in Shapes
    BY <1>1, <2>1, <2>2
  <2>6. Apiece(x, y, -1)
    <3>1. n + (k - i) = n + (k - (i - 1)) + (-1)
      BY <2>2
    <3>2. x.depth = n + (k - (i - 1)) /\ y.depth = n + (k - i) /\ x.array = None /\ y.array = None
      BY <2>1, ShapeParts
    <3>3. y.locals = L /\ x.locals \in {K, L}
      BY <2>1, <2>2, ShapeParts
    <3> QED
      BY <3>1, <3>2, <3>3 DEF Apiece
  <2>7. Moves(to, Emit(to, "OP_POP", <<>>), x, y)
    BY <2>4, <2>5, <2>6, AloneMoves
  <2>8. Emit(to, "OP_POP", <<>>) = Popped(ch, i)
    BY <2>1, <2>2, <2>4, PoppedNext
  <2>9. Moves(ch, Popped(ch, i), at(0), y)
    BY <2>3, <2>7, <2>8, MovesThen
  <2> QED
    BY <2>1, <2>2, <2>9
<1> HIDE DEF good
<1>4. \A i \in 0 .. k : i \in good
  BY <1>2, <1>3, Upward
<1>5. Moves(ch, Popped(ch, k), at(0), at(k))
  <2>1. k \in good
    BY <1>4
  <2> QED
    BY <2>1 DEF good
<1>6. at(0) = Shape(n + k, K, None) /\ at(k) = Shape(n, L, None)
  <2>1. k - 0 = k /\ k - k = 0 /\ n + 0 = n
    OBVIOUS
  <2>2. (IF k = 0 THEN K ELSE L) = L
    OBVIOUS
  <2> QED
    BY <2>1, <2>2
<1> QED
  BY <1>5, <1>6
-----------------------------------------------------------------------------
(* Jumps.                                                                  *)

(* The chart d of ch can be drawn on: up to v at the end of to.            *)
Drawn(ch, d, to, W, v) ==
  \E dd : Charts(to, dd, W) /\ Prolongs(ch, to, d, dd) /\ dd[Count(to)] = v

LEMMA MovesDraws ==
  ASSUME NEW ch, NEW to, NEW x, NEW y, Moves(ch, to, x, y),
         NEW d, NEW W \in SUBSET Nat, Charts(ch, d, W), d[Count(ch)] = x
  PROVE  Drawn(ch, d, to, W, y)
BY DEF Moves, Drawn

LEMMA DrawnTwice ==
  ASSUME NEW a, NEW b, NEW d, NEW e, NEW W, NEW v,
         NEW X, Charts(a, d, X), NEW Y, Charts(b, e, Y), Prolongs(a, b, d, e),
         NEW c, Drawn(b, e, c, W, v)
  PROVE  Drawn(a, d, c, W, v)
<1>1. PICK dd : Charts(c, dd, W) /\ Prolongs(b, c, e, dd) /\ dd[Count(c)] = v
  BY DEF Drawn
<1>2. a \in Chunks /\ b \in Chunks /\ c \in Chunks
  BY <1>1 DEF Charts
<1>3. Prolongs(a, c, d, dd)
  BY <1>1, <1>2, ProlongsTwice
<1> QED
  BY <1>1, <1>3 DEF Drawn

LEMMA EmitDraws ==
  ASSUME NEW ch, NEW d, NEW W \in SUBSET Nat, Charts(ch, d, W),
         NEW to, NEW op, Adds(ch, to, op),
         NEW v, NEW more, Follows(ch, to, op, d, v, more)
  PROVE  Drawn(ch, d, to, W \cup more, v)
<1>1. PICK dd : dd = Marked(d, to, v)
  OBVIOUS
<1>2. Charts(to, dd, W \cup more) /\ Prolongs(ch, to, d, dd) /\ dd[Count(to)] = v
  BY <1>1, ChartEmit
<1> QED
  BY <1>2 DEF Drawn

(* A chunk only has the meaning that is noted apart from its code.         *)
LEMMA EmitKeeps ==
  ASSUME NEW ch \in Chunks, NEW op, NEW operands
  PROVE  Emit(ch, op, operands).meaning = ch.meaning
BY DEF Emit, Chunks

LEMMA JumpDraws ==
  ASSUME NEW ch, NEW d, NEW W \in SUBSET Nat, Charts(ch, d, W),
         NEW op \in {"OP_JIF", "OP_JMP"}, NEW to, to = EmitJump(ch, op),
         NEW v \in Shapes, op = "OP_JIF" => Under(v, d[Count(ch)]) /\ v.array = None
  PROVE  /\ Drawn(ch, d, to, W \cup {LastJump(to)}, v)
         /\ to \in Chunks /\ LastJump(to) = Count(ch) + 1 /\ LastJump(to) \in Nat
         /\ Whole(to) => Hole(to, LastJump(to))
<1>1. ch \in Chunks /\ Whole(ch) /\ d \in [Nat -> Shapes]
  BY DEF Charts
<1>2. Builds(ch, to, {LastJump(to)}) /\ LastJump(to) = Count(ch) + 1 /\ LastJump(to) \in Nat
  BY <1>1, JumpSteps
<1>3. PICK c, h, x : c = Count(ch) /\ h = LastJump(to) /\ x = d[c]
  OBVIOUS
<1>4. c \in Nat /\ h = c + 1 /\ h - 1 = c
  BY <1>1, <1>2, <1>3, ChunkType
<1>5. op \in DOMAIN Width /\ op # "OP_CLOSURE" /\ Width[op] = 2
  BY Widths DEF WithTwo
<1>6. PICK operands : operands = <<ByteSize - 1, ByteSize - 1>>
  OBVIOUS
<1>7. operands \in Seq(Int) /\ Len(operands) = 2
  <2>1. ByteSize - 1 \in Int
    BY CodegenAssumption
  <2> QED
    BY <1>6, <2>1
<1>8. Fitting(op, operands)
  BY <1>5, <1>7 DEF Fitting
<1>9. Emitted(ch, to, op, operands)
  BY <1>1, <1>5, <1>6, <1>7, EmitType DEF EmitJump
<1>10. to \in Chunks
  BY <1>2 DEF Builds
<1>11. Remembers(ch, to)
  BY <1>1, EmitKeeps DEF EmitJump, Remembers
<1>12. Adds(ch, to, op) /\ Stands(to, c, op, operands)
  BY <1>1, <1>3, <1>5, <1>7, <1>8, <1>9, <1>10, <1>11, EmitAdds, EmitStands
<1>13. x \in Shapes /\ {h} \in SUBSET Nat
  BY <1>1, <1>2, <1>3, <1>4
<1>14. op \notin Leaving => Leads(to, c, x, v)
  <2>1. ASSUME op \notin Leaving
        PROVE  Leads(to, c, x, v)
    <3>1. op = "OP_JIF" /\ OpAt(to, c) = "OP_JIF"
      BY <1>12, <2>1 DEF Stands, Leaving
    <3>2. Effect(to, c) = 0
      BY <3>1 DEF Effect, Pushing, Popping
    <3>3. v.depth <= x.depth + 0 /\ v.locals \subseteq x.locals /\ x.array = None /\ v.array = None
      BY <1>3, <1>13, <3>1, ShapesAre DEF Under
    <3>4. KeepsLocals(to, c, x, v)
      BY <3>1, <3>3 DEF KeepsLocals, Writing, Pushing
    <3>5. FillsArray(to, c, x, v)
      BY <3>1, <3>3 DEF FillsArray
    <3> QED
      BY <3>2, <3>3, <3>4, <3>5 DEF Leads
  <2> QED
    BY <2>1
<1>15. Follows(ch, to, op, d, v, {h})
  BY <1>3, <1>4, <1>13, <1>14 DEF Follows
<1>16. Drawn(ch, d, to, W \cup {h}, v)
  BY <1>12, <1>15, EmitDraws
<1>17. Hole(to, h)
  <2>1. Continued(ch, to, op)
    BY <1>1, <1>12 DEF Adds
  <2> QED
    BY <1>3, <1>4, <2>1 DEF Hole, Continued
<1> QED
  BY <1>2, <1>3, <1>10, <1>16, <1>17

LEMMA LoopDraws ==
  ASSUME NEW ch, NEW d, NEW W \in SUBSET Nat, Charts(ch, d, W),
         NEW start \in Nat, NEW to, to = EmitLoop(ch, start),
         start \in Ops(ch), LoopDistance(ch, start) <= ShortMax,
         Under(d[start], d[Count(ch)]), NEW v \in Shapes
  PROVE  Drawn(ch, d, to, W, v) /\ to \in Chunks
<1>1. ch \in Chunks /\ Whole(ch)
  BY DEF Charts
<1>2. PICK op, c : op = "OP_LOOP" /\ c = Count(ch)
  OBVIOUS
<1>3. LoopEmitted(ch, to, start)
  BY <1>1, LoopIsEmitted
<1>4. PICK operands \in Seq(Int) :
             /\ Emitted(ch, to, op, operands) /\ Fitting(op, operands)
             /\ start \in Ops(ch) /\ LoopDistance(ch, start) <= ShortMax
                  => Target(to, c) = start
  BY <1>2, <1>3 DEF LoopEmitted
<1>5. to \in Chunks
  BY <1>4 DEF Emitted
<1>6. op \in DOMAIN Width /\ op \in Leaving
  BY <1>2, Widths DEF WithTwo, Leaving
<1>7. Remembers(ch, to)
  BY <1>1, EmitKeeps DEF EmitLoop, Remembers
<1>8. Adds(ch, to, op)
  BY <1>1, <1>4, <1>5, <1>6, <1>7, EmitAdds
<1>9. start \in Begins(ch) /\ Target(to, c) = start
  BY <1>4 DEF Begins
<1>10. PICK none : none = {}
  OBVIOUS
<1>11. Follows(ch, to, op, d, v, none)
  BY <1>2, <1>6, <1>9, <1>10 DEF Follows
<1>12. Drawn(ch, d, to, W \cup none, v)
  BY <1>8, <1>11, EmitDraws
<1>13. W \cup none = W
  BY <1>10
<1> QED
  BY <1>5, <1>12, <1>13

(* Jumps that wait land at the end, when it asks for no more than what is  *)
(* there where they start.                                                 *)
LEMMA PatchCharts ==
  ASSUME NEW ch, NEW d, NEW W \in SUBSET Nat, Charts(ch, d, W),
         NEW P \in SUBSET Nat, Reachable(ch, P),
         \A h \in P : Hole(ch, h) /\ Under(d[Count(ch)], d[h - 1]),
         NEW rest \in SUBSET Nat, W \ P \subseteq rest,
         NEW to, to = PatchJumps(ch, P)
  PROVE  /\ Charts(to, d, rest) /\ Prolongs(ch, to, d, d) /\ Count(to) = Count(ch)
         /\ Ops(to) = Ops(ch)
<1>1. /\ ch \in Chunks /\ Whole(ch) /\ d \in [Nat -> Shapes] /\ d[0] = Shape(0, {}, None)
      /\ Anchored(ch) /\ \A o \in Ops(ch) : Passes(ch, d, W, o)
  BY DEF Charts
<1>2. \A h \in P : Hole(ch, h)
  OBVIOUS
<1>3. Patched(ch, to, P)
  BY <1>1, <1>2, PatchWhole
<1>4. /\ to \in Chunks /\ Count(to) = Count(ch) /\ Ops(to) = Ops(ch) /\ Begins(to) = Begins(ch)
      /\ Kept(ch, to) /\ Whole(to)
      /\ \A o \in Ops(ch) : PatchedAt(ch, to, P, o)
  BY <1>3 DEF Patched
<1>5. to.meaning = ch.meaning
  BY <1>1 DEF PatchJumps, Chunks
<1>6. Anchored(to) /\ \A o : MeaningAt(to, o) = MeaningAt(ch, o)
  BY <1>1, <1>4, <1>5 DEF Anchored, MeaningAt
<1>7. ASSUME NEW o \in Ops(ch)
      PROVE  Passes(to, d, rest, o)
  <2>1. Passes(ch, d, W, o) /\ PatchedAt(ch, to, P, o)
    BY <1>1, <1>4
  <2>2. OpAt(to, o) = OpAt(ch, o) /\ Following(to, o) = Following(ch, o)
    BY <2>1 DEF PatchedAt
  <2>3. CASE o + 1 \notin P
    <3>1. SameAt(ch, to, o)
      BY <2>1, <2>3 DEF PatchedAt
    <3>2. \A x, y : Leads(ch, o, x, y) => Leads(to, o, x, y)
      BY <1>1, <1>6, <3>1, LeadsKept
    <3>3. OpAt(ch, o) \in Jumps => Target(to, o) = Target(ch, o)
      BY <3>1 DEF SameAt
    <3>4. o + 1 \in W => o + 1 \in rest
      BY <2>3
    <3> QED
      BY <1>4, <2>1, <2>2, <3>2, <3>3, <3>4 DEF Passes
  <2>4. CASE o + 1 \in P
    <3>1. PICK h : h = o + 1
      OBVIOUS
    <3>2. o \in Nat
      BY <1>1, InstructionIs DEF Instruction
    <3>3. h - 1 = o
      BY <3>1, <3>2
    <3>4. OpAt(ch, o) \in {"OP_JIF", "OP_JMP"} /\ Under(d[Count(ch)], d[o])
      BY <2>4, <3>1, <3>3 DEF Hole
    <3>5. Effect(to, o) = 0 /\ Effect(ch, o) = 0
      BY <2>2, <3>4 DEF Effect, Pushing, Popping
    <3>6. Target(to, o) = Count(ch)
      BY <2>1, <2>4 DEF PatchedAt
    <3>7. Target(to, o) \in Begins(to) /\ Under(d[Target(to, o)], d[o])
      BY <1>4, <3>4, <3>6 DEF Begins
    <3>8. ASSUME NEW x, NEW y, Leads(ch, o, x, y)
          PROVE  Leads(to, o, x, y)
      <4>1. y.depth <= x.depth + 0 /\ KeepsLocals(ch, o, x, y) /\ (Arrayed => FillsArray(ch, o, x, y))
        BY <3>5, <3>8 DEF Leads
      <4>2. KeepsLocals(to, o, x, y)
        BY <2>2, <3>4, <4>1 DEF KeepsLocals, Writing, Pushing
      <4>3. Arrayed => FillsArray(to, o, x, y)
        BY <2>2, <3>4, <4>1 DEF FillsArray
      <4> QED
        BY <3>5, <4>1, <4>2, <4>3 DEF Leads
    <3> QED
      BY <2>1, <2>2, <3>7, <3>8 DEF Passes
  <2> QED
    BY <2>3, <2>4
<1>8. Charts(to, d, rest)
  BY <1>1, <1>4, <1>6, <1>7 DEF Charts
<1>9. Prolongs(ch, to, d, d)
  BY <1>1, <1>4, ChunkType DEF Prolongs
<1> QED
  BY <1>4, <1>8, <1>9

(* The same, with a name for what is asked of the jumps P of ch, and one   *)
(* for the chart after they were patched.                                  *)
ToLand(ch, d, W, P, rest) == /\ Charts(ch, d, W) /\ Reachable(ch, P)
                             /\ W \in SUBSET Nat /\ P \in SUBSET Nat
                             /\ rest \in SUBSET Nat /\ W \ P \subseteq rest
                             /\ \A h \in P : Hole(ch, h) /\ Under(d[Count(ch)], d[h - 1])
PatchedChart(ch, d, to, rest) == /\ Charts(to, d, rest) /\ Prolongs(ch, to, d, d)
                                 /\ Count(to) = Count(ch) /\ Ops(to) = Ops(ch)

LEMMA PatchLands ==
  ASSUME NEW ch, NEW d, NEW W, NEW P, NEW rest, ToLand(ch, d, W, P, rest)
  PROVE  PatchedChart(ch, d, PatchJumps(ch, P), rest)
BY PatchCharts DEF ToLand, PatchedChart
-----------------------------------------------------------------------------
(* The chart of the script while its statements are in progress.  B[i] is  *)
(* the floor that a statement in the i-th frame finds: the cells of the    *)
(* locals of the frames up to it, and nothing else.                        *)

Floors == {x \in Shapes : x.array = None /\ Clear(x.locals, x.depth)}
Bare == Shape(0, {}, None)
Over(x, s) == Shape(x.depth + Len(s), x.locals \cup IF Tracked THEN ToSet(s) ELSE {}, None)
Raised(x) == Above(x.depth, x.locals, 1, None)

WaitingTo(f, lps, n) == UNION {HolesOf(f, lps, i) : i \in 1 .. n}

Waits(ch, d, f, lps, B, i) ==
  /\ B[i] = Over(B[i - 1], f[i].locals)
  /\ f[i].kind \in Branches => f[i].locals = <<>>
  /\ \A h \in HolesOf(f, lps, i) : h \in Nat /\ Hole(ch, h) /\ Under(B[i - 1], d[h - 1])
  /\ f[i].kind = "then" => Under(Raised(B[i - 1]), d[f[i].at - 1])
  /\ f[i].kind = "body" => f[i].start \in Ops(ch) /\ Under(d[f[i].start], B[i - 1])

(* A point is never deeper than what the stack has there.                  *)
Reached(ch, d, p) == p[1] \in 0 .. Count(ch) /\ p[2] \in Nat /\ p[2] <= d[p[1]].depth

ChartedBy(ch, f, lps, n, points, d, B) ==
  /\ Charts(ch, d, WaitingTo(f, lps, n))
  /\ B \in [Nat -> Floors] /\ B[0] = Bare /\ d[Count(ch)] = B[n]
  /\ \A i \in 1 .. n : Waits(ch, d, f, lps, B, i)
  /\ \A p \in points : Reached(ch, d, p)
Charted(ch, f, lps, n, points) == \E d, B : ChartedBy(ch, f, lps, n, points, d, B)

(* What a chart reads of a frame.                                          *)
SameFrame(f, lps, g, mps, i) ==
  /\ g[i].kind = f[i].kind /\ g[i].at = f[i].at /\ g[i].start = f[i].start
  /\ HolesOf(g, mps, i) = HolesOf(f, lps, i)
  /\ g[i].locals = f[i].locals

LEMMA FloorType ==
  ASSUME NEW x \in Floors
  PROVE  /\ x \in Shapes /\ x.depth \in Nat /\ x.locals \in SUBSET Symbols /\ Distinct(x.locals)
         /\ x.array = None /\ Clear(x.locals, x.depth)
         /\ x = Shape(x.depth, x.locals, None) /\ Above(x.depth, x.locals, 0, None) = x
<1>1. x \in Shapes /\ x.array = None /\ Clear(x.locals, x.depth)
  BY DEF Floors
<1>2. x.depth \in Nat /\ x.locals \in SUBSET Symbols /\ Distinct(x.locals)
      /\ x = Shape(x.depth, x.locals, None)
  BY <1>1, ShapesAre
<1>3. x.depth + 0 = x.depth
  BY <1>2
<1> QED
  BY <1>1, <1>2, <1>3 DEF Above

LEMMA BareFloor == Bare \in Floors /\ Bare.depth = 0 /\ Bare.locals = {}
<1>1. Bare.depth = 0 /\ Bare.locals = {} /\ Bare.array = None
  BY ShapeParts DEF Bare
<1>2. {} \in SUBSET Symbols /\ Distinct({}) /\ Clear({}, 0)
  BY DEF Distinct, Clear
<1>3. Bare \in Shapes
  BY <1>2, NoneType, ShapeType DEF Bare
<1> QED
  BY <1>1, <1>2, <1>3 DEF Floors

LEMMA OverNothing ==
  ASSUME NEW x \in Floors
  PROVE  Over(x, <<>>) = x
<1>1. x.depth \in Nat /\ x = Shape(x.depth, x.locals, None)
  BY FloorType
<1>2. x.depth + Len(<<>>) = x.depth
  BY <1>1
<1>3. ToSet(<<>>) = {}
  BY DEF ToSet
<1>4. (x.locals \cup IF Tracked THEN ToSet(<<>>) ELSE {}) = x.locals
  BY <1>3
<1> QED
  BY <1>1, <1>2, <1>4 DEF Over

LEMMA RaisedIs ==
  ASSUME NEW x \in Floors
  PROVE  /\ Raised(x) \in Shapes /\ Raised(x).depth = x.depth + 1 /\ Raised(x).locals = x.locals
         /\ Raised(x).array = None /\ Under(x, Raised(x))
<1>1. x.depth \in Nat /\ x.locals \in SUBSET Symbols /\ Distinct(x.locals) /\ x.array = None
  BY FloorType
<1>2. PICK y : y = Raised(x)
  OBVIOUS
<1>3. y.depth = x.depth + 1 /\ y.locals = x.locals /\ y.array = None
  BY <1>2, ShapeParts DEF Raised, Above
<1>4. x.depth + 1 \in Nat
  BY <1>1
<1>5. y \in Shapes
  BY <1>1, <1>2, <1>4, NoneType, ShapeType DEF Raised, Above
<1>6. Under(x, y)
  BY <1>1, <1>3 DEF Under
<1> QED
  BY <1>2, <1>3, <1>5, <1>6

LEMMA HoleKept ==
  ASSUME NEW ch, NEW d, NEW W, Charts(ch, d, W), NEW to, NEW dd, Prolongs(ch, to, d, dd),
         NEW h \in Nat, Hole(ch, h)
  PROVE  Hole(to, h) /\ dd[h - 1] = d[h - 1]
<1>1. h - 1 \in Ops(ch) /\ OpAt(ch, h - 1) \in {"OP_JIF", "OP_JMP"}
  BY DEF Hole
<1>2. h - 1 \in Ops(to) /\ OpAt(to, h - 1) = OpAt(ch, h - 1)
  BY <1>1 DEF Prolongs, Kept
<1>3. h - 1 \in 0 .. Count(ch)
  BY <1>1, ChunkType DEF Ops, Charts
<1>4. dd[h - 1] = d[h - 1]
  BY <1>3 DEF Prolongs
<1> QED
  BY <1>1, <1>2, <1>4 DEF Hole

LEMMA WaitsKept ==
  ASSUME NEW ch, NEW d, NEW W, Charts(ch, d, W), NEW to, NEW dd, Prolongs(ch, to, d, dd),
         NEW f, NEW lps, NEW g, NEW mps, NEW i, SameFrame(f, lps, g, mps, i),
         NEW B, NEW BB, BB[i] = B[i], BB[i - 1] = B[i - 1],
         Waits(ch, d, f, lps, B, i)
  PROVE  Waits(to, dd, g, mps, BB, i)
<1>1. ASSUME NEW h \in HolesOf(g, mps, i)
      PROVE  h \in Nat /\ Hole(to, h) /\ Under(BB[i - 1], dd[h - 1])
  <2>1. h \in Nat /\ Hole(ch, h) /\ Under(B[i - 1], d[h - 1])
    BY DEF Waits, SameFrame
  <2>2. Hole(to, h) /\ dd[h - 1] = d[h - 1]
    BY <2>1, HoleKept
  <2> QED
    BY <2>1, <2>2
<1>2. ASSUME g[i].kind = "then"
      PROVE  Under(Raised(BB[i - 1]), dd[g[i].at - 1])
  <2>1. f[i].kind = "then" /\ g[i].at = f[i].at
    BY <1>2 DEF SameFrame
  <2>2. Under(Raised(B[i - 1]), d[f[i].at - 1])
    BY <2>1 DEF Waits
  <2>3. f[i].at \in HolesOf(f, lps, i)
    BY <2>1 DEF HolesOf, Branches
  <2>4. f[i].at \in Nat /\ Hole(ch, f[i].at)
    BY <2>3 DEF Waits
  <2>5. dd[f[i].at - 1] = d[f[i].at - 1]
    BY <2>4, HoleKept
  <2> QED
    BY <2>1, <2>2, <2>5
<1>3. ASSUME g[i].kind = "body"
      PROVE  g[i].start \in Ops(to) /\ Under(dd[g[i].start], BB[i - 1])
  <2>1. f[i].kind = "body" /\ g[i].start = f[i].start
    BY <1>3 DEF SameFrame
  <2>2. f[i].start \in Ops(ch) /\ Under(d[f[i].start], B[i - 1])
    BY <2>1 DEF Waits
  <2>3. f[i].start \in Ops(to)
    BY <2>2 DEF Prolongs, Kept
  <2>4. f[i].start \in 0 .. Count(ch)
    BY <2>2, ChunkType DEF Ops, Charts
  <2>5. dd[f[i].start] = d[f[i].start]
    BY <2>4 DEF Prolongs
  <2> QED
    BY <2>1, <2>2, <2>3, <2>5
<1>4. BB[i] = Over(BB[i - 1], g[i].locals) /\ (g[i].kind \in Branches => g[i].locals = <<>>)
  BY DEF Waits, SameFrame
<1> QED
  BY <1>1, <1>2, <1>3, <1>4 DEF Waits

LEMMA ReachedKept ==
  ASSUME NEW ch, NEW d, NEW W, Charts(ch, d, W), NEW to, NEW dd, Prolongs(ch, to, d, dd),
         NEW X, Charts(to, dd, X), NEW p, Reached(ch, d, p)
  PROVE  Reached(to, dd, p)
<1>1. PICK c, n, o : c = Count(ch) /\ n = Count(to) /\ o = p[1]
  OBVIOUS
<1>2. c \in Nat /\ n \in Nat /\ c <= n
  BY <1>1, ChunkType DEF Charts, Prolongs
<1>3. o \in 0 .. c /\ p[2] \in Nat /\ p[2] <= d[o].depth
  BY <1>1 DEF Reached
<1>4. o \in 0 .. n /\ dd[o] = d[o]
  BY <1>1, <1>2, <1>3 DEF Prolongs
<1> QED
  BY <1>1, <1>3, <1>4 DEF Reached

(* The chart after a statement has begun or ended: the frames up to m are  *)
(* left alone.                                                             *)
Redrawn(ch, f, lps, d, B, m, to, g, mps, r, dd, BB) ==
  /\ BB \in [Nat -> Floors]
  /\ Charts(to, dd, WaitingTo(g, mps, r)) /\ Prolongs(ch, to, d, dd)
  /\ dd[Count(to)] = BB[r]
  /\ \A i \in 0 .. m : BB[i] = B[i]
  /\ \A i \in 1 .. m : SameFrame(f, lps, g, mps, i)
  /\ \A i \in m + 1 .. r : Waits(to, dd, g, mps, BB, i)

LEMMA ChartedNext ==
  ASSUME NEW ch, NEW f, NEW lps, NEW n \in Nat, NEW points, NEW d, NEW B,
         ChartedBy(ch, f, lps, n, points, d, B),
         NEW m \in 0 .. n, NEW r \in Nat,
         NEW to, NEW g, NEW mps, NEW dd, NEW BB,
         Redrawn(ch, f, lps, d, B, m, to, g, mps, r, dd, BB),
         NEW more, \A p \in more : p \in points \/ Reached(ch, d, p)
  PROVE  Charted(to, g, mps, r, more)
<1>0. /\ BB \in [Nat -> Floors]
      /\ Charts(to, dd, WaitingTo(g, mps, r)) /\ Prolongs(ch, to, d, dd)
      /\ dd[Count(to)] = BB[r]
      /\ \A i \in 0 .. m : BB[i] = B[i]
      /\ \A i \in 1 .. m : SameFrame(f, lps, g, mps, i)
      /\ \A i \in m + 1 .. r : Waits(to, dd, g, mps, BB, i)
  BY DEF Redrawn
<1>1. /\ Charts(ch, d, WaitingTo(f, lps, n)) /\ B[0] = Bare
      /\ \A i \in 1 .. n : Waits(ch, d, f, lps, B, i)
      /\ \A p \in points : Reached(ch, d, p)
  BY DEF ChartedBy
<1>2. BB[0] = Bare
  <2>1. 0 \in 0 .. m
    OBVIOUS
  <2> QED
    BY <1>0, <1>1, <2>1
<1>3. ASSUME NEW i \in 1 .. r
      PROVE  Waits(to, dd, g, mps, BB, i)
  <2>1. CASE i <= m
    <3>1. i \in 1 .. m /\ i \in 1 .. n /\ i \in 0 .. m /\ i - 1 \in 0 .. m
      BY <2>1
    <3>2. SameFrame(f, lps, g, mps, i) /\ BB[i] = B[i] /\ BB[i - 1] = B[i - 1]
          /\ Waits(ch, d, f, lps, B, i)
      BY <1>0, <1>1, <3>1
    <3> QED
      BY <1>0, <1>1, <3>2, WaitsKept
  <2>2. CASE i > m
    <3>1. i \in m + 1 .. r
      BY <2>2
    <3> QED
      BY <1>0, <3>1
  <2> QED
    BY <2>1, <2>2
<1>4. \A p \in more : Reached(to, dd, p)
  BY <1>0, <1>1, ReachedKept
<1>5. ChartedBy(to, g, mps, r, more, dd, BB)
  BY <1>0, <1>2, <1>3, <1>4 DEF ChartedBy
<1> QED
  BY <1>5 DEF Charted
-----------------------------------------------------------------------------
(* The frames of the script, and the locals alive in them.                 *)

(* The first k frames are those of the script.                             *)
Script(f, k) == /\ k \in 1 .. Len(f) /\ \A i \in 1 .. k : f[i].kind # "fn"
                /\ k < Len(f) => f[k + 1].kind = "fn" /\ f[k].kind \in Lists

LEMMA ScriptLevel ==
  ASSUME NEW f \in Seq(Frames), f # <<>>, NEW k, Script(f, k)
  PROVE  /\ \A n \in 0 .. k : Level(f, n) = 0
         /\ \A n \in k + 1 .. Len(f) : Level(f, n) >= 1
         /\ Level(f, Len(f)) = 0 <=> k = Len(f)
<1>1. PICK m : m = Len(f)
  OBVIOUS
<1>2. m \in Nat /\ k \in 1 .. m /\ (\A i \in 1 .. k : f[i].kind # "fn")
      /\ (k < m => f[k + 1].kind = "fn")
  BY <1>1 DEF Script
<1>3. \A n \in 0 .. k : Level(f, n) = 0
  <2>1. ASSUME NEW n \in 0 .. k
        PROVE  Level(f, n) = 0
    <3>1. n \in Nat /\ 0 \in 0 .. n /\ 0 \in Nat /\ \A i \in 0 + 1 .. n : f[i].kind # "fn"
      BY <1>2
    <3>2. CountOf(f, "fn", 0) = CountOf(f, "fn", n)
      BY <3>1, CountNone
    <3> QED
      BY <3>1, <3>2, CountType DEF Level
  <2> QED
    BY <2>1
<1>4. \A n \in k + 1 .. m : Level(f, n) >= 1
  <2>1. ASSUME NEW n \in k + 1 .. m
        PROVE  Level(f, n) >= 1
    <3>1. k + 1 \in Nat \ {0} /\ n \in Nat /\ k + 1 \in 0 .. n /\ k < m /\ k + 1 - 1 = k
      BY <1>2
    <3>2. CountOf(f, "fn", k + 1) = CountOf(f, "fn", k) + 1
      BY <1>2, <3>1, CountStep
    <3>3. CountOf(f, "fn", k) = 0
      BY <1>2, <1>3 DEF Level
    <3>4. CountOf(f, "fn", k + 1) <= CountOf(f, "fn", n)
      BY <3>1, CountUp
    <3>5. CountOf(f, "fn", n) \in Nat
      BY <3>1, CountType
    <3> QED
      BY <3>2, <3>3, <3>4, <3>5 DEF Level
  <2> QED
    BY <2>1
<1>5. Level(f, m) = 0 <=> k = m
  <2>1. CASE k = m
    BY <1>2, <1>3, <2>1
  <2>2. CASE k < m
    <3>1. m \in k + 1 .. m
      BY <1>2, <2>2
    <3>2. Level(f, m) >= 1
      BY <1>4, <3>1
    <3> QED
      BY <2>2, <3>2, <1>2
  <2> QED
    BY <1>2, <2>1, <2>2
<1> QED
  BY <1>1, <1>3, <1>4, <1>5

(* The function that ends is declared in the script, or in another one.    *)
LEMMA ScriptBelow ==
  ASSUME NEW f \in Seq(Frames), f # <<>>, NEW k, Script(f, k), f[Len(f)].kind = "fn"
  PROVE  k < Len(f) /\ (Level(f, Len(f)) = 1 <=> k = Len(f) - 1)
<1>1. PICK m : m = Len(f)
  OBVIOUS
<1>2. m \in Nat \ {0} /\ m \in Nat /\ m - 1 \in Nat /\ k \in 1 .. m /\ k # m
  BY <1>1 DEF Script
<1>3. Level(f, m) = Level(f, m - 1) + 1
  BY <1>1, <1>2, CountStep DEF Level
<1>4. CASE k = m - 1
  <2>1. Level(f, m - 1) = 0
    BY <1>2, <1>4, ScriptLevel
  <2> QED
    BY <1>1, <1>2, <1>3, <1>4, <2>1
<1>5. CASE k < m - 1
  <2>1. m - 1 \in k + 1 .. m
    BY <1>2, <1>5
  <2>2. Level(f, m - 1) >= 1 /\ Level(f, m - 1) \in Nat
    BY <1>1, <1>2, <2>1, ScriptLevel, CountType DEF Level
  <2>3. Level(f, m) # 1
    BY <1>3, <2>2
  <2> QED
    BY <1>1, <1>2, <1>5, <2>3
<1> QED
  BY <1>2, <1>4, <1>5

(* Every local is one cell; where the names of locals differ, they are as  *)
(* many as the cells.                                                      *)
LEMMA ElementsOf ==
  ASSUME NEW S, NEW s \in Seq(S)
  PROVE  IsFiniteSet(ToSet(s)) /\ Cardinality(ToSet(s)) <= Len(s) /\ Cardinality(ToSet(s)) \in Nat
<1>1. PICK D, T, n : D = 1 .. n /\ n = Len(s) /\ T = ToSet(s)
  OBVIOUS
<1>2. n \in Nat /\ DOMAIN s = D
  BY <1>1
<1>3. IsFiniteSet(D) /\ Cardinality(D) = n
  <2>1. 1 \in Int /\ n \in Int
    BY <1>2
  <2>2. IsFiniteSet(1 .. n) /\ Cardinality(1 .. n) = IF 1 > n THEN 0 ELSE n - 1 + 1
    BY <2>1, FS_Interval
  <2>3. n = IF 1 > n THEN 0 ELSE n - 1 + 1
    BY <1>2
  <2> QED
    BY <1>1, <2>2, <2>3
<1>4. s \in Surjection(D, T)
  <2>1. T = {s[i] : i \in D}
    BY <1>1, <1>2 DEF ToSet
  <2>2. s \in [D -> T]
    BY <1>2, <2>1
  <2> QED
    BY <2>1, <2>2 DEF Surjection
<1>5. IsFiniteSet(T) /\ Cardinality(T) <= n
  BY <1>3, <1>4, FS_Surjection
<1>6. Cardinality(T) \in Nat
  BY <1>5, FS_CardinalityType
<1> QED
  BY <1>1, <1>5, <1>6

Alive(f, n) == UNION {ToSet(f[i].locals) : i \in 1 .. n}

(* What the charts of a script say of its locals.                          *)
Standing(f, n, B) == /\ B \in [Nat -> Floors] /\ B[0] = Bare
                     /\ \A i \in 1 .. n : B[i] = Over(B[i - 1], f[i].locals)

LEMMA AliveNext ==
  ASSUME NEW f, NEW i \in Nat \ {0}
  PROVE  Alive(f, i) = Alive(f, i - 1) \cup ToSet(f[i].locals)
<1>1. PICK A, T : A = Alive(f, i - 1) /\ T = ToSet(f[i].locals)
  OBVIOUS
<1>2. 1 .. i = (1 .. i - 1) \cup {i}
  <2>1. \A j \in 1 .. i : j \in 1 .. i - 1 \/ j = i
    OBVIOUS
  <2>2. \A j \in 1 .. i - 1 : j \in 1 .. i
    OBVIOUS
  <2>3. i \in 1 .. i
    OBVIOUS
  <2> QED
    BY <2>1, <2>2, <2>3, Zenon
<1>3. PICK K, D : K = 1 .. i - 1 /\ D = 1 .. i
  OBVIOUS
<1>4. D = K \cup {i}
  BY <1>2, <1>3
<1>5. /\ A = UNION {ToSet(f[j].locals) : j \in K} /\ T = ToSet(f[i].locals)
      /\ Alive(f, i) = UNION {ToSet(f[j].locals) : j \in D}
  BY <1>1, <1>3 DEF Alive
<1> QED
  BY <1>1, <1>4, <1>5

LEMMA OverAll ==
  ASSUME NEW f, NEW n \in Nat, NEW B, Standing(f, n, B)
  PROVE  Tracked => B[n].locals = Alive(f, n)
<1> DEFINE good == {i \in 0 .. n : Tracked => B[i].locals = Alive(f, i)}
<1>1. 0 \in good
  <2>1. Alive(f, 0) = {}
    BY DEF Alive
  <2> QED
    BY <2>1, BareFloor DEF Standing
<1>2. ASSUME NEW i \in 1 .. n, i - 1 \in good
      PROVE  i \in good
  <2>1. i \in 0 .. n /\ i \in Nat \ {0}
    OBVIOUS
  <2>2. B[i] = Over(B[i - 1], f[i].locals)
    BY DEF Standing
  <2>3. B[i].locals = (B[i - 1].locals \cup IF Tracked THEN ToSet(f[i].locals) ELSE {})
    BY <2>2, ShapeParts DEF Over
  <2>4. Alive(f, i) = Alive(f, i - 1) \cup ToSet(f[i].locals)
    BY <2>1, AliveNext
  <2>5. Tracked => B[i - 1].locals = Alive(f, i - 1)
    BY <1>2
  <2> QED
    BY <2>1, <2>3, <2>4, <2>5
<1> HIDE DEF good
<1>3. \A i \in 0 .. n : i \in good
  BY <1>1, <1>2, Upward
<1>4. n \in good
  BY <1>3
<1> QED
  BY <1>4 DEF good

LEMMA AliveFit ==
  ASSUME NEW f \in Seq(Frames), NEW n \in 0 .. Len(f), NEW B, Standing(f, n, B)
  PROVE  Cardinality(Alive(f, n)) \in Nat /\ Cardinality(Alive(f, n)) <= B[n].depth
<1>1. PICK m : m = Len(f)
  OBVIOUS
<1>2. m \in Nat /\ n \in Nat /\ n <= m /\ \A i \in 1 .. m : f[i].locals \in Seq(Symbols)
  <2>1. \A i \in 1 .. m : f[i] \in Frames
    BY <1>1
  <2>2. \A frame \in Frames : frame.locals \in Seq(Symbols)
    BY DEF Frames
  <2> QED
    BY <1>1, <2>1, <2>2
<1> DEFINE good == {i \in 0 .. n : /\ IsFiniteSet(Alive(f, i))
                                   /\ Cardinality(Alive(f, i)) \in Nat
                                   /\ Cardinality(Alive(f, i)) <= B[i].depth}
<1>3. 0 \in good
  <2>1. Alive(f, 0) = {}
    BY DEF Alive
  <2>2. IsFiniteSet(Alive(f, 0)) /\ Cardinality(Alive(f, 0)) = 0
    BY <2>1, FS_EmptySet
  <2> QED
    BY <1>2, <2>2, BareFloor DEF Standing
<1>4. ASSUME NEW i \in 1 .. n, i - 1 \in good
      PROVE  i \in good
  <2>1. i \in 0 .. n /\ i \in 1 .. m /\ i \in Nat /\ i - 1 \in Nat
    BY <1>2
  <2>2. PICK A, T, s : A = Alive(f, i - 1) /\ T = ToSet(s) /\ s = f[i].locals
    OBVIOUS
  <2>3. Alive(f, i) = A \cup T
    BY <2>1, <2>2, AliveNext
  <2>4. IsFiniteSet(A) /\ Cardinality(A) \in Nat /\ Cardinality(A) <= B[i - 1].depth
    BY <1>4, <2>2
  <2>5. IsFiniteSet(T) /\ Cardinality(T) \in Nat /\ Cardinality(T) <= Len(s) /\ Len(s) \in Nat
    <3>1. s \in Seq(Symbols)
      BY <1>2, <2>1, <2>2
    <3>2. Len(s) \in Nat
      BY <3>1
    <3> QED
      BY <2>2, <3>1, <3>2, ElementsOf
  <2>6. /\ IsFiniteSet(A \cup T)
        /\ Cardinality(A \cup T) = Cardinality(A) + Cardinality(T) - Cardinality(A \cap T)
    BY <2>4, <2>5, FS_Union
  <2>7. Cardinality(A \cap T) \in Nat
    <3>1. A \cap T \in SUBSET A
      OBVIOUS
    <3>2. IsFiniteSet(A \cap T)
      BY <2>4, <3>1, FS_Subset
    <3> QED
      BY <3>2, FS_CardinalityType
  <2>8. Cardinality(A \cup T) \in Nat
    BY <2>6, FS_CardinalityType
  <2>9. B[i].depth = B[i - 1].depth + Len(s) /\ B[i - 1].depth \in Nat
    <3>1. B[i] = Over(B[i - 1], s) /\ B[i - 1] \in Floors
      BY <2>1, <2>2 DEF Standing
    <3> QED
      BY <3>1, FloorType, ShapeParts DEF Over
  <2>10. Cardinality(A \cup T) <= B[i].depth
    BY <2>4, <2>5, <2>6, <2>7, <2>9
  <2> QED
    BY <2>1, <2>3, <2>6, <2>8, <2>10
<1> HIDE DEF good
<1>5. \A i \in 0 .. n : i \in good
  BY <1>2, <1>3, <1>4, Upward
<1> QED
  BY <1>2, <1>5 DEF good

LEMMA ScriptLocals ==
  ASSUME NEW f \in Seq(Frames), f # <<>>, f[1].kind = "script",
         \A i \in 2 .. Len(f) : f[i].kind # "script", Script(f, Len(f))
  PROVE  LocalsOf(f) = Alive(f, Len(f))
<1>1. PICK c \in 1 .. Len(f) : OwnFrom(f, OwnOf(f), c)
  BY OwnIs
<1>2. PICK own, m : own = OwnOf(f) /\ m = Len(f)
  OBVIOUS
<1>3. /\ m \in Nat /\ own \in Seq(Frames) /\ Len(own) = m - c + 1
      /\ \A j \in 1 .. m - c + 1 : own[j] = f[c + j - 1]
      /\ f[c].kind \in {"script", "fn"}
  BY <1>1, <1>2 DEF OwnFrom
<1>4. c = 1
  <2>1. f[c].kind # "fn"
    BY DEF Script
  <2>2. c \notin 2 .. m
    BY <1>2, <1>3, <2>1
  <2> QED
    BY <1>2, <2>2
<1>5. Len(own) = m /\ \A j \in 1 .. m : own[j] = f[j]
  BY <1>3, <1>4
<1>6. DOMAIN own = 1 .. m
  BY <1>3, <1>5
<1> QED
  BY <1>2, <1>5, <1>6 DEF LocalsOf, Alive

(* The cells that a statement finds cover the locals alive.                *)
LEMMA HereReached ==
  ASSUME NEW f \in Seq(Frames), f # <<>>, f[1].kind = "script",
         \A i \in 2 .. Len(f) : f[i].kind # "script", Script(f, Len(f)),
         NEW ch, NEW lps, NEW points, NEW d, NEW B,
         ChartedBy(ch, f, lps, Len(f), points, d, B)
  PROVE  Reached(ch, d, <<Count(ch), Cardinality(LocalsOf(f))>>)
<1>1. PICK m, size : m = Len(f) /\ size = Cardinality(LocalsOf(f))
  OBVIOUS
<1>2. Standing(f, m, B) /\ d[Count(ch)] = B[m]
  BY <1>1 DEF ChartedBy, Waits, Standing
<1>4. m \in Nat /\ m \in 0 .. m
  BY <1>1
<1>5. Cardinality(Alive(f, m)) \in Nat /\ Cardinality(Alive(f, m)) <= B[m].depth
  BY <1>1, <1>2, <1>4, AliveFit
<1>6. size = Cardinality(Alive(f, m))
  BY <1>1, ScriptLocals
<1>7. Count(ch) \in Nat
  BY ChunkType DEF ChartedBy, Charts
<1>8. PICK p : p = <<Count(ch), size>>
  OBVIOUS
<1>9. p[1] = Count(ch) /\ p[2] = size /\ d[p[1]] = B[m]
  BY <1>2, <1>8
<1>10. p[2] \in Nat /\ p[2] <= d[p[1]].depth
  BY <1>5, <1>6, <1>9
<1>11. p[1] \in 0 .. Count(ch)
  BY <1>7, <1>9
<1>12. Reached(ch, d, p)
  BY <1>10, <1>11 DEF Reached
<1> QED
  BY <1>1, <1>8, <1>12

(* The floor at which the next statement of the script is compiled.        *)
LEMMA HereGround ==
  ASSUME open \in Seq(Frames), open # <<>>, open[1].kind = "script",
         \A i \in 2 .. Len(open) : open[i].kind # "script", Script(open, Len(open)),
         NEW ch, NEW lps, NEW points, NEW d, NEW B, NEW n, n = Len(open),
         ChartedBy(ch, open, lps, n, points, d, B)
  PROVE  /\ Ground(B[n].depth, B[n].locals) /\ B[n] \in Floors /\ d[Count(ch)] = B[n]
         /\ Above(B[n].depth, B[n].locals, 0, None) = B[n]
         /\ Above(B[n].depth, B[n].locals, 1, None) = Raised(B[n])
<1>1. n \in Nat /\ Standing(open, n, B) /\ d[Count(ch)] = B[n]
  BY DEF ChartedBy, Waits, Standing
<1>2. B[n] \in Floors
  BY <1>1 DEF Standing
<1>3. Tracked => B[n].locals = Visible
  <2>1. LocalsOf(open) = Alive(open, n)
    BY ScriptLocals
  <2> QED
    BY <1>1, <2>1, OverAll DEF Visible
<1>4. Ground(B[n].depth, B[n].locals)
  BY <1>2, <1>3, FloorType DEF Ground
<1> QED
  BY <1>1, <1>2, <1>4, FloorType DEF Raised
-----------------------------------------------------------------------------
(* The points of a flow.                                                   *)

IsFlow(f) == \E points, edges, ends, ifs, whiles :
                f = [points |-> points, edges |-> edges, ends |-> ends, ifs |-> ifs, whiles |-> whiles]
Leading(f, g, more) == IsFlow(g) /\ g.points = f.points \cup more

LEMMA SetPoints ==
  ASSUME NEW f, IsFlow(f), NEW v
  PROVE  IsFlow([f EXCEPT !.points = v]) /\ [f EXCEPT !.points = v].points = v
<1>1. PICK points, edges, ends, ifs, whiles :
        f = [points |-> points, edges |-> edges, ends |-> ends, ifs |-> ifs, whiles |-> whiles]
  BY DEF IsFlow
<1>2. [f EXCEPT !.points = v] = [points |-> v, edges |-> edges, ends |-> ends,
                                 ifs |-> ifs, whiles |-> whiles]
  BY <1>1
<1> QED
  BY <1>2 DEF IsFlow

LEMMA FlowParts ==
  ASSUME NEW f, IsFlow(f)
  PROVE  \A v : /\ IsFlow([f EXCEPT !.edges = v]) /\ [f EXCEPT !.edges = v].points = f.points
               /\ IsFlow([f EXCEPT !.ends = v]) /\ [f EXCEPT !.ends = v].points = f.points
               /\ IsFlow([f EXCEPT !.ifs = v]) /\ [f EXCEPT !.ifs = v].points = f.points
               /\ IsFlow([f EXCEPT !.whiles = v]) /\ [f EXCEPT !.whiles = v].points = f.points
<1>1. PICK points, edges, ends, ifs, whiles :
        f = [points |-> points, edges |-> edges, ends |-> ends, ifs |-> ifs, whiles |-> whiles]
  BY DEF IsFlow
<1>2. \A a, b, c, e, g : /\ IsFlow([points |-> a, edges |-> b, ends |-> c, ifs |-> e, whiles |-> g])
                        /\ [points |-> a, edges |-> b, ends |-> c, ifs |-> e, whiles |-> g].points = a
  BY DEF IsFlow
<1>3. ASSUME NEW v
      PROVE  IsFlow([f EXCEPT !.edges = v]) /\ [f EXCEPT !.edges = v].points = f.points
  <2>1. [f EXCEPT !.edges = v] = [points |-> points, edges |-> v, ends |-> ends,
                                  ifs |-> ifs, whiles |-> whiles]
    BY <1>1
  <2> QED
    BY <1>1, <1>2, <2>1
<1>4. ASSUME NEW v
      PROVE  IsFlow([f EXCEPT !.ends = v]) /\ [f EXCEPT !.ends = v].points = f.points
  <2>1. [f EXCEPT !.ends = v] = [points |-> points, edges |-> edges, ends |-> v,
                                 ifs |-> ifs, whiles |-> whiles]
    BY <1>1
  <2> QED
    BY <1>1, <1>2, <2>1
<1>5. ASSUME NEW v
      PROVE  IsFlow([f EXCEPT !.ifs = v]) /\ [f EXCEPT !.ifs = v].points = f.points
  <2>1. [f EXCEPT !.ifs = v] = [points |-> points, edges |-> edges, ends |-> ends,
                                ifs |-> v, whiles |-> whiles]
    BY <1>1
  <2> QED
    BY <1>1, <1>2, <2>1
<1>6. ASSUME NEW v
      PROVE  IsFlow([f EXCEPT !.whiles = v]) /\ [f EXCEPT !.whiles = v].points = f.points
  <2>1. [f EXCEPT !.whiles = v] = [points |-> points, edges |-> edges, ends |-> ends,
                                   ifs |-> ifs, whiles |-> v]
    BY <1>1
  <2> QED
    BY <1>1, <1>2, <2>1
<1> QED
  BY <1>3, <1>4, <1>5, <1>6

LEMMA PointAdds ==
  ASSUME NEW f, IsFlow(f), NEW p
  PROVE  Leading(f, Point(f, p), {p})
<1>1. \A e : IsFlow([f EXCEPT !.edges = e]) /\ [f EXCEPT !.edges = e].points = f.points
  BY FlowParts
<1>2. PICK g : g = Lead(f, f.ends, p)
  OBVIOUS
<1>3. IsFlow(g) /\ g.points = f.points
  BY <1>1, <1>2 DEF Lead
<1>4. PICK h : h = [g EXCEPT !.points = g.points \cup {p}]
  OBVIOUS
<1>5. IsFlow(h) /\ h.points = g.points \cup {p}
  <2>1. \A v : IsFlow([g EXCEPT !.points = v]) /\ [g EXCEPT !.points = v].points = v
    BY <1>3, SetPoints
  <2> QED
    BY <1>4, <2>1
<1>6. Point(f, p) = [h EXCEPT !.ends = Leaves(p)]
  BY <1>2, <1>4 DEF Point
<1>7. IsFlow([h EXCEPT !.ends = Leaves(p)]) /\ [h EXCEPT !.ends = Leaves(p)].points = h.points
  BY <1>5, FlowParts
<1> QED
  BY <1>3, <1>5, <1>6, <1>7 DEF Leading

(* Setting fields of a flow other than the points.                         *)
LEMMA ThenEnds ==
  ASSUME NEW f, NEW g, NEW more, Leading(f, g, more), NEW v
  PROVE  /\ Leading(f, [g EXCEPT !.ends = v], more) /\ Leading(f, [g EXCEPT !.ifs = v], more)
         /\ Leading(f, [g EXCEPT !.whiles = v], more) /\ Leading(f, [g EXCEPT !.edges = v], more)
BY FlowParts DEF Leading

LEMMA LeadingTwice ==
  ASSUME NEW f, NEW g, NEW h, NEW P, NEW Q, Leading(f, g, P), Leading(g, h, Q)
  PROVE  Leading(f, h, P \cup Q)
BY DEF Leading

LEMMA LeadingItself ==
  ASSUME NEW f, IsFlow(f)
  PROVE  Leading(f, f, {})
BY DEF Leading

LEMMA IfPoints ==
  ASSUME NEW f, IsFlow(f), NEW p
  PROVE  /\ Leading(f, OpenIf(f, p), {p}) /\ Leading(f, ElseIf(f), {}) /\ Leading(f, CloseIf(f), {})
         /\ Leading(f, OpenWhile(f, p), {p}) /\ Leading(f, DeadEnd(f, p), {p})
<1>1. PICK g : g = Point(f, p)
  OBVIOUS
<1>2. Leading(f, g, {p}) /\ Leading(f, f, {})
  BY <1>1, PointAdds, LeadingItself
<1>3. \A v : Leading(f, [g EXCEPT !.ends = v], {p})
  BY <1>2, ThenEnds
<1>4. Leading(f, OpenIf(f, p), {p})
  <2>1. PICK h : h = [g EXCEPT !.ends = {Exit(p, "true")}]
    OBVIOUS
  <2>2. Leading(f, h, {p})
    BY <1>2, <2>1, ThenEnds
  <2>3. PICK out : out = [h EXCEPT !.ifs = Append(h.ifs, {Exit(p, "false")})]
    OBVIOUS
  <2>4. Leading(f, out, {p})
    BY <2>2, <2>3, ThenEnds
  <2>5. OpenIf(f, p) = out
    BY <1>1, <2>1, <2>3 DEF OpenIf
  <2> QED
    BY <2>4, <2>5
<1>5. Leading(f, OpenWhile(f, p), {p})
  <2>1. PICK h : h = [g EXCEPT !.ends = {Exit(p, "true")}]
    OBVIOUS
  <2>2. Leading(f, h, {p})
    BY <1>2, <2>1, ThenEnds
  <2>3. PICK out : out = [h EXCEPT !.whiles = Append(h.whiles, [cond |-> p, breaks |-> {}, skips |-> {}])]
    OBVIOUS
  <2>4. Leading(f, out, {p})
    BY <2>2, <2>3, ThenEnds
  <2>5. OpenWhile(f, p) = out
    BY <1>1, <2>1, <2>3 DEF OpenWhile
  <2> QED
    BY <2>4, <2>5
<1>6. Leading(f, DeadEnd(f, p), {p})
  BY <1>1, <1>3 DEF DeadEnd
<1>7. Leading(f, ElseIf(f), {})
  <2>1. PICK h : h = [f EXCEPT !.ends = Last(f.ifs)]
    OBVIOUS
  <2>2. Leading(f, h, {})
    BY <1>2, <2>1, ThenEnds
  <2>3. PICK out : out = [h EXCEPT !.ifs = Append(Front(h.ifs), f.ends)]
    OBVIOUS
  <2>4. Leading(f, out, {})
    BY <2>2, <2>3, ThenEnds
  <2>5. ElseIf(f) = out
    BY <2>1, <2>3 DEF ElseIf
  <2> QED
    BY <2>4, <2>5
<1>8. Leading(f, CloseIf(f), {})
  <2>1. PICK h : h = [f EXCEPT !.ends = f.ends \cup Last(f.ifs)]
    OBVIOUS
  <2>2. Leading(f, h, {})
    BY <1>2, <2>1, ThenEnds
  <2>3. PICK out : out = [h EXCEPT !.ifs = Front(h.ifs)]
    OBVIOUS
  <2>4. Leading(f, out, {})
    BY <2>2, <2>3, ThenEnds
  <2>5. CloseIf(f) = out
    BY <2>1, <2>3 DEF CloseIf
  <2> QED
    BY <2>4, <2>5
<1> QED
  BY <1>4, <1>5, <1>6, <1>7, <1>8

LEMMA JumpPoints ==
  ASSUME NEW f, IsFlow(f), NEW p
  PROVE  Leading(f, BreakOut(f, p), {p}) /\ Leading(f, SkipOn(f, p), {p})
<1>1. PICK g : g = DeadEnd(f, p)
  OBVIOUS
<1>2. Leading(f, g, {p})
  BY <1>1, IfPoints
<1>3. PICK n : n = Len(f.whiles)
  OBVIOUS
<1>4. PICK v : v = [g.whiles EXCEPT ![n].breaks = @ \cup Leaves(p)]
  OBVIOUS
<1>5. Leading(f, BreakOut(f, p), {p})
  <2>1. PICK out : out = [g EXCEPT !.whiles = v]
    OBVIOUS
  <2>2. Leading(f, out, {p})
    BY <1>2, <2>1, ThenEnds
  <2>3. BreakOut(f, p) = out
    BY <1>1, <1>3, <1>4, <2>1 DEF BreakOut
  <2> QED
    BY <2>2, <2>3
<1>6. PICK w : w = [g.whiles EXCEPT ![n].skips = @ \cup Leaves(p)]
  OBVIOUS
<1>7. Leading(f, SkipOn(f, p), {p})
  <2>1. PICK out : out = [g EXCEPT !.whiles = w]
    OBVIOUS
  <2>2. Leading(f, out, {p})
    BY <1>2, <2>1, ThenEnds
  <2>3. SkipOn(f, p) = out
    BY <1>1, <1>3, <1>6, <2>1 DEF SkipOn
  <2> QED
    BY <2>2, <2>3
<1> QED
  BY <1>5, <1>7

LEMMA ClosePoints ==
  ASSUME NEW f, IsFlow(f), NEW p, NEW increments \in {{}, {p}}
  PROVE  Leading(f, CloseWhile(f, increments), increments)
<1>1. PICK loop, back : loop = Last(f.whiles) /\ back = [f EXCEPT !.ends = @ \cup loop.skips]
  OBVIOUS
<1>2. Leading(f, back, {})
  BY <1>1, LeadingItself, ThenEnds
<1>3. IsFlow(back)
  BY <1>2 DEF Leading
<1>4. PICK turn : turn = IF increments = {} THEN back ELSE Point(back, CHOOSE q \in increments : TRUE)
  OBVIOUS
<1>5. Leading(f, turn, increments)
  <2>1. CASE increments = {}
    BY <1>2, <1>4, <2>1
  <2>2. CASE increments = {p}
    <3>1. (CHOOSE q \in increments : TRUE) = p
      BY <2>2
    <3>2. turn = Point(back, p)
      BY <1>4, <2>2, <3>1
    <3>3. Leading(back, turn, {p})
      BY <1>3, <3>2, PointAdds
    <3>4. {} \cup {p} = {p}
      OBVIOUS
    <3>5. Leading(f, turn, {} \cup {p})
      BY <1>2, <3>3, LeadingTwice
    <3> QED
      BY <2>2, <3>4, <3>5
  <2> QED
    BY <2>1, <2>2
<1>6. PICK led : led = Lead(turn, turn.ends, loop.cond)
  OBVIOUS
<1>7. Leading(f, led, increments)
  BY <1>5, <1>6, ThenEnds DEF Lead
<1>8. PICK last : last = [led EXCEPT !.ends = {Exit(loop.cond, "false")} \cup loop.breaks]
  OBVIOUS
<1>9. Leading(f, last, increments)
  BY <1>7, <1>8, ThenEnds
<1>10. PICK out : out = [last EXCEPT !.whiles = Front(last.whiles)]
  OBVIOUS
<1>11. Leading(f, out, increments)
  BY <1>9, <1>10, ThenEnds
<1>12. CloseWhile(f, increments) = out
  BY <1>1, <1>4, <1>6, <1>8, <1>10 DEF CloseWhile
<1> QED
  BY <1>11, <1>12
-----------------------------------------------------------------------------
(* How statements that begin and end change the chart.                     *)

LEMMA WaitingParts ==
  ASSUME NEW f, NEW lps, NEW n \in Nat
  PROVE  /\ WaitingTo(f, lps, 0) = {}
         /\ WaitingTo(f, lps, n + 1) = WaitingTo(f, lps, n) \cup HolesOf(f, lps, n + 1)
<1>1. WaitingTo(f, lps, 0) = {}
  BY DEF WaitingTo
<1>2. 1 .. n + 1 = (1 .. n) \cup {n + 1}
  <2>1. \A j \in 1 .. n + 1 : j \in 1 .. n \/ j = n + 1
    OBVIOUS
  <2>2. \A j \in 1 .. n : j \in 1 .. n + 1
    OBVIOUS
  <2>3. n + 1 \in 1 .. n + 1
    OBVIOUS
  <2> QED
    BY <2>1, <2>2, <2>3, Zenon
<1> QED
  BY <1>1, <1>2 DEF WaitingTo

LEMMA WaitingLast ==
  ASSUME NEW f, NEW lps, NEW n \in Nat \ {0}
  PROVE  WaitingTo(f, lps, n) = WaitingTo(f, lps, n - 1) \cup HolesOf(f, lps, n)
<1>1. PICK m \in Nat : m = n - 1
  OBVIOUS
<1>2. m + 1 = n
  BY <1>1
<1>3. WaitingTo(f, lps, m + 1) = WaitingTo(f, lps, m) \cup HolesOf(f, lps, m + 1)
  BY WaitingParts
<1> QED
  BY <1>1, <1>2, <1>3

LEMMA WaitingSame ==
  ASSUME NEW f, NEW lps, NEW g, NEW mps, NEW n \in Nat,
         \A i \in 1 .. n : SameFrame(f, lps, g, mps, i)
  PROVE  WaitingTo(g, mps, n) = WaitingTo(f, lps, n)
BY DEF WaitingTo, SameFrame

LEMMA WaitingType ==
  ASSUME NEW ch, NEW f, NEW lps, NEW n \in Nat, NEW points, NEW d, NEW B,
         ChartedBy(ch, f, lps, n, points, d, B), NEW m \in 0 .. n
  PROVE  /\ WaitingTo(f, lps, m) \in SUBSET Nat
         /\ \A i \in 1 .. n : HolesOf(f, lps, i) \in SUBSET Nat
         /\ ch \in Chunks /\ Whole(ch) /\ d \in [Nat -> Shapes] /\ Count(ch) \in Nat
<1>1. \A i \in 1 .. n : HolesOf(f, lps, i) \in SUBSET Nat
  BY DEF ChartedBy, Waits
<1>2. \A i \in 1 .. m : i \in 1 .. n
  OBVIOUS
<1>3. WaitingTo(f, lps, m) \in SUBSET Nat
  BY <1>1, <1>2 DEF WaitingTo
<1> QED
  BY <1>1, <1>3, ChunkType DEF ChartedBy, Charts

(* A statement without frame.                                              *)
LEMMA ChartPlain ==
  ASSUME NEW ch, NEW f, NEW lps, NEW n \in Nat, NEW points, NEW d, NEW B,
         ChartedBy(ch, f, lps, n, points, d, B),
         NEW to, Moves(ch, to, B[n], B[n]), NEW g, NEW mps,
         \A i \in 1 .. n : SameFrame(f, lps, g, mps, i),
         NEW more, \A p \in more : p \in points \/ Reached(ch, d, p)
  PROVE  Charted(to, g, mps, n, more)
<1>1. /\ Charts(ch, d, WaitingTo(f, lps, n)) /\ B \in [Nat -> Floors] /\ d[Count(ch)] = B[n]
  BY DEF ChartedBy
<1>2. PICK W : W = WaitingTo(f, lps, n)
  OBVIOUS
<1>3. n \in 0 .. n
  OBVIOUS
<1>4. W \in SUBSET Nat
  BY <1>2, <1>3, WaitingType
<1>5. PICK dd : Charts(to, dd, W) /\ Prolongs(ch, to, d, dd) /\ dd[Count(to)] = B[n]
  BY <1>1, <1>2, <1>4 DEF Moves
<1>6. W = WaitingTo(g, mps, n)
  BY <1>2, WaitingSame
<1>9. Charts(to, dd, WaitingTo(g, mps, n))
  BY <1>5, <1>6
<1>10. \A i \in n + 1 .. n : Waits(to, dd, g, mps, B, i)
  OBVIOUS
<1>11. Redrawn(ch, f, lps, d, B, n, to, g, mps, n, dd, B)
  BY <1>1, <1>5, <1>9, <1>10 DEF Redrawn
<1> QED
  BY <1>3, <1>11, ChartedNext

(* A declaration leaves a local more in the list that it stands in.        *)
LEMMA ChartDeclare ==
  ASSUME NEW ch, NEW f, NEW lps, NEW n \in Nat \ {0}, NEW points, NEW d, NEW B,
         ChartedBy(ch, f, lps, n, points, d, B),
         NEW to, NEW y \in Floors, Moves(ch, to, B[n], y), NEW g, NEW mps,
         \A i \in 1 .. n - 1 : SameFrame(f, lps, g, mps, i),
         f[n].kind \in Lists, g[n].kind = f[n].kind,
         y = Over(B[n - 1], g[n].locals),
         NEW more, \A p \in more : p \in points \/ Reached(ch, d, p)
  PROVE  Charted(to, g, mps, n, more)
<1>0. /\ Charts(ch, d, WaitingTo(f, lps, n)) /\ B \in [Nat -> Floors] /\ d[Count(ch)] = B[n]
      /\ \A i \in 1 .. n : Waits(ch, d, f, lps, B, i)
  BY DEF ChartedBy
<1>a. n \in 1 .. n /\ n \in 0 .. n /\ n - 1 \in Nat /\ n - 1 \in 0 .. n /\ n - 1 + 1 = n
  OBVIOUS
<1>1. /\ Charts(ch, d, WaitingTo(f, lps, n)) /\ B \in [Nat -> Floors] /\ d[Count(ch)] = B[n]
      /\ n \in 1 .. n /\ n \in 0 .. n /\ n - 1 \in Nat /\ n - 1 \in 0 .. n /\ n - 1 + 1 = n
      /\ \A i \in 1 .. n : Waits(ch, d, f, lps, B, i)
  BY <1>0, <1>a
<1>2. PICK W : W = WaitingTo(f, lps, n)
  OBVIOUS
<1>3. W \in SUBSET Nat
  BY <1>1, <1>2, WaitingType
<1>4. PICK dd : Charts(to, dd, W) /\ Prolongs(ch, to, d, dd) /\ dd[Count(to)] = y
  BY <1>1, <1>2, <1>3 DEF Moves
<1>5. /\ f[n].kind \notin Branches /\ g[n].kind \notin Branches
      /\ g[n].kind # "then" /\ g[n].kind # "body"
  BY DEF Lists, Branches
<1>6. HolesOf(f, lps, n) = {} /\ HolesOf(g, mps, n) = {}
  BY <1>5 DEF HolesOf, Branches
<1>7. WaitingTo(g, mps, n) = W
  <2>1. WaitingTo(f, lps, n) = WaitingTo(f, lps, n - 1) \cup HolesOf(f, lps, n)
    BY WaitingLast
  <2>2. WaitingTo(g, mps, n) = WaitingTo(g, mps, n - 1) \cup HolesOf(g, mps, n)
    BY WaitingLast
  <2>3. WaitingTo(g, mps, n - 1) = WaitingTo(f, lps, n - 1)
    BY <1>1, WaitingSame
  <2> QED
    BY <1>2, <1>6, <2>1, <2>2, <2>3
<1>8. PICK BB : BB = [B EXCEPT ![n] = y]
  OBVIOUS
<1>9. BB \in [Nat -> Floors] /\ BB[n] = y /\ \A i \in 0 .. n - 1 : BB[i] = B[i]
  <2>1. \A i \in 0 .. n - 1 : i \in Nat /\ i # n
    OBVIOUS
  <2> QED
    BY <1>1, <1>8, <2>1
<1>10. dd[Count(to)] = BB[n] /\ Charts(to, dd, WaitingTo(g, mps, n))
  BY <1>4, <1>7, <1>9
<1>11. Waits(to, dd, g, mps, BB, n)
  <2>1. n - 1 \in 0 .. n - 1
    BY <1>1
  <2>2. BB[n] = Over(BB[n - 1], g[n].locals)
    BY <1>9, <2>1
  <2> QED
    BY <1>5, <1>6, <2>2 DEF Waits
<1>12. \A i \in n - 1 + 1 .. n : Waits(to, dd, g, mps, BB, i)
  BY <1>1, <1>11
<1>13. Redrawn(ch, f, lps, d, B, n - 1, to, g, mps, n, dd, BB)
  BY <1>4, <1>9, <1>10, <1>12 DEF Redrawn
<1> QED
  BY <1>1, <1>13, ChartedNext

(* What a new frame asks of the chart.                                     *)
NewWaits(to, dd, g, mps, n, x) ==
  /\ g[n].locals = <<>>
  /\ \A h \in HolesOf(g, mps, n) : h \in Nat /\ Hole(to, h) /\ Under(x, dd[h - 1])
  /\ g[n].kind = "then" => Under(Raised(x), dd[g[n].at - 1])
  /\ g[n].kind = "body" => g[n].start \in Ops(to) /\ Under(dd[g[n].start], x)

LEMMA ChartPush ==
  ASSUME NEW ch, NEW f, NEW lps, NEW n \in Nat, NEW points, NEW d, NEW B,
         ChartedBy(ch, f, lps, n, points, d, B),
         NEW m \in 0 .. n, NEW to, NEW dd, NEW g, NEW mps,
         \A i \in 1 .. m : SameFrame(f, lps, g, mps, i),
         Charts(to, dd, WaitingTo(f, lps, m) \cup HolesOf(g, mps, m + 1)),
         Prolongs(ch, to, d, dd), dd[Count(to)] = B[m],
         NewWaits(to, dd, g, mps, m + 1, B[m]),
         NEW more, \A p \in more : p \in points \/ Reached(ch, d, p)
  PROVE  Charted(to, g, mps, m + 1, more)
<1>1. /\ B \in [Nat -> Floors] /\ m \in Nat /\ m + 1 \in Nat /\ m + 1 - 1 = m
  BY DEF ChartedBy
<1>2. WaitingTo(g, mps, m + 1) = WaitingTo(f, lps, m) \cup HolesOf(g, mps, m + 1)
  <2>1. WaitingTo(g, mps, m + 1) = WaitingTo(g, mps, m) \cup HolesOf(g, mps, m + 1)
    BY <1>1, WaitingParts
  <2>2. WaitingTo(g, mps, m) = WaitingTo(f, lps, m)
    BY <1>1, WaitingSame
  <2> QED
    BY <2>1, <2>2
<1>3. PICK BB : BB = [B EXCEPT ![m + 1] = B[m]]
  OBVIOUS
<1>4. BB \in [Nat -> Floors] /\ BB[m + 1] = B[m] /\ \A i \in 0 .. m : BB[i] = B[i]
  BY <1>1, <1>3
<1>5. Waits(to, dd, g, mps, BB, m + 1)
  <2>1. BB[m] = B[m] /\ B[m] \in Floors
    BY <1>1, <1>4
  <2>2. BB[m + 1] = Over(BB[m], <<>>)
    BY <1>4, <2>1, OverNothing
  <2>3. PICK k : k = m + 1
    OBVIOUS
  <2>4. NewWaits(to, dd, g, mps, k, BB[m]) /\ BB[k] = Over(BB[m], <<>>) /\ BB[k - 1] = BB[m]
    BY <1>1, <2>1, <2>2, <2>3
  <2>5. Waits(to, dd, g, mps, BB, k)
    BY <2>4 DEF Waits, NewWaits
  <2> QED
    BY <2>3, <2>5
<1>6. \A i \in m + 1 .. m + 1 : Waits(to, dd, g, mps, BB, i)
  BY <1>1, <1>5
<1>7. dd[Count(to)] = BB[m + 1] /\ Charts(to, dd, WaitingTo(g, mps, m + 1))
  BY <1>2, <1>4
<1>8. Redrawn(ch, f, lps, d, B, m, to, g, mps, m + 1, dd, BB)
  BY <1>4, <1>6, <1>7 DEF Redrawn
<1> QED
  BY <1>1, <1>8, ChartedNext

LEMMA ChartPop ==
  ASSUME NEW ch, NEW f, NEW lps, NEW n \in Nat, NEW points, NEW d, NEW B,
         ChartedBy(ch, f, lps, n, points, d, B),
         NEW m \in 0 .. n, NEW to, NEW dd, NEW g, NEW mps,
         \A i \in 1 .. m : SameFrame(f, lps, g, mps, i),
         Charts(to, dd, WaitingTo(f, lps, m)),
         Prolongs(ch, to, d, dd), dd[Count(to)] = B[m],
         NEW more, \A p \in more : p \in points \/ Reached(ch, d, p)
  PROVE  Charted(to, g, mps, m, more)
<1>1. B \in [Nat -> Floors] /\ m \in Nat
  BY DEF ChartedBy
<1>2. WaitingTo(g, mps, m) = WaitingTo(f, lps, m)
  BY <1>1, WaitingSame
<1>3. \A i \in m + 1 .. m : Waits(to, dd, g, mps, B, i)
  BY <1>1
<1>4. Charts(to, dd, WaitingTo(g, mps, m))
  BY <1>2
<1>5. Redrawn(ch, f, lps, d, B, m, to, g, mps, m, dd, B)
  BY <1>1, <1>3, <1>4 DEF Redrawn
<1> QED
  BY <1>1, <1>5, ChartedNext

(* The frame that ends: what the chart says of it.                         *)
LastChart(ch, f, lps, n, d, B) ==
  /\ B[n - 1] \in Floors /\ n - 1 \in Nat /\ n - 1 \in 0 .. n
  /\ WaitingTo(f, lps, n) = WaitingTo(f, lps, n - 1) \cup HolesOf(f, lps, n)
  /\ Waits(ch, d, f, lps, B, n)
  /\ d[Count(ch)] = Over(B[n - 1], f[n].locals)
  /\ f[n].kind \in Branches => d[Count(ch)] = B[n - 1]

LEMMA LastWaits ==
  ASSUME NEW ch, NEW f, NEW lps, NEW n \in Nat \ {0}, NEW points, NEW d, NEW B,
         ChartedBy(ch, f, lps, n, points, d, B)
  PROVE  LastChart(ch, f, lps, n, d, B)
<1>1. /\ B \in [Nat -> Floors] /\ d[Count(ch)] = B[n]
      /\ \A i \in 1 .. n : Waits(ch, d, f, lps, B, i)
      /\ n \in 1 .. n /\ n - 1 \in Nat /\ n - 1 \in 0 .. n /\ n - 1 + 1 = n
  BY DEF ChartedBy
<1>2. B[n - 1] \in Floors
  BY <1>1
<1>3. Waits(ch, d, f, lps, B, n)
  BY <1>1
<1>4. B[n] = Over(B[n - 1], f[n].locals) /\ (f[n].kind \in Branches => f[n].locals = <<>>)
  BY <1>3 DEF Waits
<1>5. f[n].kind \in Branches => d[Count(ch)] = B[n - 1]
  BY <1>1, <1>2, <1>4, OverNothing
<1>6. WaitingTo(f, lps, n) = WaitingTo(f, lps, n - 1) \cup HolesOf(f, lps, n)
  BY WaitingLast
<1> QED
  BY <1>1, <1>2, <1>3, <1>4, <1>5, <1>6 DEF LastChart
-----------------------------------------------------------------------------
(* The frames that a statement leaves alone.                               *)

FrameLike(a, b) == /\ b.kind = a.kind /\ b.at = a.at /\ b.start = a.start
                   /\ b.base = a.base /\ b.size = a.size /\ b.locals = a.locals
SamePart(f, g, m) == \A i \in 1 .. m : FrameLike(f[i], g[i])

LEMMA SameFrames ==
  ASSUME NEW f, NEW lps, NEW g, NEW mps, NEW m \in Nat, SamePart(f, g, m),
         SameLoops(lps, mps, LoopOf(f, m))
  PROVE  /\ \A i \in 1 .. m : SameFrame(f, lps, g, mps, i)
         /\ LoopOf(g, m) = LoopOf(f, m)
<1>1. ASSUME NEW i \in 1 .. m
      PROVE  /\ g[i].kind = f[i].kind /\ g[i].at = f[i].at /\ g[i].start = f[i].start
             /\ g[i].locals = f[i].locals
  BY DEF SamePart, FrameLike
<1>2. ASSUME NEW i \in 1 .. m
      PROVE  SameFrame(f, lps, g, mps, i)
  <2>1. i \in Nat /\ \A j \in 1 .. i : j \in 1 .. m
    OBVIOUS
  <2>2. \A j \in 1 .. i : g[j].kind = f[j].kind
    BY <1>1, <2>1
  <2>3. LoopOf(g, i) = LoopOf(f, i)
    BY <2>1, <2>2, CountAgrees DEF LoopOf
  <2>4. f[i].kind = "body" => mps[LoopOf(f, i)] = lps[LoopOf(f, i)]
    BY LoopIs DEF SameLoops
  <2>5. HolesOf(g, mps, i) = HolesOf(f, lps, i)
    BY <1>1, <2>3, <2>4 DEF HolesOf
  <2> QED
    BY <1>1, <2>5 DEF SameFrame
<1>3. LoopOf(g, m) = LoopOf(f, m)
  BY <1>1, CountAgrees DEF LoopOf
<1> QED
  BY <1>2, <1>3

LEMMA LikeItself ==
  ASSUME NEW f, NEW m
  PROVE  SamePart(f, f, m) /\ \A lps, n : SameLoops(lps, lps, n)
BY DEF SamePart, FrameLike, SameLoops

LEMMA LikeTwice ==
  ASSUME NEW f, NEW g, NEW h, NEW m \in Nat, NEW n \in 0 .. m,
         SamePart(f, g, m), SamePart(g, h, n)
  PROVE  SamePart(f, h, n) /\ SamePart(f, g, n)
<1>1. \A i \in 1 .. n : i \in 1 .. m
  OBVIOUS
<1> QED
  BY <1>1 DEF SamePart, FrameLike

LEMMA CompletedPart ==
  ASSUME NEW f \in Seq(Frames), f # <<>>, NEW statement \in Lasts,
         NEW g, g = Completed(f, statement)
  PROVE  g \in Seq(Frames) /\ Len(g) = Len(f) /\ g # <<>> /\ SamePart(f, g, Len(f))
<1>1. PICK n : n = Len(f)
  OBVIOUS
<1>2. n \in Nat \ {0} /\ DOMAIN f = 1 .. n /\ \A i \in 1 .. n : f[i] \in Frames
  BY <1>1, FrameOf
<1>3. PICK frame : frame = [f[n] EXCEPT !.last = statement]
  OBVIOUS
<1>4. frame \in Frames /\ FrameLike(f[n], frame)
  <2>1. PICK old : old = f[n]
    OBVIOUS
  <2>2. old \in Frames
    BY <1>2, <2>1
  <2>3. frame = [old EXCEPT !.last = statement]
    BY <1>3, <2>1
  <2>4. /\ frame \in Frames /\ frame.kind = old.kind /\ frame.at = old.at
        /\ frame.start = old.start /\ frame.base = old.base /\ frame.size = old.size
        /\ frame.locals = old.locals
    BY <2>2, <2>3 DEF Frames, Lasts
  <2> QED
    BY <2>1, <2>4 DEF FrameLike
<1>5. g = [f EXCEPT ![n] = frame]
  BY <1>1, <1>3 DEF Completed
<1>6. g \in Seq(Frames) /\ Len(g) = n
      /\ \A i \in 1 .. n : g[i] = IF i = n THEN frame ELSE f[i]
  BY <1>1, <1>2, <1>4, <1>5, ExceptSeq
<1>7. g # <<>>
  <2>1. Len(g) # 0
    BY <1>2, <1>6
  <2> QED
    BY <2>1
<1>8. SamePart(f, g, n)
  <2>1. \A i \in 1 .. n : FrameLike(f[i], f[i])
    BY DEF FrameLike
  <2> QED
    BY <1>4, <1>6, <2>1 DEF SamePart
<1> QED
  BY <1>1, <1>6, <1>7, <1>8

(* A declaration: the list that it stands in has a local more, unless it   *)
(* is the script.                                                          *)
MoreLocals(a, b) ==
  /\ b.kind = a.kind /\ b.base = a.base /\ b.size = a.size /\ a.locals \in Seq(Symbols)
  /\ NewSymbol(a) \in Symbols
  /\ b.locals = IF a.kind = "script" THEN a.locals ELSE Append(a.locals, NewSymbol(a))

LEMMA DeclaredPart ==
  ASSUME NEW f \in Seq(Frames), f # <<>>, symbols \in Nat, NEW g, g = Declared(f)
  PROVE  /\ g \in Seq(Frames) /\ Len(g) = Len(f) /\ g # <<>>
         /\ SamePart(f, g, Len(f) - 1) /\ MoreLocals(f[Len(f)], g[Len(f)])
<1>1. PICK n, done : n = Len(f) /\ done = Completed(f, "declaration")
  OBVIOUS
<1>2. n \in Nat \ {0} /\ DOMAIN f = 1 .. n /\ (\A i \in 1 .. n : f[i] \in Frames)
      /\ n \in 1 .. n /\ n - 1 \in 0 .. n
  BY <1>1, FrameOf
<1>3. done \in Seq(Frames) /\ Len(done) = n /\ SamePart(f, done, n)
  BY <1>1, CompletedPart DEF Lasts
<1>4. FrameLike(f[n], done[n]) /\ done[n] \in Frames
  <2>1. \A i \in 1 .. n : done[i] \in Frames
    BY <1>3
  <2> QED
    BY <1>2, <1>3, <2>1 DEF SamePart
<1>5. f[n].locals \in Seq(Symbols) /\ Len(f[n].locals) \in Nat /\ f[n].base \in Nat
  <2>1. f[n].locals \in Seq(Symbols) /\ f[n].base \in Nat
    BY <1>2 DEF Frames
  <2> QED
    BY <2>1
<1>a. NewSymbol(f[n]) \in Symbols
  BY <1>5 DEF NewSymbol, Symbols
<1>6. SamePart(f, done, n - 1)
  BY <1>2, <1>3, LikeTwice, LikeItself
<1>7. g \in Seq(Frames) /\ Len(g) = n
  BY <1>1, DeclaredAlike DEF Alike
<1>8. g # <<>>
  <2>1. Len(g) # 0
    BY <1>2, <1>7
  <2> QED
    BY <2>1
<1>9. CASE f[n].kind = "script"
  <2>1. g = done
    BY <1>1, <1>9 DEF Declared
  <2>3. MoreLocals(f[n], g[n])
    BY <1>4, <1>5, <1>9, <1>a, <2>1 DEF MoreLocals, FrameLike
  <2> QED
    BY <1>1, <1>6, <1>7, <1>8, <2>1, <2>3
<1>10. CASE f[n].kind # "script"
  <2>1. PICK s : s = NewSymbol(f[n])
    OBVIOUS
  <2>2. s \in Symbols
    BY <1>a, <2>1
  <2>3. PICK frame : frame = [done[n] EXCEPT !.locals = Append(@, s)]
    OBVIOUS
  <2>4. PICK old : old = done[n]
    OBVIOUS
  <2>5. old \in Frames /\ old.locals \in Seq(Symbols) /\ frame = [old EXCEPT !.locals = Append(old.locals, s)]
    BY <1>4, <2>3, <2>4 DEF Frames
  <2>6. PICK longer : longer = Append(old.locals, s)
    OBVIOUS
  <2>7. longer \in Seq(Symbols) /\ Len(longer) = Len(old.locals) + 1
    BY <2>2, <2>5, <2>6, AppendProperties
  <2>8. /\ frame \in Frames /\ frame.kind = old.kind /\ frame.base = old.base
        /\ frame.size = old.size /\ frame.locals = longer
    BY <2>5, <2>6, <2>7 DEF Frames
  <2>9. g = [done EXCEPT ![n] = frame]
    BY <1>1, <1>10, <2>1, <2>3 DEF Declared
  <2>10. \A i \in 1 .. n : g[i] = IF i = n THEN frame ELSE done[i]
    BY <1>2, <1>3, <2>8, <2>9, ExceptSeq
  <2>11. \A i \in 1 .. n - 1 : i \in 1 .. n /\ i # n
    BY <1>2
  <2>12. SamePart(f, g, n - 1)
    BY <1>6, <2>10, <2>11 DEF SamePart
  <2>13. MoreLocals(f[n], g[n])
    <3>1. g[n] = frame
      BY <1>2, <2>10
    <3>2. /\ old.kind = f[n].kind /\ old.base = f[n].base /\ old.size = f[n].size
          /\ old.locals = f[n].locals
      BY <1>4, <2>4 DEF FrameLike
    <3>3. longer = Append(f[n].locals, NewSymbol(f[n]))
      BY <2>1, <2>6, <3>2
    <3> QED
      BY <1>5, <1>10, <1>a, <2>8, <3>1, <3>2, <3>3 DEF MoreLocals
  <2> QED
    BY <1>1, <1>7, <1>8, <2>12, <2>13
<1> QED
  BY <1>9, <1>10

LEMMA PushedPart ==
  ASSUME NEW f \in Seq(Frames), f # <<>>, NEW frame \in Frames, NEW g, g = Append(f, frame)
  PROVE  /\ g \in Seq(Frames) /\ g # <<>> /\ Len(g) = Len(f) + 1
         /\ SamePart(f, g, Len(f)) /\ g[Len(f) + 1] = frame
<1>1. /\ g \in Seq(Frames) /\ g # <<>> /\ Len(g) = Len(f) + 1
      /\ \A i \in 1 .. Len(f) : g[i] = f[i]
      /\ g[Len(f) + 1] = frame
  BY AppendProperties
<1> QED
  BY <1>1 DEF SamePart, FrameLike

LEMMA FrontPart ==
  ASSUME NEW f \in Seq(Frames), f # <<>>, f[1].kind = "script", f[Len(f)].kind # "script",
         NEW g, g = Front(f)
  PROVE  /\ g \in Seq(Frames) /\ g # <<>> /\ Len(g) = Len(f) - 1
         /\ Len(f) - 1 \in Nat \ {0} /\ SamePart(f, g, Len(f) - 1)
         /\ \A i \in 1 .. Len(f) - 1 : g[i] = f[i]
<1>1. PICK n, m : n = Len(f) /\ m = n - 1
  OBVIOUS
<1>2. n \in Nat \ {0} /\ n # 1
  BY <1>1, FrameOf
<1>3. m \in Nat \ {0} /\ m \in 0 .. n
  BY <1>1, <1>2
<1>4. g = SubSeq(f, 1, m)
  BY <1>1 DEF Front
<1>5. g \in Seq(Frames) /\ Len(g) = m /\ \A i \in 1 .. m : g[i] = f[i]
  BY <1>1, <1>3, <1>4, Shorter
<1>6. g # <<>>
  <2>1. Len(g) # 0
    BY <1>3, <1>5
  <2> QED
    BY <2>1
<1>7. SamePart(f, g, m)
  BY <1>5 DEF SamePart, FrameLike
<1> QED
  BY <1>1, <1>3, <1>5, <1>6, <1>7

(* A statement ends, and the list it stands in goes on.                    *)
LEMMA EndedPart ==
  ASSUME NEW f \in Seq(Frames), f # <<>>, f[1].kind = "script", f[Len(f)].kind # "script",
         NEW statement \in Lasts, NEW g, g = Completed(Front(f), statement)
  PROVE  /\ g \in Seq(Frames) /\ g # <<>> /\ Len(g) = Len(f) - 1
         /\ Len(f) - 1 \in Nat \ {0} /\ SamePart(f, g, Len(f) - 1)
<1>1. PICK h : h = Front(f)
  OBVIOUS
<1>2. /\ h \in Seq(Frames) /\ h # <<>> /\ Len(h) = Len(f) - 1
      /\ Len(f) - 1 \in Nat \ {0} /\ SamePart(f, h, Len(f) - 1)
  BY <1>1, FrontPart
<1>3. g \in Seq(Frames) /\ Len(g) = Len(h) /\ g # <<>> /\ SamePart(h, g, Len(h))
  BY <1>1, <1>2, CompletedPart
<1>4. SamePart(f, g, Len(f) - 1)
  BY <1>2, <1>3, LikeTwice
<1> QED
  BY <1>2, <1>3, <1>4
-----------------------------------------------------------------------------
(* While a function is compiled, the chunk of the script waits.            *)

ScriptCode == IF enclosing = <<>> THEN chunk ELSE enclosing[1]
Drawing == \E k : Script(open, k) /\ Charted(ScriptCode, open, loops, k, flow.points)

LEMMA ScriptWhole ==
  ASSUME NEW f \in Seq(Frames), Script(f, Len(f)), NEW g, NEW m \in 0 .. Len(f),
         SamePart(f, g, m), NEW r \in Nat \ {0}, Len(g) = r, m <= r,
         \A i \in m + 1 .. r : g[i].kind # "fn"
  PROVE  Script(g, r)
<1>1. \A i \in 1 .. m : i \in 1 .. Len(f)
  OBVIOUS
<1>2. \A i \in 1 .. m : g[i].kind # "fn"
  BY <1>1 DEF Script, SamePart, FrameLike
<1>3. \A i \in 1 .. r : i \in 1 .. m \/ i \in m + 1 .. r
  OBVIOUS
<1>4. r \in 1 .. r /\ ~(r < r)
  OBVIOUS
<1> QED
  BY <1>2, <1>3, <1>4 DEF Script

(* The frames of the script are those before, with a function above them.  *)
Undisturbed(f, lps, g, mps) ==
  \A k : Script(f, k) /\ k < Len(f) =>
           /\ SamePart(f, g, k) /\ k + 1 <= Len(g) /\ g[k + 1].kind = "fn"
           /\ SameLoops(lps, mps, LoopOf(f, k))

LEMMA UndisturbedBy ==
  ASSUME NEW f \in Seq(Frames), NEW g \in Seq(Frames), NEW lps, NEW mps,
         NEW m \in Nat, m <= Len(f), m <= Len(g), SamePart(f, g, m - 1), g[m].kind = f[m].kind,
         \A k : Script(f, k) /\ k < Len(f) => k < m /\ SameLoops(lps, mps, LoopOf(f, k))
  PROVE  Undisturbed(f, lps, g, mps)
<1>1. ASSUME NEW k, Script(f, k), k < Len(f)
      PROVE  /\ SamePart(f, g, k) /\ k + 1 <= Len(g) /\ g[k + 1].kind = "fn"
             /\ SameLoops(lps, mps, LoopOf(f, k))
  <2>1. k \in Nat /\ k < m /\ SameLoops(lps, mps, LoopOf(f, k)) /\ f[k + 1].kind = "fn"
    BY <1>1 DEF Script
  <2>2. Len(g) \in Nat
    OBVIOUS
  <2>3. k + 1 <= Len(g)
    BY <2>1, <2>2
  <2>4. \A i \in 1 .. k : i \in 1 .. m - 1
    BY <2>1
  <2>5. SamePart(f, g, k)
    BY <2>4 DEF SamePart
  <2>6. k + 1 = m \/ k + 1 \in 1 .. m - 1
    BY <2>1
  <2>7. g[k + 1].kind = f[k + 1].kind
    BY <2>6 DEF SamePart, FrameLike
  <2> QED
    BY <2>1, <2>3, <2>5, <2>7
<1> QED
  BY <1>1 DEF Undisturbed

(* Where the script stands.                                                *)
LEMMA WhereScript ==
  ASSUME Framed(enclosing, open), NEW k, Script(open, k)
  PROVE  /\ k \in Nat \ {0} /\ k <= Len(open)
         /\ enclosing = <<>> <=> k = Len(open)
         /\ open[Len(open)].kind = "fn" => (Len(enclosing) = 1 <=> k = Len(open) - 1)
<1>1. /\ open \in Seq(Frames) /\ open # <<>> /\ enclosing \in Seq(Chunks)
      /\ Len(enclosing) = Level(open, Len(open))
  BY DEF Framed
<1>2. Level(open, Len(open)) = 0 <=> k = Len(open)
  BY <1>1, ScriptLevel
<1>3. enclosing = <<>> <=> Len(enclosing) = 0
  BY <1>1
<1>4. k \in 1 .. Len(open) /\ Len(open) \in Nat
  BY <1>1 DEF Script
<1>5. open[Len(open)].kind = "fn" => (Level(open, Len(open)) = 1 <=> k = Len(open) - 1)
  BY <1>1, ScriptBelow
<1> QED
  BY <1>1, <1>2, <1>3, <1>4, <1>5

LEMMA InsideKeeps ==
  ASSUME Framed(enclosing, open), Drawing, enclosing # <<>>, enclosing' # <<>>,
         enclosing'[1] = enclosing[1], flow'.points = flow.points,
         Undisturbed(open, loops, open', loops'), Len(open') \in Nat
  PROVE  Drawing'
<1>1. PICK k : Script(open, k) /\ Charted(ScriptCode, open, loops, k, flow.points)
  BY DEF Drawing
<1>2. k \in Nat /\ k < Len(open)
  <2>1. Len(open) \in Nat
    BY DEF Framed
  <2>2. k \in Nat /\ k <= Len(open) /\ k # Len(open)
    BY <1>1, WhereScript
  <2> QED
    BY <2>1, <2>2
<1>3. PICK f, lps, g, mps, ch, points :
        /\ f = open /\ lps = loops /\ g = open' /\ mps = loops'
        /\ ch = enclosing[1] /\ points = flow.points
  OBVIOUS
<1>4. /\ SamePart(f, g, k) /\ k + 1 <= Len(g) /\ g[k + 1].kind = "fn"
      /\ SameLoops(lps, mps, LoopOf(f, k)) /\ Script(f, k)
  BY <1>1, <1>2, <1>3 DEF Undisturbed
<1>5. PICK d, B : ChartedBy(ch, f, lps, k, points, d, B)
  BY <1>1, <1>3 DEF Charted, ScriptCode
<1>6. \A i \in 1 .. k : SameFrame(f, lps, g, mps, i)
  BY <1>2, <1>4, SameFrames
<1>7. Charted(ch, g, mps, k, points)
  <2>1. /\ Charts(ch, d, WaitingTo(f, lps, k)) /\ d[Count(ch)] = B[k] /\ ch \in Chunks
    BY <1>5 DEF ChartedBy, Charts
  <2>2. Prolongs(ch, ch, d, d) /\ k \in 0 .. k
    BY <1>2, <2>1, ProlongsItself
  <2> QED
    BY <1>2, <1>5, <1>6, <2>1, <2>2, ChartPop
<1>8. Script(g, k)
  <2>1. k \in 1 .. Len(g)
    <3>1. k # 0
      BY <1>1 DEF Script
    <3> QED
      BY <1>2, <1>3, <1>4, <3>1
  <2>2. \A i \in 1 .. k : g[i].kind # "fn"
    BY <1>4 DEF Script, SamePart, FrameLike
  <2>3. g[k].kind \in Lists
    <3>1. f[k].kind \in Lists /\ k \in 1 .. k
      BY <1>2, <1>3, <1>4, <2>1 DEF Script
    <3> QED
      BY <1>4, <3>1 DEF SamePart, FrameLike
  <2> QED
    BY <1>4, <2>1, <2>2, <2>3 DEF Script
<1>9. ScriptCode' = ch /\ flow'.points = points
  BY <1>3 DEF ScriptCode
<1>10. Script(open', k) /\ Charted(ScriptCode', open', loops', k, flow'.points)
  BY <1>3, <1>7, <1>8, <1>9
<1> QED
  BY <1>10 DEF Drawing

(* The floor of a statement of the script, and the locals that it sees.    *)
Grounded(x) == /\ x \in Floors /\ Ground(x.depth, x.locals)
               /\ Above(x.depth, x.locals, 0, None) = x
               /\ Above(x.depth, x.locals, 1, None) = Raised(x)

(* The script is compiled: what the chart says of the statement to come.   *)
LEMMA ScriptHere ==
  ASSUME IInv, Drawing, enclosing = <<>>, phase = "compiling"
  PROVE  /\ Script(open, Len(open)) /\ chunk \in Chunks
         /\ open \in Seq(Frames) /\ open # <<>> /\ open[1].kind = "script"
         /\ \A i \in 2 .. Len(open) : open[i].kind # "script"
         /\ Len(open) \in Nat \ {0} /\ Looped(loops, open)
         /\ \E d, B : /\ ChartedBy(chunk, open, loops, Len(open), flow.points, d, B)
                      /\ Reached(chunk, d, Here)
                      /\ Grounded(B[Len(open)]) /\ d[Count(chunk)] = B[Len(open)]
<1>1. Typed /\ Framed(enclosing, open) /\ Looped(loops, open)
  BY DEF IInv, Typed
<1>2. /\ open \in Seq(Frames) /\ open # <<>> /\ open[1].kind = "script" /\ chunk \in Chunks
      /\ \A i \in 2 .. Len(open) : open[i].kind # "script"
  BY <1>1 DEF Framed, Typed
<1>3. PICK k : Script(open, k) /\ Charted(chunk, open, loops, k, flow.points)
  BY DEF Drawing, ScriptCode
<1>4. k = Len(open) /\ k \in Nat \ {0}
  BY <1>1, <1>3, WhereScript
<1>5. PICK d, B : ChartedBy(chunk, open, loops, k, flow.points, d, B)
  BY <1>3 DEF Charted
<1>6. Reached(chunk, d, <<Count(chunk), Cardinality(LocalsOf(open))>>)
  BY <1>2, <1>3, <1>4, <1>5, HereReached
<1>7. Reached(chunk, d, Here)
  BY <1>6 DEF Here, Visible
<1>8. Grounded(B[k]) /\ d[Count(chunk)] = B[k]
  BY <1>2, <1>3, <1>4, <1>5, HereGround DEF Grounded
<1> QED
  BY <1>1, <1>2, <1>3, <1>4, <1>5, <1>7, <1>8

LEMMA ScriptDrawn ==
  ASSUME NEW r, Script(open', r), enclosing' = <<>>, Charted(chunk', open', loops', r, flow'.points)
  PROVE  Drawing'
<1>1. ScriptCode' = chunk'
  BY DEF ScriptCode
<1> QED
  BY <1>1 DEF Drawing
-----------------------------------------------------------------------------
(* Where the resolver puts the locals of the script: the slots of a block  *)
(* begin where those of the blocks around it end.                          *)

Outer(f, i) == i \in 1 .. Len(f) /\ \A j \in 1 .. i : f[j].kind # "fn"
Full(f, i) == Len(f[i].locals) = f[i].size
Room(a) == a.kind = "script" \/ Len(a.locals) < a.size

(* C[i] slots are taken by the blocks up to the i-th frame.                *)
PlacedAt(f, C, ids, p, i) ==
  /\ C[i] = C[i - 1] + f[i].size /\ C[i] <= (i - 1) * p.locals
  /\ i = 1 \/ i <= p.depth
  /\ f[i].kind \in Lists => f[i].base = C[i - 1]
  /\ f[i].kind # "block" => f[i].size = 0
  /\ Len(f[i].locals) <= f[i].size /\ \A s \in ToSet(f[i].locals) : s.id < ids
  /\ Orderly /\ f[i].size > 0 => \A j \in 1 .. i - 1 : Full(f, j)
Placed(f, C, ids, p) ==
  /\ C \in [Nat -> Nat] /\ C[0] = 0
  /\ \A i : Outer(f, i) => PlacedAt(f, C, ids, p, i)
  /\ \A i : Outer(f, i) /\ i + 1 <= Len(f) /\ f[i + 1].kind = "fn" => Room(f[i])
Placing == \E C : Placed(open, C, symbols, profile)

(* The program is made of what one of the profiles says.                   *)
Chosen == \E p \in Profiles : /\ profile.depth = p.depth /\ profile.locals = p.locals
                              /\ profile.arrays = p.arrays

LEMMA LiteralsChosen ==
  ASSUME Chosen
  PROVE  LiteralsFit /\ (LocalsFit => (profile.depth - 1) * profile.locals <= ByteSize)
BY DEF Chosen, LiteralsFit, Arrayed, ArraysFit, LocalsFit

(* A symbol that takes the cell above a floor, under a name of its own.    *)
FitsOn(x, s) == /\ s \in Symbols
                /\ Tracked => s.slot = x.depth /\ s.slot < ByteSize /\ \A t \in x.locals : t.id # s.id

LEMMA FloorMore ==
  ASSUME NEW x \in Floors, NEW s, FitsOn(x, s), NEW y, y = Over(x, <<s>>)
  PROVE  /\ y \in Floors /\ y.depth = x.depth + 1
         /\ y.locals = (x.locals \cup IF Tracked THEN {s} ELSE {})
<1>1. /\ x.depth \in Nat /\ x.locals \in SUBSET Symbols /\ Distinct(x.locals)
      /\ Clear(x.locals, x.depth)
  BY FloorType
<1>2. PICK L : L = (x.locals \cup IF Tracked THEN {s} ELSE {})
  OBVIOUS
<1>3. y = Shape(x.depth + 1, L, None)
  <2>1. Len(<<s>>) = 1 /\ ToSet(<<s>>) = {s}
    BY DEF ToSet
  <2> QED
    BY <1>2, <2>1 DEF Over
<1>4. y.depth = x.depth + 1 /\ y.locals = L /\ y.array = None
  BY <1>3, ShapeParts
<1>5. L \in SUBSET Symbols
  BY <1>1, <1>2 DEF FitsOn
<1>6. ASSUME NEW t \in L
      PROVE  /\ t \in x.locals \/ (Tracked /\ t = s)
             /\ t \in x.locals => t.slot < x.depth /\ t.slot < ByteSize /\ t.slot \in Nat
  <2>1. t \in x.locals \/ (Tracked /\ t = s)
    BY <1>2
  <2>2. t \in Symbols
    BY <1>5
  <2> QED
    BY <1>1, <2>1, <2>2 DEF Clear, Distinct, Symbols
<1>7. \A t \in x.locals : t \in L
  BY <1>2
<1>8. Distinct(L)
  <2>1. \A t \in L : t.slot < ByteSize
    BY <1>6 DEF FitsOn
  <2>2. ASSUME NEW t \in L, NEW u \in L, t # u
        PROVE  t.slot # u.slot /\ t.id # u.id
    <3>1. CASE t \in x.locals /\ u \in x.locals
      BY <1>1, <2>2, <3>1 DEF Distinct
    <3>2. CASE t \in x.locals /\ u \notin x.locals
      <4>1. Tracked /\ u = s
        BY <1>6, <3>2
      <4>2. u.slot = x.depth /\ t.id # u.id /\ t.slot < x.depth /\ t.slot \in Nat
        BY <1>6, <3>2, <4>1 DEF FitsOn
      <4> QED
        BY <1>1, <4>2
    <3>3. CASE t \notin x.locals /\ u \in x.locals
      <4>1. Tracked /\ t = s
        BY <1>6, <3>3
      <4>2. t.slot = x.depth /\ u.id # t.id /\ u.slot < x.depth /\ u.slot \in Nat
        BY <1>6, <3>3, <4>1 DEF FitsOn
      <4> QED
        BY <1>1, <4>2
    <3>4. CASE t \notin x.locals /\ u \notin x.locals
      BY <1>6, <2>2, <3>4
    <3> QED
      BY <3>1, <3>2, <3>3, <3>4
  <2> QED
    BY <2>1, <2>2 DEF Distinct
<1>9. Clear(L, x.depth + 1)
  <2>1. ASSUME NEW t \in L
        PROVE  t.slot < x.depth + 1
    <3>1. CASE t \in x.locals
      BY <1>1, <1>6, <3>1
    <3>2. CASE t \notin x.locals
      <4>1. Tracked /\ t = s
        BY <1>6, <3>2
      <4>2. t.slot = x.depth
        BY <4>1 DEF FitsOn
      <4> QED
        BY <1>1, <4>2
    <3> QED
      BY <3>1, <3>2
  <2> QED
    BY <2>1 DEF Clear
<1>10. x.depth + 1 \in Nat
  BY <1>1
<1>11. y \in Shapes
  BY <1>3, <1>5, <1>8, <1>10, NoneType, ShapeType
<1> QED
  BY <1>2, <1>4, <1>9, <1>11 DEF Floors

LEMMA OverAppend ==
  ASSUME NEW x \in Floors, NEW l \in Seq(Symbols), NEW s \in Symbols
  PROVE  Over(x, Append(l, s)) = Over(Over(x, l), <<s>>)
<1>1. PICK m : m = Append(l, s)
  OBVIOUS
<1>2. Len(m) = Len(l) + 1 /\ Len(l) \in Nat /\ Len(<<s>>) = 1 /\ ToSet(<<s>>) = {s} /\ x.depth \in Nat
  <2>1. Len(m) = Len(l) + 1 /\ Len(l) \in Nat
    BY <1>1, AppendProperties
  <2>2. ToSet(<<s>>) = {s} /\ Len(<<s>>) = 1
    BY DEF ToSet
  <2> QED
    BY <2>1, <2>2, FloorType
<1>3. ToSet(m) = ToSet(l) \cup {s}
  <2>1. PICK k : k = Len(l)
    OBVIOUS
  <2>2. k \in Nat /\ DOMAIN l = 1 .. k /\ DOMAIN m = 1 .. k + 1 /\ m[k + 1] = s /\ \A i \in 1 .. k : m[i] = l[i]
    BY <1>1, <2>1, AppendProperties
  <2>3. \A i \in 1 .. k + 1 : i \in 1 .. k \/ i = k + 1
    BY <2>2
  <2>4. k + 1 \in 1 .. k + 1 /\ \A i \in 1 .. k : i \in 1 .. k + 1
    BY <2>2
  <2>5. PICK K, N : K = 1 .. k /\ N = 1 .. k + 1
    OBVIOUS
  <2>6. /\ DOMAIN l = K /\ DOMAIN m = N /\ m[k + 1] = s /\ k + 1 \in N
        /\ \A i \in K : m[i] = l[i] /\ i \in N
        /\ \A i \in N : i \in K \/ i = k + 1
    BY <2>2, <2>3, <2>4, <2>5
  <2>7. ToSet(m) = {m[i] : i \in N} /\ ToSet(l) = {l[i] : i \in K}
    BY <2>6 DEF ToSet
  <2> QED
    BY <2>6, <2>7
<1>4. PICK y : y = Over(x, l)
  OBVIOUS
<1>5. y.depth = x.depth + Len(l) /\ y.locals = (x.locals \cup IF Tracked THEN ToSet(l) ELSE {})
  BY <1>4, ShapeParts DEF Over
<1>6. (x.locals \cup IF Tracked THEN ToSet(m) ELSE {}) = (y.locals \cup IF Tracked THEN ToSet(<<s>>) ELSE {})
  BY <1>2, <1>3, <1>5
<1>7. x.depth + Len(m) = y.depth + Len(<<s>>)
  BY <1>2, <1>5
<1> QED
  BY <1>1, <1>4, <1>6, <1>7 DEF Over

(* A local that is declared now takes the cell on which its value lies.    *)
LEMMA FitsHere ==
  ASSUME NEW f \in Seq(Frames), f # <<>>, f[1].kind = "script", NEW C,
         Placed(f, C, symbols, profile), symbols \in Nat, profile \in Programs, Chosen,
         NEW n \in Nat \ {0}, Outer(f, n), f[n].kind # "script", Room(f[n]),
         NEW B, Standing(f, n, B)
  PROVE  FitsOn(B[n], NewSymbol(f[n]))
<1>1. PICK m, s, p : m = n - 1 /\ s = NewSymbol(f[n]) /\ p = profile
  OBVIOUS
<1>2. /\ \A i \in 1 .. n : Outer(f, i) /\ f[i] \in Frames
      /\ m \in Nat \ {0} /\ m \in Nat /\ n = m + 1 /\ n \in 1 .. n
  <2>1. n \in 1 .. Len(f) /\ n # 1
    BY DEF Outer
  <2>2. \A i \in 1 .. n : i \in 1 .. Len(f) /\ \A j \in 1 .. i : j \in 1 .. n
    BY <2>1
  <2> QED
    BY <1>1, <2>1, <2>2 DEF Outer
<1>3. ASSUME NEW i \in 1 .. n
      PROVE  /\ f[i].locals \in Seq(Symbols) /\ Len(f[i].locals) \in Nat
             /\ f[i].size \in Nat /\ f[i].base \in Nat
  <2>1. f[i] \in Frames
    BY <1>2
  <2>2. f[i].locals \in Seq(Symbols) /\ f[i].size \in Nat /\ f[i].base \in Nat
    BY <2>1 DEF Frames
  <2> QED
    BY <2>2
<1>4. C \in [Nat -> Nat] /\ C[0] = 0 /\ \A i \in 1 .. n : PlacedAt(f, C, symbols, p, i)
  BY <1>1, <1>2 DEF Placed
<1>5. PICK l : l = Len(f[n].locals)
  OBVIOUS
<1>6. /\ l \in Nat /\ l < f[n].size /\ f[n].size \in Nat /\ f[n].kind = "block" /\ C[m] \in Nat
      /\ C[n] = C[m] + f[n].size /\ f[n].base = C[m] /\ C[n] <= m * p.locals /\ n <= p.depth
      /\ Orderly => \A j \in 1 .. m : Full(f, j)
  <2>1. l \in Nat /\ f[n].size \in Nat /\ l < f[n].size
    BY <1>2, <1>3, <1>5 DEF Room
  <2>2. PlacedAt(f, C, symbols, p, n)
    BY <1>2, <1>4
  <2>3. f[n].size > 0 /\ f[n].size # 0
    BY <2>1
  <2>4. f[n].kind = "block" /\ "block" \in Lists
    BY <2>2, <2>3 DEF PlacedAt, Lists
  <2>5. n # 1 /\ C[m] \in Nat
    BY <1>2, <1>4
  <2> QED
    BY <1>1, <2>1, <2>2, <2>3, <2>4, <2>5 DEF PlacedAt
<1>7. s.id = symbols /\ s.slot = C[m] + l /\ s \in Symbols
  <2>1. s = [id |-> symbols, slot |-> C[m] + l]
    BY <1>1, <1>5, <1>6 DEF NewSymbol
  <2>2. C[m] + l \in Nat
    BY <1>6
  <2> QED
    BY <2>1, <2>2 DEF Symbols
<1>8. ASSUME Tracked
      PROVE  s.slot = B[n].depth /\ s.slot < ByteSize /\ \A t \in B[n].locals : t.id # s.id
  <2>1. \A j \in 1 .. m : Len(f[j].locals) = f[j].size
    BY <1>6, <1>8 DEF Tracked, Full
  <2>2. \A i \in 1 .. n : B[i].depth = B[i - 1].depth + Len(f[i].locals)
    <3>1. ASSUME NEW i \in 1 .. n
          PROVE  B[i].depth = B[i - 1].depth + Len(f[i].locals)
      <4>1. B[i] = Over(B[i - 1], f[i].locals)
        BY DEF Standing
      <4> QED
        BY <4>1, ShapeParts DEF Over
    <3> QED
      BY <3>1
  <2>3. B[m].depth = C[m]
    <3> DEFINE good == {i \in 0 .. m : B[i].depth = C[i]}
    <3>1. 0 \in good
      <4>1. B[0].depth = C[0] /\ 0 \in 0 .. m
        BY <1>2, <1>4, BareFloor DEF Standing
      <4> QED
        BY <4>1
    <3>2. ASSUME NEW i \in 1 .. m, i - 1 \in good
          PROVE  i \in good
      <4>1. i \in 1 .. n /\ i \in 0 .. m
        BY <1>2
      <4>2. C[i] = C[i - 1] + f[i].size
        BY <1>4, <4>1 DEF PlacedAt
      <4>3. B[i].depth = B[i - 1].depth + f[i].size
        BY <2>1, <2>2, <4>1
      <4>4. B[i - 1].depth = C[i - 1]
        BY <3>2
      <4> QED
        BY <4>1, <4>2, <4>3, <4>4
    <3> HIDE DEF good
    <3>3. \A i \in 0 .. m : i \in good
      BY <1>2, <3>1, <3>2, Upward
    <3>4. m \in good
      BY <1>2, <3>3
    <3> QED
      BY <3>4 DEF good
  <2>4. B[n].depth = C[m] + l
    BY <1>1, <1>2, <1>5, <2>2, <2>3
  <2>5. s.slot < ByteSize
    <3>1. (p.depth - 1) * p.locals <= ByteSize
      BY <1>1, <1>8, LiteralsChosen DEF Tracked
    <3>2. p.depth \in Nat /\ p.locals \in Nat
      BY <1>1 DEF Programs
    <3>3. PICK e : e = p.depth - 1
      OBVIOUS
    <3>4. e \in Nat /\ m <= e
      BY <1>2, <1>6, <3>2, <3>3
    <3>5. m * p.locals <= e * p.locals
      BY <1>2, <3>2, <3>4, TimesMore
    <3>6. m * p.locals \in Nat /\ e * p.locals \in Nat
      BY <1>2, <3>2, <3>4
    <3>7. C[m] + l < C[m] + f[n].size
      BY <1>6
    <3>8. ByteSize \in Nat
      BY CodegenAssumption
    <3>9. C[m] + l < C[n] /\ C[n] <= m * p.locals /\ C[m] + l \in Nat /\ C[n] \in Nat
      <4>1. C[n] = C[m] + f[n].size /\ C[n] <= m * p.locals
        BY <1>6
      <4>2. C[m] \in Nat /\ l \in Nat /\ f[n].size \in Nat
        BY <1>6
      <4> QED
        BY <3>7, <4>1, <4>2
    <3>10. e * p.locals <= ByteSize
      BY <3>1, <3>3
    <3> QED
      BY <1>7, <3>5, <3>6, <3>8, <3>9, <3>10
  <2>6. ASSUME NEW t \in B[n].locals
        PROVE  t.id # s.id
    <3>1. t \in Alive(f, n)
      BY <1>8, OverAll
    <3>2. PICK i \in 1 .. n : t \in ToSet(f[i].locals)
      BY <3>1 DEF Alive
    <3>3. t.id < symbols
      BY <1>4, <3>2 DEF PlacedAt
    <3> QED
      BY <1>7, <3>3
  <2> QED
    BY <1>7, <2>4, <2>5, <2>6
<1> QED
  BY <1>1, <1>7, <1>8 DEF FitsOn
-----------------------------------------------------------------------------
(* Statements without frame, and declarations.                             *)

LEMMA FewerLoops ==
  ASSUME NEW f, NEW lps, NEW mps, NEW m \in Nat, NEW k \in 0 .. m, SameLoops(lps, mps, LoopOf(f, m))
  PROVE  SameLoops(lps, mps, LoopOf(f, k))
<1>1. LoopOf(f, k) <= LoopOf(f, m) /\ LoopOf(f, k) \in Nat /\ LoopOf(f, m) \in Nat
  <2>1. k \in Nat
    OBVIOUS
  <2>2. CountOf(f, "body", k) \in Nat /\ CountOf(f, "body", m) \in Nat
    BY <2>1, CountType
  <2>3. CountOf(f, "body", k) <= CountOf(f, "body", m)
    BY CountUp
  <2> QED
    BY <2>2, <2>3 DEF LoopOf
<1> QED
  BY <1>1 DEF SameLoops

(* The points that a statement adds to the flow: its own, in the script.   *)
Pointed == /\ enclosing = <<>> => \A p \in flow'.points : p \in flow.points \/ p = Here
           /\ enclosing # <<>> => flow'.points = flow.points

LEMMA InsideSame ==
  ASSUME IInv, Drawing, Pointed, phase = "compiling", enclosing # <<>>,
         UNCHANGED <<enclosing, loops>>,
         open' \in Seq(Frames), Len(open') = Len(open), SamePart(open, open', Len(open) - 1),
         open'[Len(open)].kind = open[Len(open)].kind
  PROVE  Drawing'
<1>1. Framed(enclosing, open)
  BY DEF IInv, Typed
<1>2. open \in Seq(Frames) /\ open # <<>> /\ Len(open) \in Nat \ {0}
  BY <1>1, FrameOf DEF Framed
<1>3. flow'.points = flow.points /\ enclosing' # <<>> /\ enclosing'[1] = enclosing[1]
  BY DEF Pointed
<1>4. \A k : SameLoops(loops, loops', LoopOf(open, k))
  BY DEF SameLoops
<1>5. PICK n, g : n = Len(open) /\ g = open'
  OBVIOUS
<1>6. n \in Nat /\ n <= Len(open) /\ n <= Len(g) /\ g \in Seq(Frames)
      /\ SamePart(open, g, n - 1) /\ g[n].kind = open[n].kind
  BY <1>2, <1>5
<1>7. ASSUME NEW k, Script(open, k), k < Len(open)
      PROVE  k < n /\ SameLoops(loops, loops', LoopOf(open, k))
  BY <1>4, <1>5, <1>7
<1>8. Undisturbed(open, loops, g, loops')
  BY <1>2, <1>6, <1>7, UndisturbedBy
<1> QED
  BY <1>1, <1>2, <1>3, <1>5, <1>8, InsideKeeps

LEMMA InsidePush ==
  ASSUME IInv, Drawing, Pointed, phase = "compiling", enclosing # <<>>,
         enclosing' # <<>>, enclosing'[1] = enclosing[1],
         NEW frame \in Frames, open' = Append(open, frame),
         SameLoops(loops, loops', LoopOf(open, Len(open)))
  PROVE  Drawing'
<1>1. Framed(enclosing, open)
  BY DEF IInv, Typed
<1>2. open \in Seq(Frames) /\ open # <<>> /\ Len(open) \in Nat \ {0}
  BY <1>1, FrameOf DEF Framed
<1>3. flow'.points = flow.points
  BY DEF Pointed
<1>4. PICK n, g : n = Len(open) /\ g = open'
  OBVIOUS
<1>5. g \in Seq(Frames) /\ Len(g) = n + 1 /\ SamePart(open, g, n)
  BY <1>2, <1>4, PushedPart
<1>6. n \in Nat /\ n \in 1 .. n /\ n - 1 \in 0 .. n /\ n <= Len(open) /\ n <= Len(g) /\ Len(g) \in Nat
  BY <1>2, <1>4, <1>5
<1>7. SamePart(open, g, n - 1) /\ g[n].kind = open[n].kind
  BY <1>5, <1>6, LikeTwice, LikeItself DEF SamePart, FrameLike
<1>8. ASSUME NEW k, Script(open, k), k < Len(open)
      PROVE  k < n /\ SameLoops(loops, loops', LoopOf(open, k))
  <2>1. k \in 0 .. n /\ k < n
    BY <1>4, <1>6, <1>8 DEF Script
  <2> QED
    BY <1>4, <1>6, <2>1, FewerLoops
<1>9. Undisturbed(open, loops, g, loops')
  BY <1>2, <1>5, <1>6, <1>7, <1>8, UndisturbedBy
<1> QED
  BY <1>1, <1>3, <1>4, <1>6, <1>9, InsideKeeps

LEMMA InsidePop ==
  ASSUME IInv, Drawing, Pointed, phase = "compiling", enclosing # <<>>,
         UNCHANGED enclosing, Top.kind \notin {"script", "fn"},
         open' \in Seq(Frames), NEW m \in {Len(open) - 1, Len(open)}, Len(open') = m,
         SamePart(open, open', Len(open) - 1),
         m = Len(open) => open'[m].kind # "fn",
         SameLoops(loops, loops', LoopOf(open, Len(open) - 1))
  PROVE  Drawing'
<1>1. Framed(enclosing, open)
  BY DEF IInv, Typed
<1>2. open \in Seq(Frames) /\ open # <<>> /\ Len(open) \in Nat \ {0} /\ open[1].kind = "script"
  BY <1>1, FrameOf DEF Framed
<1>3. flow'.points = flow.points /\ enclosing' # <<>> /\ enclosing'[1] = enclosing[1]
  BY DEF Pointed
<1>4. PICK n, g : n = Len(open) - 1 /\ g = open'
  OBVIOUS
<1>5. n + 1 = Len(open) /\ n \in Nat /\ open[n + 1].kind # "fn" /\ open[n + 1].kind # "script"
  BY <1>2, <1>4 DEF Top
<1>6. n # 0
  BY <1>2, <1>5
<1>7. n \in 1 .. n /\ n - 1 \in 0 .. n /\ n <= Len(open) /\ n <= Len(g) /\ Len(g) \in Nat
  BY <1>4, <1>5, <1>6
<1>8. SamePart(open, g, n - 1) /\ g[n].kind = open[n].kind
  <2>1. SamePart(open, g, n)
    BY <1>4
  <2>2. SamePart(open, g, n - 1)
    <3>1. \A i \in 1 .. n - 1 : i \in 1 .. n
      BY <1>5
    <3> QED
      BY <2>1, <3>1 DEF SamePart
  <2> QED
    BY <1>7, <2>1, <2>2 DEF SamePart, FrameLike
<1>9. ASSUME NEW k, Script(open, k), k < Len(open)
      PROVE  k < n /\ SameLoops(loops, loops', LoopOf(open, k))
  <2>1. k \in Nat /\ k < n + 1 /\ open[k + 1].kind = "fn"
    BY <1>5, <1>9 DEF Script
  <2>2. k # n
    BY <1>5, <2>1
  <2>3. k \in 0 .. n /\ k < n
    BY <1>5, <2>1, <2>2
  <2> QED
    BY <1>4, <1>5, <2>3, FewerLoops
<1>10. Undisturbed(open, loops, g, loops')
  BY <1>2, <1>4, <1>5, <1>7, <1>8, <1>9, UndisturbedBy
<1> QED
  BY <1>1, <1>3, <1>4, <1>7, <1>10, InsideKeeps

LEMMA PlainDraws ==
  ASSUME IInv, Drawing, Pointed, phase = "compiling",
         \A x : Grounded(x) => Moves(chunk, chunk', x, x),
         NEW statement \in Lasts, Done(statement), UNCHANGED <<enclosing, loops>>
  PROVE  Drawing'
<1>1. Framed(enclosing, open)
  BY DEF IInv, Typed
<1>2. open \in Seq(Frames) /\ open # <<>> /\ Len(open) \in Nat \ {0}
  BY <1>1, FrameOf DEF Framed
<1>3. PICK n, g : n = Len(open) /\ g = open'
  OBVIOUS
<1>4. g \in Seq(Frames) /\ Len(g) = n /\ SamePart(open, g, n)
  BY <1>2, <1>3, CompletedPart DEF Done
<1>5. n \in Nat /\ n \in 1 .. n /\ n - 1 \in 0 .. n /\ n \in 0 .. n /\ n <= n
  BY <1>2, <1>3
<1>6. CASE enclosing # <<>>
  <2>1. SamePart(open, g, n - 1) /\ g[n].kind = open[n].kind
    BY <1>4, <1>5, LikeTwice, LikeItself DEF SamePart, FrameLike
  <2> QED
    BY <1>3, <1>4, <1>6, <2>1, InsideSame
<1>7. CASE enclosing = <<>>
  <2>1. Script(open, n)
    BY <1>3, <1>7, ScriptHere
  <2>2. PICK d, B : /\ ChartedBy(chunk, open, loops, n, flow.points, d, B)
                    /\ Reached(chunk, d, Here) /\ Grounded(B[n])
    BY <1>3, <1>7, ScriptHere
  <2>3. \A p \in flow'.points : p \in flow.points \/ Reached(chunk, d, p)
    BY <1>7, <2>2 DEF Pointed
  <2>4. \A i \in 1 .. n : SameFrame(open, loops, g, loops', i)
    BY <1>4, <1>5, SameFrames, LikeItself
  <2>a. Moves(chunk, chunk', B[n], B[n])
    BY <2>2
  <2>5. Charted(chunk', g, loops', n, flow'.points)
    BY <1>5, <2>2, <2>3, <2>4, <2>a, ChartPlain
  <2>6. \A i \in n + 1 .. n : g[i].kind # "fn"
    BY <1>5
  <2>7. Script(g, n)
    BY <1>2, <1>3, <1>4, <1>5, <2>1, <2>6, ScriptWhole
  <2> QED
    BY <1>3, <1>7, <2>5, <2>7, ScriptDrawn
<1> QED
  BY <1>6, <1>7

(* The floor after a declaration in the frame.                             *)
Declaring(x, frame) == IF frame.kind = "script" THEN x ELSE Over(x, <<NewSymbol(frame)>>)
Declarable(x, frame) == x \in Floors /\ (frame.kind # "script" => FitsOn(x, NewSymbol(frame)))

LEMMA DeclaredFloor ==
  ASSUME NEW f \in Seq(Frames), f # <<>>, f[1].kind = "script", NEW n \in Nat \ {0}, n \in 1 .. Len(f),
         NEW B, Standing(f, n, B), NEW frame, MoreLocals(f[n], frame),
         f[n].kind = "script" => f[n].locals = <<>>,
         f[n].kind # "script" => FitsOn(B[n], NewSymbol(f[n]))
  PROVE  /\ Declaring(B[n], f[n]) \in Floors
         /\ Declaring(B[n], f[n]) = Over(B[n - 1], frame.locals)
<1>1. B[n] \in Floors /\ B[n - 1] \in Floors /\ B[n] = Over(B[n - 1], f[n].locals)
  <2>1. n \in Nat /\ n - 1 \in Nat /\ n \in 1 .. n
    OBVIOUS
  <2> QED
    BY <2>1 DEF Standing
<1>2. CASE f[n].kind = "script"
  BY <1>1, <1>2 DEF Declaring, MoreLocals
<1>3. CASE f[n].kind # "script"
  <2>1. PICK s, y : s = NewSymbol(f[n]) /\ y = Over(B[n], <<s>>)
    OBVIOUS
  <2>2. /\ f[n].locals \in Seq(Symbols) /\ s \in Symbols
        /\ frame.locals = Append(f[n].locals, s)
    BY <1>3, <2>1 DEF MoreLocals
  <2>3. FitsOn(B[n], s)
    BY <1>3, <2>1
  <2>4. y \in Floors
    BY <1>1, <2>1, <2>3, FloorMore
  <2>5. y = Over(B[n - 1], frame.locals)
    BY <1>1, <2>1, <2>2, OverAppend
  <2> QED
    BY <1>3, <2>1, <2>4, <2>5 DEF Declaring
<1> QED
  BY <1>2, <1>3

LEMMA DeclareDraws ==
  ASSUME IInv, Placing, Chosen, Drawing, Pointed, phase = "compiling",
         Top.kind \in Lists, Room(Top),
         \A x : Grounded(x) /\ Declarable(x, Top) => Moves(chunk, chunk', x, Declaring(x, Top)),
         open' = Declared(open), UNCHANGED <<enclosing, loops>>
  PROVE  Drawing'
<1>1. Framed(enclosing, open) /\ symbols \in Nat /\ profile \in Programs
  BY DEF IInv, Typed
<1>2. open \in Seq(Frames) /\ open # <<>> /\ Len(open) \in Nat \ {0} /\ open[1].kind = "script"
  BY <1>1, FrameOf DEF Framed
<1>3. PICK n, f, g : n = Len(open) /\ f = open /\ g = open'
  OBVIOUS
<1>4. g \in Seq(Frames) /\ Len(g) = n /\ SamePart(f, g, n - 1) /\ MoreLocals(f[n], g[n])
  BY <1>1, <1>2, <1>3, DeclaredPart
<1>5. n \in Nat \ {0} /\ n - 1 \in Nat /\ n - 1 \in 0 .. n /\ n - 1 <= n /\ n - 1 + 1 = n
      /\ n \in 1 .. n /\ Top = f[n]
  BY <1>2, <1>3 DEF Top
<1>6. g[n].kind = f[n].kind
  BY <1>4 DEF MoreLocals
<1>7. CASE enclosing # <<>>
  BY <1>3, <1>4, <1>6, <1>7, InsideSame
<1>8. CASE enclosing = <<>>
  <2>1. Script(f, n)
    BY <1>3, <1>8, ScriptHere
  <2>2. PICK d, B : /\ ChartedBy(chunk, f, loops, n, flow.points, d, B)
                    /\ Reached(chunk, d, Here) /\ Grounded(B[n])
    BY <1>3, <1>8, ScriptHere
  <2>3. \A p \in flow'.points : p \in flow.points \/ Reached(chunk, d, p)
    BY <1>8, <2>2 DEF Pointed
  <2>4. \A i \in 1 .. n - 1 : SameFrame(f, loops, g, loops', i)
    BY <1>4, <1>5, SameFrames, LikeItself
  <2>5. Standing(f, n, B)
    BY <2>2 DEF ChartedBy, Waits, Standing
  <2>6. Outer(f, n)
    BY <2>1 DEF Script, Outer
  <2>7. PICK C : Placed(f, C, symbols, profile)
    BY <1>3 DEF Placing
  <2>8. f[n].kind # "script" => FitsOn(B[n], NewSymbol(f[n]))
    BY <1>1, <1>2, <1>3, <1>5, <2>5, <2>6, <2>7, FitsHere
  <2>9. f[n].kind = "script" => f[n].locals = <<>>
    <3>1. ASSUME f[n].kind = "script"
          PROVE  f[n].locals = <<>>
      <4>1. PlacedAt(f, C, symbols, profile, n)
        BY <2>6, <2>7 DEF Placed
      <4>2. Len(f[n].locals) <= 0
        BY <3>1, <4>1 DEF PlacedAt
      <4>3. f[n].locals \in Seq(Symbols)
        BY <1>4 DEF MoreLocals
      <4>4. Len(f[n].locals) = 0
        BY <4>2, <4>3
      <4> QED
        BY <4>3, <4>4
    <3> QED
      BY <3>1
  <2>10. PICK y : y = Declaring(B[n], f[n])
    OBVIOUS
  <2>11. y \in Floors /\ y = Over(B[n - 1], g[n].locals)
    <3>1. PICK frame : frame = g[n]
      OBVIOUS
    <3>2. MoreLocals(f[n], frame)
      BY <1>4, <3>1
    <3>3. f \in Seq(Frames) /\ f # <<>> /\ f[1].kind = "script" /\ n \in Nat \ {0} /\ n \in 1 .. Len(f)
      BY <1>2, <1>3, <1>5
    <3>4. Declaring(B[n], f[n]) \in Floors /\ Declaring(B[n], f[n]) = Over(B[n - 1], frame.locals)
      BY <2>5, <2>8, <2>9, <3>2, <3>3, DeclaredFloor
    <3> QED
      BY <2>10, <3>1, <3>4
  <2>12. Moves(chunk, chunk', B[n], y)
    BY <1>5, <2>2, <2>8, <2>10 DEF Declarable, Grounded
  <2>13. f[n].kind \in Lists
    BY <1>5
  <2>14. Charted(chunk', g, loops', n, flow'.points)
    BY <1>5, <1>6, <2>2, <2>3, <2>4, <2>11, <2>12, <2>13, ChartDeclare
  <2>15. \A i \in n - 1 + 1 .. n : g[i].kind # "fn"
    <3>1. f[n].kind # "fn"
      BY <1>5, <2>1 DEF Script
    <3> QED
      BY <1>5, <1>6, <3>1
  <2>16. Script(g, n)
    BY <1>2, <1>3, <1>4, <1>5, <2>1, <2>15, ScriptWhole
  <2> QED
    BY <1>3, <1>8, <2>14, <2>16, ScriptDrawn
<1> QED
  BY <1>7, <1>8

LEMMA DeclareMoves ==
  ASSUME NEW ch \in Chunks, NEW frame \in Frames, NEW x, Declarable(x, frame)
  PROVE  Moves(ch, EmitDeclare(ch, frame), Raised(x), Declaring(x, frame))
<1>1. /\ x \in Floors /\ x \in Shapes /\ x.depth \in Nat /\ x.locals \in SUBSET Symbols /\ x.array = None
      /\ Clear(x.locals, x.depth)
  BY FloorType DEF Declarable
<1>2. PICK r : r = Raised(x)
  OBVIOUS
<1>3. r \in Shapes /\ r.depth = x.depth + 1 /\ r.locals = x.locals /\ r.array = None
  BY <1>1, <1>2, RaisedIs
<1>4. CASE frame.kind = "script"
  <2>1. PICK op : op = "OP_DEFINE_GLOB"
    OBVIOUS
  <2>2. op \notin Pushing /\ op \in Popping /\ op # "OP_CONST"
        /\ op \in {"OP_CONST", "OP_LOAD_GLOB", "OP_STORE_GLOB", "OP_DEFINE_GLOB"}
    BY <2>1 DEF Pushing, Popping
  <2>3. x.depth = r.depth + -1
    BY <1>1, <1>3
  <2>4. Named(r, x, op, Name)
    BY <1>1, <1>3, <2>2, <2>3 DEF Named
  <2>5. Moves(ch, EmitConstant(ch, op, Name), r, x)
    BY <1>1, <1>3, <2>2, <2>4, NameType, ConstantMoves
  <2> QED
    BY <1>2, <1>4, <2>1, <2>5 DEF EmitDeclare, Declaring
<1>5. CASE frame.kind # "script"
  <2>1. PICK s, y : s = NewSymbol(frame) /\ y = Over(x, <<s>>)
    OBVIOUS
  <2>2. FitsOn(x, s) /\ s \in Symbols
    BY <1>5, <2>1 DEF Declarable, FitsOn
  <2>3. /\ y \in Floors /\ y \in Shapes /\ y.depth = x.depth + 1 /\ y.array = None
        /\ y.locals = (x.locals \cup IF Tracked THEN {s} ELSE {})
    BY <1>1, <2>1, <2>2, FloorMore, FloorType
  <2>4. y.depth = r.depth + 0
    BY <1>1, <1>3, <2>3
  <2>5. ASSUME Tracked
        PROVE  /\ s.slot < ByteSize /\ s.slot < r.depth
               /\ \A t \in y.locals : t = s \/ (t \in r.locals /\ t.slot # s.slot /\ t.id # s.id)
    <3>1. s.slot = x.depth /\ s.slot < ByteSize /\ \A t \in x.locals : t.id # s.id
      BY <2>2, <2>5 DEF FitsOn
    <3>2. s.slot < r.depth
      BY <1>1, <1>3, <3>1
    <3>3. ASSUME NEW t \in x.locals
          PROVE  t.slot # s.slot
      <4>1. t.slot < x.depth /\ t.slot \in Nat
        BY <1>1 DEF Clear, Symbols
      <4> QED
        BY <1>1, <3>1, <4>1
    <3> QED
      BY <1>3, <2>3, <2>5, <3>1, <3>2, <3>3
  <2>6. ~Tracked => y.locals \subseteq r.locals
    BY <1>3, <2>3
  <2>7. Moves(ch, EmitSlot(ch, "OP_STORE_LOC", s), r, y)
    BY <1>3, <2>2, <2>3, <2>4, <2>5, <2>6, SlotMoves
  <2> QED
    BY <1>2, <1>5, <2>1, <2>7 DEF EmitDeclare, EmitStore, Declaring
<1> QED
  BY <1>4, <1>5

(* A value and its declaration.                                            *)
LEMMA ValueDeclared ==
  ASSUME NEW ch \in Chunks, NEW frame \in Frames, NEW x, Declarable(x, frame),
         NEW value, Moves(ch, value, x, Raised(x)), value \in Chunks,
         NEW to, to = EmitDeclare(value, frame)
  PROVE  Moves(ch, to, x, Declaring(x, frame))
<1>1. Moves(value, to, Raised(x), Declaring(x, frame))
  BY DeclareMoves
<1> QED
  BY <1>1, MovesThen

LEMMA ValueDropped ==
  ASSUME NEW ch \in Chunks, NEW x, Grounded(x), NEW S, Valued(S, x.depth, x.locals), NEW e \in S,
         NEW op \in {"OP_POP", "OP_PRINT"}, NEW to, to = Emit(EmitExpr(ch, e), op, <<>>)
  PROVE  Moves(ch, to, x, x) /\ Moves(ch, EmitExpr(ch, e), x, Raised(x)) /\ EmitExpr(ch, e) \in Chunks
<1>1. PICK value, r : value = EmitExpr(ch, e) /\ r = Raised(x)
  OBVIOUS
<1>2. x \in Floors /\ x \in Shapes /\ x.depth \in Nat /\ x.array = None
  BY FloorType DEF Grounded
<1>3. r \in Shapes /\ r.depth = x.depth + 1 /\ r.locals = x.locals /\ r.array = None
  BY <1>1, <1>2, RaisedIs
<1>4. e \in Seq(Nodes) /\ Takes(e, x, r)
  BY <1>1 DEF Valued, Grounded
<1>5. Moves(ch, value, x, r) /\ value \in Chunks
  BY <1>1, <1>2, <1>3, <1>4, ExprMoves
<1>6. Apiece(r, x, -1)
  <2>1. x.depth = r.depth + -1
    BY <1>2, <1>3
  <2> QED
    BY <1>2, <1>3, <2>1 DEF Apiece
<1>7. Moves(value, to, r, x)
  BY <1>1, <1>2, <1>3, <1>5, <1>6, AloneMoves
<1> QED
  BY <1>1, <1>5, <1>7, MovesThen

LEMMA ExprStmtDraws ==
  ASSUME IInv, Drawing, Pointed, NEW e \in Effects, ExprStmt(e)
  PROVE  Drawing'
<1>1. Typed /\ chunk \in Chunks
  BY DEF IInv, Typed
<1>2. phase = "compiling" /\ Done("expression") /\ UNCHANGED <<enclosing, loops>>
      /\ "expression" \in Lasts
  BY DEF ExprStmt, CanBegin, Lasts
<1>3. ASSUME NEW x, Grounded(x)
      PROVE  Moves(chunk, chunk', x, x)
  <2>1. Valued(Effects, x.depth, x.locals)
    BY <1>1, <1>3, EffectsValued DEF Grounded
  <2> QED
    BY <1>1, <1>3, <2>1, ValueDropped DEF ExprStmt
<1> QED
  BY <1>2, <1>3, PlainDraws

LEMMA PrintStmtDraws ==
  ASSUME IInv, Chosen, Drawing, Pointed, NEW e \in Printed, PrintStmt(e)
  PROVE  Drawing'
<1>1. Typed /\ chunk \in Chunks
  BY DEF IInv, Typed
<1>2. phase = "compiling" /\ Done("print") /\ UNCHANGED <<enclosing, loops>> /\ "print" \in Lasts
  BY DEF PrintStmt, CanBegin, Lasts
<1>3. ASSUME NEW x, Grounded(x)
      PROVE  Moves(chunk, chunk', x, x)
  <2>1. Valued(Printed, x.depth, x.locals)
    BY <1>1, <1>3, LiteralsChosen, PrintedValued DEF Grounded
  <2> QED
    BY <1>1, <1>3, <2>1, ValueDropped DEF PrintStmt
<1> QED
  BY <1>2, <1>3, PlainDraws

LEMMA ReturnDraws ==
  ASSUME IInv, Drawing, Pointed, NEW e \in Optional, Return(e)
  PROVE  Drawing'
<1>1. Framed(enclosing, open)
  BY DEF IInv, Typed
<1>2. /\ phase = "compiling" /\ open' = Completed(open, "return") /\ UNCHANGED <<enclosing, loops>>
      /\ enclosing # <<>> /\ "return" \in Lasts
  BY DEF Return, CanBegin, Done, InScript, Lasts
<1>3. PICK n, g : n = Len(open) /\ g = open'
  OBVIOUS
<1>4. open \in Seq(Frames) /\ open # <<>> /\ n \in Nat \ {0}
  BY <1>1, <1>3, FrameOf DEF Framed
<1>5. g \in Seq(Frames) /\ Len(g) = n /\ SamePart(open, g, n)
  BY <1>2, <1>3, <1>4, CompletedPart
<1>6. SamePart(open, g, n - 1) /\ g[n].kind = open[n].kind
  <2>1. n \in 1 .. n /\ \A i \in 1 .. n - 1 : i \in 1 .. n
    BY <1>4
  <2> QED
    BY <1>5, <2>1 DEF SamePart, FrameLike
<1> QED
  BY <1>2, <1>3, <1>5, <1>6, InsideSame

LEMMA VarDeclDraws ==
  ASSUME IInv, Placing, Chosen, Drawing, Pointed, NEW e \in Optional, VarDecl(e)
  PROVE  Drawing'
<1>1. Typed /\ chunk \in Chunks /\ symbols \in Nat
  BY DEF IInv, Typed
<1>2. /\ phase = "compiling" /\ Top.kind \in Lists /\ Room(Top)
      /\ open' = Declared(open) /\ UNCHANGED <<enclosing, loops>>
  BY DEF VarDecl, CanDeclare, CanBegin, Room
<1>3. PICK value, to : /\ value = IF e = <<>> THEN Emit(chunk, "OP_NIL", <<>>) ELSE EmitExpr(chunk, e)
                       /\ to = chunk'
  OBVIOUS
<1>4. to = EmitDeclare(value, Top) /\ Top \in Frames
  BY <1>1, <1>3, TopIs DEF VarDecl
<1>5. ASSUME NEW x, Grounded(x), Declarable(x, Top)
      PROVE  Moves(chunk, to, x, Declaring(x, Top))
  <2>1. /\ Ground(x.depth, x.locals) /\ Above(x.depth, x.locals, 0, None) = x
        /\ Above(x.depth, x.locals, 1, None) = Raised(x)
    BY <1>5 DEF Grounded
  <2>2. Valued(Optional \ {<<>>}, x.depth, x.locals)
    BY <1>1, <2>1, OthersValued
  <2>3. PICK S : S = Optional
    OBVIOUS
  <2>4. Valued(S \ {<<>>}, x.depth, x.locals) /\ e \in S
    BY <2>2, <2>3
  <2>5. Moves(chunk, value, x, Raised(x)) /\ value \in Chunks
    BY <1>1, <1>3, <2>1, <2>4, ValueMoves
  <2> QED
    BY <1>1, <1>4, <1>5, <2>5, ValueDeclared
<1> QED
  BY <1>2, <1>3, <1>5, DeclareDraws
-----------------------------------------------------------------------------
(* Blocks and functions.                                                   *)

(* A new frame has no locals yet.                                          *)
Fresh(frame, kind) == frame \in Frames /\ frame.kind = kind /\ frame.locals = <<>>

LEMMA FreshFrame ==
  ASSUME NEW kind \in Kinds, NEW a \in Nat, NEW b \in Nat
  PROVE  /\ Fresh([Frame(kind) EXCEPT !.base = a, !.size = b], kind)
         /\ Fresh([Frame(kind) EXCEPT !.at = a], kind)
         /\ [Frame(kind) EXCEPT !.at = a].at = a
         /\ Fresh([Frame(kind) EXCEPT !.at = a, !.start = b], kind)
         /\ [Frame(kind) EXCEPT !.at = a, !.start = b].at = a
         /\ [Frame(kind) EXCEPT !.at = a, !.start = b].start = b
<1>1. PICK new : new = Frame(kind)
  OBVIOUS
<1>2. new \in Frames /\ new.kind = kind /\ new.locals = <<>>
  BY <1>1, FrameType DEF Frame
<1> QED
  BY <1>1, <1>2 DEF Frames, Fresh

BodyFrame(frame, a, start) == Fresh(frame, "body") /\ frame.at = a /\ frame.start = start

LEMMA FreshBody ==
  ASSUME NEW a \in Nat, NEW b \in Nat
  PROVE  BodyFrame([Frame("body") EXCEPT !.at = a, !.start = b], a, b)
<1>1. PICK new : new = Frame("body")
  OBVIOUS
<1>2. new \in Frames /\ new.kind = "body" /\ new.locals = <<>>
  <2>1. "body" \in Kinds
    BY DEF Kinds
  <2> QED
    BY <1>1, <2>1, FrameType DEF Frame
<1>3. BodyFrame([new EXCEPT !.at = a, !.start = b], a, b)
  BY <1>2 DEF Frames, Fresh, BodyFrame
<1> QED
  BY <1>1, <1>3

LEMMA BlockDraws ==
  ASSUME IInv, Drawing, Pointed, NEW size \in Sizes, Block(size)
  PROVE  Drawing'
<1>1. Typed /\ Framed(enclosing, open)
  BY DEF IInv, Typed
<1>2. FreeSlot \in Nat /\ size \in Nat
  <2>1. profile.locals \in Nat
    BY <1>1 DEF Typed, Programs
  <2> QED
    BY <1>1, <2>1, VisibleType DEF Sizes
<1>3. PICK frame : frame = [Frame("block") EXCEPT !.base = FreeSlot, !.size = size]
  OBVIOUS
<1>4. Fresh(frame, "block")
  <2>1. "block" \in Kinds
    BY DEF Kinds, Lists
  <2> QED
    BY <1>2, <1>3, <2>1, FreshFrame
<1>5. /\ phase = "compiling" /\ open' = Append(open, frame) /\ UNCHANGED <<chunk, enclosing, loops>>
      /\ frame \in Frames
  BY <1>3, <1>4 DEF Block, CanNest, CanBegin, Push, Fresh
<1>6. \A k : SameLoops(loops, loops', LoopOf(open, k))
  BY <1>5 DEF SameLoops
<1>7. CASE enclosing # <<>>
  BY <1>5, <1>6, <1>7, InsidePush
<1>8. CASE enclosing = <<>>
  <2>1. PICK n, g, to : n = Len(open) /\ g = open' /\ to = chunk'
    OBVIOUS
  <2>2. /\ Script(open, n) /\ open \in Seq(Frames) /\ open # <<>> /\ n \in Nat \ {0}
    BY <1>5, <1>8, <2>1, ScriptHere
  <2>3. PICK d, B : /\ ChartedBy(chunk, open, loops, n, flow.points, d, B)
                    /\ Reached(chunk, d, Here)
    BY <1>5, <1>8, <2>1, ScriptHere
  <2>4. g \in Seq(Frames) /\ Len(g) = n + 1 /\ SamePart(open, g, n) /\ g[n + 1] = frame
    BY <1>5, <2>1, <2>2, PushedPart
  <2>5. \A p \in flow'.points : p \in flow.points \/ Reached(chunk, d, p)
    BY <1>8, <2>3 DEF Pointed
  <2>6. n \in 0 .. n /\ n \in Nat /\ n + 1 \in Nat \ {0} /\ n <= n + 1
    BY <2>2
  <2>7. \A i \in 1 .. n : SameFrame(open, loops, g, loops', i)
    BY <1>6, <2>4, <2>6, SameFrames
  <2>8. /\ g[n + 1].kind = "block" /\ g[n + 1].locals = <<>>
        /\ HolesOf(g, loops', n + 1) = {}
    <3>1. g[n + 1].kind = "block" /\ g[n + 1].locals = <<>>
      BY <1>4, <2>4 DEF Fresh
    <3> QED
      BY <3>1 DEF HolesOf, Branches
  <2>9. NewWaits(to, d, g, loops', n + 1, B[n])
    BY <2>8 DEF NewWaits
  <2>10. /\ Charts(chunk, d, WaitingTo(open, loops, n)) /\ d[Count(chunk)] = B[n] /\ chunk \in Chunks
    BY <2>3 DEF ChartedBy, Charts
  <2>11. to = chunk /\ Prolongs(chunk, to, d, d)
         /\ WaitingTo(open, loops, n) \cup HolesOf(g, loops', n + 1) = WaitingTo(open, loops, n)
    BY <1>5, <2>1, <2>8, <2>10, ProlongsItself
  <2>12. Charted(to, g, loops', n + 1, flow'.points)
    BY <2>3, <2>5, <2>6, <2>7, <2>9, <2>10, <2>11, ChartPush
  <2>13. \A i \in n + 1 .. n + 1 : g[i].kind # "fn"
    BY <2>6, <2>8
  <2>14. Script(g, n + 1)
    BY <2>1, <2>2, <2>4, <2>6, <2>13, ScriptWhole
  <2> QED
    BY <1>5, <1>8, <2>1, <2>12, <2>14, ScriptDrawn
<1> QED
  BY <1>7, <1>8

(* A statement of the script ends: the chart after it.                     *)
LEMMA ScriptEnds ==
  ASSUME IInv, Drawing, enclosing = <<>>, phase = "compiling", NEW n, n = Len(open),
         Top.kind \notin {"script", "fn"}, NEW statement \in Lasts,
         open' = Completed(Below, statement), UNCHANGED enclosing,
         SameLoops(loops, loops', LoopOf(open, n - 1)),
         NEW d, NEW B, ChartedBy(chunk, open, loops, n, flow.points, d, B),
         \A p \in flow'.points : p \in flow.points \/ Reached(chunk, d, p),
         Drawn(chunk, d, chunk', WaitingTo(open, loops, n - 1), B[n - 1])
  PROVE  Drawing'
<1>1. /\ Script(open, n) /\ open \in Seq(Frames) /\ open # <<>> /\ n \in Nat \ {0}
      /\ open[1].kind = "script"
  BY ScriptHere
<1>2. PICK m, g, to : m = n - 1 /\ g = open' /\ to = chunk'
  OBVIOUS
<1>3. open[Len(open)].kind # "script"
  BY DEF Top
<1>4. /\ g \in Seq(Frames) /\ g # <<>> /\ Len(g) = m /\ m \in Nat \ {0} /\ SamePart(open, g, m)
  BY <1>1, <1>2, <1>3, EndedPart DEF Below
<1>5. m \in 0 .. n /\ m \in Nat /\ m <= m /\ n \in Nat
  BY <1>1, <1>2, <1>4
<1>6. \A i \in 1 .. m : SameFrame(open, loops, g, loops', i)
  BY <1>2, <1>4, <1>5, SameFrames
<1>7. PICK dd : /\ Charts(to, dd, WaitingTo(open, loops, m)) /\ Prolongs(chunk, to, d, dd)
                /\ dd[Count(to)] = B[m]
  BY <1>2 DEF Drawn
<1>8. Charted(to, g, loops', m, flow'.points)
  BY <1>5, <1>6, <1>7, ChartPop
<1>9. \A i \in m + 1 .. m : g[i].kind # "fn"
  BY <1>5
<1>10. Script(g, m)
  BY <1>1, <1>4, <1>5, <1>9, ScriptWhole
<1> QED
  BY <1>2, <1>8, <1>10, ScriptDrawn

(* A statement of a function ends.                                         *)
LEMMA InsideEnds ==
  ASSUME IInv, Drawing, Pointed, enclosing # <<>>, phase = "compiling",
         Top.kind \notin {"script", "fn"}, NEW statement \in Lasts,
         open' = Completed(Below, statement), UNCHANGED enclosing,
         SameLoops(loops, loops', LoopOf(open, Len(open) - 1))
  PROVE  Drawing'
<1>1. /\ open \in Seq(Frames) /\ open # <<>> /\ open[1].kind = "script"
  BY DEF IInv, Typed, Framed
<1>2. PICK m, g : m = Len(open) - 1 /\ g = open'
  OBVIOUS
<1>3. open[Len(open)].kind # "script"
  BY DEF Top
<1>4. g \in Seq(Frames) /\ Len(g) = m /\ m \in Nat \ {0} /\ SamePart(open, g, m)
  BY <1>1, <1>2, <1>3, EndedPart DEF Below
<1>5. m # Len(open) /\ m \in {Len(open) - 1, Len(open)}
  BY <1>1, <1>2
<1> QED
  BY <1>2, <1>4, <1>5, InsidePop

LEMMA EndBlockDraws ==
  ASSUME IInv, Drawing, Pointed, EndBlock
  PROVE  Drawing'
<1>1. Typed /\ chunk \in Chunks /\ Top \in Frames /\ Top = open[Len(open)]
  BY TopIs DEF IInv, Typed
<1>2. /\ phase = "compiling" /\ Top.kind = "block" /\ UNCHANGED <<enclosing, loops>>
      /\ open' = Completed(Below, "block") /\ chunk' = EmitPops(chunk, Top) /\ "block" \in Lasts
  BY DEF EndBlock, CanEnd, Lasts
<1>3. \A k : SameLoops(loops, loops', LoopOf(open, k))
  BY <1>2 DEF SameLoops
<1>4. Top.kind \notin {"script", "fn"}
  BY <1>2
<1>5. CASE enclosing # <<>>
  BY <1>2, <1>3, <1>4, <1>5, InsideEnds
<1>6. CASE enclosing = <<>>
  <2>1. PICK n : n = Len(open)
    OBVIOUS
  <2>2. Script(open, n) /\ n \in Nat \ {0}
    BY <1>2, <1>6, <2>1, ScriptHere
  <2>3. PICK d, B : /\ ChartedBy(chunk, open, loops, n, flow.points, d, B)
                    /\ Reached(chunk, d, Here)
    BY <1>2, <1>6, <2>1, ScriptHere
  <2>4. \A p \in flow'.points : p \in flow.points \/ Reached(chunk, d, p)
    BY <1>6, <2>3 DEF Pointed
  <2>5. PICK k : k = Len(Top.locals)
    OBVIOUS
  <2>6. k \in Nat /\ DOMAIN Top.locals = 1 .. k
    <3>1. Top.locals \in Seq(Symbols)
      BY <1>1 DEF Frames
    <3> QED
      BY <2>5, <3>1
  <2>7. chunk' = Popped(chunk, k)
    BY <1>2, <2>6 DEF EmitPops, Popped, Pops, OnePop
  <2>8. PICK W, X : W = WaitingTo(open, loops, n) /\ X = WaitingTo(open, loops, n - 1)
    OBVIOUS
  <2>9. LastChart(chunk, open, loops, n, d, B)
    BY <2>2, <2>3, LastWaits
  <2>10. HolesOf(open, loops, n) = {}
    BY <1>1, <1>2, <2>1 DEF HolesOf, Branches
  <2>11. Charts(chunk, d, W) /\ W \in SUBSET Nat
    <3>1. n \in 0 .. n /\ n \in Nat
      BY <2>2
    <3> QED
      BY <2>3, <2>8, <3>1, WaitingType DEF ChartedBy
  <2>12. PICK a, K : a = B[n - 1] /\ K = (a.locals \cup IF Tracked THEN ToSet(Top.locals) ELSE {})
    OBVIOUS
  <2>13. /\ a \in Floors /\ a = Shape(a.depth, a.locals, None)
         /\ d[Count(chunk)] = Shape(a.depth + k, K, None)
    <3>1. a \in Floors /\ d[Count(chunk)] = Over(a, Top.locals)
      BY <1>1, <2>1, <2>9, <2>12 DEF LastChart
    <3>2. a = Shape(a.depth, a.locals, None)
      BY <3>1, FloorType
    <3> QED
      BY <2>5, <2>12, <3>1, <3>2 DEF Over
  <2>14. Moves(chunk, chunk', d[Count(chunk)], a)
    <3>1. K \in SUBSET Symbols /\ Distinct(K)
      <4>1. d[Count(chunk)] \in Shapes
        <5>1. Count(chunk) \in Nat /\ d \in [Nat -> Shapes]
          BY <2>11 DEF Charts, Count, Chunks
        <5> QED
          BY <5>1
      <4>2. d[Count(chunk)].locals = K
        BY <2>13, ShapeParts
      <4> QED
        BY <4>1, <4>2, ShapesAre
    <3>2. a.locals \subseteq K /\ a.depth \in Nat
      BY <2>12, <2>13, FloorType
    <3>3. k = 0 => K = a.locals
      <4>1. ASSUME k = 0
            PROVE  ToSet(Top.locals) = {}
        <5>1. DOMAIN Top.locals = {}
          BY <2>6, <4>1
        <5> QED
          BY <5>1 DEF ToSet
      <4> QED
        BY <2>12, <4>1
    <3>4. Moves(chunk, Popped(chunk, k), Shape(a.depth + k, K, None), Shape(a.depth, a.locals, None))
      BY <1>1, <2>6, <3>1, <3>2, <3>3, PopsMove
    <3> QED
      BY <2>7, <2>13, <3>4
  <2>15. Drawn(chunk, d, chunk', X, B[n - 1])
    <3>1. Drawn(chunk, d, chunk', W, a)
      BY <2>11, <2>14, MovesDraws
    <3>2. W = X
      BY <2>8, <2>9, <2>10 DEF LastChart
    <3> QED
      BY <2>12, <3>1, <3>2
  <2> QED
    BY <1>2, <1>3, <1>4, <1>6, <2>1, <2>3, <2>4, <2>8, <2>15, ScriptEnds
<1> QED
  BY <1>5, <1>6
(* The body of a function begins: the chunk of the script is saved.        *)
LEMMA FnDeclDraws ==
  ASSUME IInv, Drawing, Pointed, NEW arity \in 0 .. 1, NEW size \in Sizes, FnDecl(arity, size)
  PROVE  Drawing'
<1>1. Typed /\ Framed(enclosing, open) /\ chunk \in Chunks /\ enclosing \in Seq(Chunks)
  BY DEF IInv, Typed, Framed
<1>2. arity \in Nat /\ size \in Nat
  <2>1. profile.locals \in Nat
    BY <1>1 DEF Typed, Programs
  <2> QED
    BY <2>1 DEF Sizes
<1>3. PICK frame : frame = [Frame("fn") EXCEPT !.base = arity, !.size = size]
  OBVIOUS
<1>4. Fresh(frame, "fn")
  <2>1. "fn" \in Kinds
    BY DEF Kinds, Lists
  <2> QED
    BY <1>2, <1>3, <2>1, FreshFrame
<1>5. /\ phase = "compiling" /\ open' = Append(open, frame) /\ UNCHANGED loops
      /\ enclosing' = Append(enclosing, chunk) /\ Top.kind \in Lists
      /\ frame \in Frames /\ frame.kind = "fn"
  BY <1>3, <1>4 DEF FnDecl, CanDeclare, CanBegin, Push, Fresh
<1>6. \A k : SameLoops(loops, loops', LoopOf(open, k))
  BY <1>5 DEF SameLoops
<1>7. PICK encl, more : encl = enclosing /\ more = enclosing'
  OBVIOUS
<1>8. /\ more \in Seq(Chunks) /\ Len(more) = Len(encl) + 1 /\ more # <<>>
      /\ \A i \in 1 .. Len(encl) : more[i] = encl[i]
      /\ more[Len(encl) + 1] = chunk
  <2>1. more = Append(encl, chunk) /\ encl \in Seq(Chunks)
    BY <1>1, <1>5, <1>7
  <2> QED
    BY <1>1, <2>1, AppendProperties
<1>9. CASE enclosing # <<>>
  <2>1. 1 \in 1 .. Len(encl)
    <3>1. Len(encl) # 0 /\ Len(encl) \in Nat
      BY <1>1, <1>7, <1>9
    <3> QED
      BY <3>1
  <2>2. enclosing'[1] = enclosing[1] /\ enclosing' # <<>>
    BY <1>7, <1>8, <2>1
  <2> QED
    BY <1>5, <1>6, <1>9, <2>2, InsidePush
<1>10. CASE enclosing = <<>>
  <2>1. PICK n, g : n = Len(open) /\ g = open'
    OBVIOUS
  <2>2. /\ Script(open, n) /\ open \in Seq(Frames) /\ open # <<>> /\ n \in Nat \ {0}
    BY <1>5, <1>10, <2>1, ScriptHere
  <2>3. PICK d, B : /\ ChartedBy(chunk, open, loops, n, flow.points, d, B)
                    /\ Reached(chunk, d, Here)
    BY <1>5, <1>10, <2>1, ScriptHere
  <2>4. g \in Seq(Frames) /\ Len(g) = n + 1 /\ SamePart(open, g, n) /\ g[n + 1] = frame
    BY <1>5, <2>1, <2>2, PushedPart
  <2>5. \A p \in flow'.points : p \in flow.points \/ Reached(chunk, d, p)
    BY <1>10, <2>3 DEF Pointed
  <2>6. n \in 0 .. n /\ n \in Nat /\ n \in 1 .. n /\ n \in 1 .. n + 1 /\ n < n + 1
    BY <2>2
  <2>7. \A i \in 1 .. n : SameFrame(open, loops, g, loops', i)
    BY <1>6, <2>4, <2>6, SameFrames
  <2>8. /\ Charts(chunk, d, WaitingTo(open, loops, n)) /\ d[Count(chunk)] = B[n]
    BY <2>3 DEF ChartedBy
  <2>9. Charted(chunk, g, loops', n, flow'.points)
    BY <1>1, <2>3, <2>5, <2>6, <2>7, <2>8, ProlongsItself, ChartPop
  <2>10. enclosing'[1] = chunk
    <3>1. Len(encl) = 0
      BY <1>7, <1>10
    <3> QED
      BY <1>7, <1>8, <3>1
  <2>11. ScriptCode' = chunk
    BY <1>7, <1>8, <2>10 DEF ScriptCode
  <2>12. Script(g, n)
    <3>1. \A i \in 1 .. n : g[i].kind # "fn"
      BY <2>2, <2>4 DEF SamePart, FrameLike, Script
    <3>2. g[n + 1].kind = "fn"
      BY <1>5, <2>4
    <3>3. g[n].kind \in Lists
      BY <1>5, <2>1, <2>4, <2>6 DEF SamePart, FrameLike, Top
    <3> QED
      BY <2>4, <2>6, <3>1, <3>2, <3>3 DEF Script
  <2>13. Script(open', n) /\ Charted(ScriptCode', open', loops', n, flow'.points)
    BY <2>1, <2>9, <2>11, <2>12
  <2> QED
    BY <2>13 DEF Drawing
<1> QED
  BY <1>9, <1>10

(* The function that ends in the script is a value declared there.         *)
LEMMA ClosureMoves ==
  ASSUME NEW ch \in Chunks, functions \in Seq(Chunks), NEW x \in Floors
  PROVE  Moves(ch, EmitFunction(ch, <<>>), x, Raised(x)) /\ EmitFunction(ch, <<>>) \in Chunks
<1>1. PICK value : value = <<"fn", Len(functions) + 1>>
  OBVIOUS
<1>2. value \in Constants
  <2>1. Len(functions) + 1 \in Nat
    OBVIOUS
  <2> QED
    BY <1>1, <2>1 DEF Constants
<1>3. PICK y : y = Raised(x)
  OBVIOUS
<1>4. Moves(ch, EmitConstant(ch, "OP_CONST", value), x, y)
  <2>1. x \in Shapes /\ x.depth \in Nat /\ x.array = None /\ Clear(x.locals, x.depth)
    BY FloorType
  <2>2. y \in Shapes /\ y.depth = x.depth + 1 /\ y.locals = x.locals /\ y.array = None
    BY <1>3, RaisedIs
  <2>3. Named(x, y, "OP_CONST", value)
    BY <2>1, <2>2 DEF Named, Element, Pushing
  <2> QED
    BY <1>2, <2>1, <2>2, <2>3, ConstantMoves
<1>5. EmitFunction(ch, <<>>) = EmitConstant(ch, "OP_CONST", value)
  BY <1>1 DEF EmitFunction
<1> QED
  BY <1>3, <1>4, <1>5 DEF Moves

LEMMA EndFnDraws ==
  ASSUME IInv, Placing, Chosen, Drawing, NEW upvalues \in Upvalues, EndFn(upvalues),
         Len(enclosing) > 1 => flow'.points = flow.points,
         Len(enclosing) = 1 =>
           \A p \in flow'.points : \/ p \in flow.points
                                   \/ p = <<Count(enclosing[1]), Cardinality(LocalsOf(Below))>>
  PROVE  Drawing'
<1>1. /\ Typed /\ Framed(enclosing, open) /\ enclosing \in Seq(Chunks) /\ symbols \in Nat
      /\ open \in Seq(Frames) /\ open # <<>> /\ functions \in Seq(Chunks)
      /\ Scripted(open) /\ open[1].kind = "script" /\ Len(enclosing) = Level(open, Len(open))
  BY DEF IInv, Typed, Framed, Scripted
<1>2. /\ phase = "compiling" /\ open[Len(open)].kind = "fn" /\ UNCHANGED loops
      /\ enclosing' = Front(enclosing) /\ open' = Declared(Below)
      /\ chunk' = EmitDeclare(EmitFunction(enclosing[Len(enclosing)], upvalues), Below[Len(Below)])
  BY DEF EndFn, CanEnd, Top
<1>3. PICK n, h, g, lps : n = Len(open) - 1 /\ h = Below /\ g = open' /\ lps = loops
  OBVIOUS
<1>4. /\ h \in Seq(Frames) /\ h # <<>> /\ Len(h) = n /\ n \in Nat \ {0} /\ SamePart(open, h, n)
      /\ \A i \in 1 .. n : h[i] = open[i]
  <2>1. open[Len(open)].kind # "script"
    BY <1>2
  <2> QED
    BY <1>1, <1>3, <2>1, FrontPart DEF Below
<1>5. n + 1 = Len(open) /\ n \in Nat /\ n \in 1 .. n /\ n - 1 \in 0 .. n /\ n - 1 \in Nat
      /\ n \in 0 .. n + 1 /\ n \in 0 .. n
  BY <1>3, <1>4
<1>6. /\ g \in Seq(Frames) /\ Len(g) = n /\ g # <<>>
      /\ SamePart(h, g, n - 1) /\ MoreLocals(h[n], g[n])
  BY <1>1, <1>2, <1>3, <1>4, DeclaredPart
<1>7. SamePart(open, g, n - 1)
  BY <1>4, <1>5, <1>6, LikeTwice
<1>8. g[n].kind = open[n].kind
  <2>1. g[n].kind = h[n].kind /\ h[n] = open[n]
    BY <1>4, <1>5, <1>6 DEF MoreLocals
  <2> QED
    BY <2>1
<1>9. PICK k : Script(open, k) /\ Charted(ScriptCode, open, loops, k, flow.points)
  BY DEF Drawing
<1>10. /\ k \in Nat \ {0} /\ k <= n + 1 /\ k \in Nat /\ k # n + 1
       /\ Len(enclosing) = 1 <=> k = n
       /\ Len(enclosing) \in Nat \ {0}
  <2>1. k \in Nat \ {0} /\ k <= Len(open) /\ (enclosing = <<>> <=> k = Len(open))
        /\ (Len(enclosing) = 1 <=> k = Len(open) - 1)
    BY <1>1, <1>2, <1>9, WhereScript
  <2>2. k # Len(open)
    <3>1. k = Len(open) => open[Len(open)].kind # "fn"
      BY <1>5, <1>9, <2>1 DEF Script
    <3> QED
      BY <1>2, <3>1
  <2>3. enclosing # <<>>
    BY <2>1, <2>2
  <2>4. Len(enclosing) # 0 /\ Len(enclosing) \in Nat
    BY <1>1, <2>3
  <2> QED
    BY <1>3, <1>5, <2>1, <2>2, <2>4
<1>11. PICK encl, more : encl = enclosing /\ more = Front(enclosing)
  OBVIOUS
<1>12. more \in Seq(Chunks) /\ Len(encl) = Len(more) + 1 /\ encl = Append(more, encl[Len(encl)])
       /\ encl \in Seq(Chunks) /\ encl[Len(encl)] \in Chunks
  BY <1>1, <1>10, <1>11, LastOf
<1>13. CASE Len(enclosing) > 1
  <2>1. Len(more) \in Nat /\ Len(more) # 0 /\ more # <<>> /\ 1 \in 1 .. Len(more)
    <3>1. Len(more) \in Nat /\ Len(more) # 0
      BY <1>11, <1>12, <1>13
    <3> QED
      BY <3>1
  <2>2. encl[1] = more[1]
    BY <1>12, <2>1, AppendProperties
  <2>3. enclosing' # <<>> /\ enclosing'[1] = enclosing[1] /\ enclosing # <<>>
    <3>1. enclosing # <<>>
      BY <1>13
    <3> QED
      BY <1>2, <1>11, <2>1, <2>2, <3>1
  <2>4. ASSUME NEW j, Script(open, j), j < Len(open)
        PROVE  j < n /\ SameLoops(loops, loops', LoopOf(open, j))
    <3>1. j \in Nat \ {0} /\ j # n /\ j < n + 1
      BY <1>1, <1>2, <1>3, <1>5, <1>13, <2>4, WhereScript
    <3>2. SameLoops(loops, loops', LoopOf(open, j))
      BY <1>2 DEF SameLoops
    <3> QED
      BY <1>5, <3>1, <3>2
  <2>5. n <= Len(open) /\ n <= Len(g) /\ Len(g) \in Nat
    BY <1>5, <1>6
  <2>6. Undisturbed(open, loops, g, loops')
    BY <1>1, <1>5, <1>6, <1>7, <1>8, <2>4, <2>5, UndisturbedBy
  <2> QED
    BY <1>1, <1>3, <1>13, <2>3, <2>5, <2>6, InsideKeeps
<1>14. CASE Len(enclosing) = 1
  <2>1. PICK ch, points, to : ch = enclosing[1] /\ points = flow.points /\ to = chunk'
    OBVIOUS
  <2>2. k = n /\ ScriptCode = ch /\ Charted(ch, open, lps, n, points) /\ ch \in Chunks
        /\ enclosing' = <<>> /\ upvalues = <<>>
    <3>1. k = n
      BY <1>10, <1>14
    <3>2. enclosing # <<>>
      BY <1>14
    <3>3. Len(more) = 0
      <4>1. Len(more) \in Nat /\ 1 = Len(more) + 1
        BY <1>11, <1>12, <1>14
      <4> QED
        BY <4>1
    <3>4. more = <<>>
      BY <1>12, <3>3
    <3>5. upvalues = <<>>
      BY <1>14 DEF Upvalues
    <3> QED
      BY <1>2, <1>3, <1>9, <1>11, <1>12, <1>14, <2>1, <3>1, <3>2, <3>4, <3>5 DEF ScriptCode
  <2>3. PICK d0, B0 : ChartedBy(ch, open, lps, n, points, d0, B0)
    BY <2>2 DEF Charted
  <2>4. Charted(ch, h, lps, n, points)
    <3>1. SameLoops(lps, lps, LoopOf(open, n))
      BY LikeItself
    <3>2. \A i \in 1 .. n : SameFrame(open, lps, h, lps, i)
      BY <1>4, <1>5, <3>1, SameFrames
    <3>3. Charts(ch, d0, WaitingTo(open, lps, n)) /\ d0[Count(ch)] = B0[n]
      BY <2>3 DEF ChartedBy
    <3> QED
      BY <1>5, <2>2, <2>3, <3>2, <3>3, ProlongsItself, ChartPop
  <2>5. PICK d, B : ChartedBy(ch, h, lps, n, points, d, B)
    BY <2>4 DEF Charted
  <2>6. Script(h, n)
    <3>1. \A i \in 1 .. n : h[i].kind # "fn"
      BY <1>4, <1>9, <2>2 DEF Script
    <3>2. n \in 1 .. n /\ ~(n < n)
      BY <1>5
    <3> QED
      BY <1>4, <3>1, <3>2 DEF Script
  <2>7. h[1].kind = "script" /\ \A i \in 2 .. n : h[i].kind # "script"
    <3>1. 1 \in 1 .. n /\ \A i \in 2 .. n : i \in 1 .. n /\ i \in 2 .. Len(open)
      BY <1>4, <1>5
    <3> QED
      BY <1>1, <1>4, <3>1 DEF Scripted
  <2>8. Reached(ch, d, <<Count(ch), Cardinality(LocalsOf(h))>>)
    BY <1>4, <2>5, <2>6, <2>7, HereReached
  <2>9. \A p \in flow'.points : p \in points \/ Reached(ch, d, p)
    BY <1>3, <1>14, <2>1, <2>8
  <2>10. h[n].kind \in Lists /\ h[n] \in Frames
    <3>1. open[k].kind \in Lists
      BY <1>5, <1>9, <1>10 DEF Script
    <3> QED
      BY <1>4, <1>5, <2>2, <3>1
  <2>11. /\ Standing(h, n, B) /\ Standing(open, n, B) /\ B[n] \in Floors
    <3>1. Standing(h, n, B)
      BY <2>5 DEF ChartedBy, Waits, Standing
    <3>2. B[n] \in Floors
      BY <1>5, <3>1 DEF Standing
    <3> QED
      BY <1>4, <3>1, <3>2 DEF Standing
  <2>12. /\ h[n].kind # "script" => FitsOn(B[n], NewSymbol(h[n]))
         /\ h[n].kind = "script" => h[n].locals = <<>>
    <3>1. Outer(open, n) /\ n + 1 <= Len(open) /\ open[n + 1].kind = "fn"
      BY <1>2, <1>5, <1>9, <2>2 DEF Script, Outer
    <3>2. PICK C : Placed(open, C, symbols, profile)
      BY DEF Placing
    <3>3. Room(open[n]) /\ PlacedAt(open, C, symbols, profile, n) /\ h[n] = open[n]
      BY <1>4, <1>5, <3>1, <3>2 DEF Placed
    <3>4. ASSUME h[n].kind # "script"
          PROVE  FitsOn(B[n], NewSymbol(h[n]))
      <4>1. FitsOn(B[n], NewSymbol(open[n]))
        BY <1>1, <1>4, <2>11, <3>1, <3>2, <3>3, <3>4, FitsHere DEF Typed
      <4> QED
        BY <3>3, <4>1
    <3>5. ASSUME h[n].kind = "script"
          PROVE  h[n].locals = <<>>
      <4>1. Len(h[n].locals) <= 0
        BY <3>3, <3>5 DEF PlacedAt
      <4>2. h[n].locals \in Seq(Symbols)
        BY <1>6 DEF MoreLocals
      <4>3. Len(h[n].locals) = 0
        BY <4>1, <4>2
      <4> QED
        BY <4>2, <4>3
    <3> QED
      BY <3>4, <3>5
  <2>13. g[n].kind = h[n].kind
    BY <1>6 DEF MoreLocals
  <2>a. PICK y, frame : y = Declaring(B[n], h[n]) /\ frame = g[n]
    OBVIOUS
  <2>b. y \in Floors /\ y = Over(B[n - 1], frame.locals)
    <3>1. MoreLocals(h[n], frame) /\ n \in 1 .. Len(h) /\ n \in Nat \ {0}
      BY <1>4, <1>5, <1>6, <2>a
    <3>2. h \in Seq(Frames) /\ h # <<>> /\ h[1].kind = "script" /\ Standing(h, n, B)
      BY <1>4, <2>7, <2>11
    <3>3. Declaring(B[n], h[n]) \in Floors /\ Declaring(B[n], h[n]) = Over(B[n - 1], frame.locals)
      BY <2>12, <3>1, <3>2, DeclaredFloor
    <3> QED
      BY <2>a, <3>3
  <2>c. Moves(ch, to, B[n], y)
    <3>1. PICK value : value = EmitFunction(ch, <<>>)
      OBVIOUS
    <3>2. Moves(ch, value, B[n], Raised(B[n])) /\ value \in Chunks
      BY <1>1, <2>2, <2>11, <3>1, ClosureMoves
    <3>3. to = EmitDeclare(value, h[n])
      BY <1>2, <1>3, <1>4, <1>14, <2>1, <2>2, <3>1
    <3>4. Declarable(B[n], h[n])
      BY <2>11, <2>12 DEF Declarable
    <3> QED
      BY <2>2, <2>10, <2>a, <3>2, <3>3, <3>4, ValueDeclared
  <2>14. \A i \in 1 .. n - 1 : SameFrame(h, lps, g, lps, i)
    <3>1. SameLoops(lps, lps, LoopOf(h, n - 1))
      BY LikeItself
    <3> QED
      BY <1>5, <1>6, <3>1, SameFrames
  <2>15. Charted(to, g, lps, n, flow'.points)
    BY <1>4, <2>5, <2>9, <2>10, <2>13, <2>14, <2>a, <2>b, <2>c, ChartDeclare
  <2>16. Script(g, n)
    <3>1. \A i \in n - 1 + 1 .. n : g[i].kind # "fn"
      <4>1. h[n].kind # "fn"
        BY <1>5, <2>6 DEF Script
      <4> QED
        BY <1>5, <2>13, <4>1
    <3>2. n - 1 <= n /\ Script(h, Len(h)) /\ n - 1 \in 0 .. Len(h)
      BY <1>4, <1>5, <2>6
    <3> QED
      BY <1>4, <1>6, <3>1, <3>2, ScriptWhole
  <2>17. loops' = lps
    BY <1>2, <1>3
  <2> QED
    BY <1>3, <2>1, <2>2, <2>15, <2>16, <2>17, ScriptDrawn
<1>15. Len(enclosing) = 1 \/ Len(enclosing) > 1
  <2>1. PICK c : c = Len(enclosing)
    OBVIOUS
  <2>2. c \in Nat \ {0}
    BY <1>10, <2>1
  <2>3. c = 1 \/ c > 1
    BY <2>2
  <2> QED
    BY <2>1, <2>3
<1> QED
  BY <1>13, <1>14, <1>15
-----------------------------------------------------------------------------
(* Branches and loops begin.                                               *)

(* Code that ends in the shape in which it began, with a jump to patch     *)
(* that starts in the shape v.                                             *)
Branched(ch, d, to, W, at, v) ==
  \E dd : /\ Charts(to, dd, W \cup {at}) /\ Prolongs(ch, to, d, dd)
          /\ dd[Count(to)] = d[Count(ch)] /\ Count(ch) < Count(to)
          /\ at \in Nat /\ Hole(to, at) /\ dd[at - 1] = v

LEMMA BranchDraws ==
  ASSUME NEW ch, NEW d, NEW W \in SUBSET Nat, Charts(ch, d, W),
         NEW x \in Floors, d[Count(ch)] = x, NEW value, Moves(ch, value, x, Raised(x)),
         NEW jump, jump = EmitJump(value, "OP_JIF"), NEW to, to = Emit(jump, "OP_POP", <<>>)
  PROVE  Branched(ch, d, to, W, LastJump(jump), Raised(x)) /\ LastJump(jump) \in Nat
<1>1. ch \in Chunks /\ Count(ch) \in Nat /\ value \in Chunks
  BY ChunkType DEF Charts, Moves
<1>2. PICK d1 : /\ Charts(value, d1, W) /\ Prolongs(ch, value, d, d1)
                /\ d1[Count(value)] = Raised(x)
  BY DEF Moves
<1>3. PICK at, v, X : at = LastJump(jump) /\ v = Raised(x) /\ X = W
  OBVIOUS
<1>4. X \in SUBSET Nat /\ Charts(value, d1, X) /\ v \in Shapes /\ x \in Shapes /\ v.array = None
      /\ Apiece(v, x, -1)
  <2>1. x \in Shapes /\ x.depth \in Nat /\ x.array = None
    BY FloorType
  <2>2. v \in Shapes /\ v.depth = x.depth + 1 /\ v.locals = x.locals /\ v.array = None
    BY <1>3, RaisedIs
  <2>3. x.depth = v.depth + -1
    BY <2>1, <2>2
  <2> QED
    BY <1>2, <1>3, <2>1, <2>2, <2>3 DEF Apiece
<1>5. Under(v, d1[Count(value)])
  BY <1>2, <1>3, <1>4, UnderItself
<1>6. /\ Drawn(value, d1, jump, X \cup {at}, v)
      /\ jump \in Chunks /\ at = Count(value) + 1 /\ at \in Nat
      /\ Whole(jump) => Hole(jump, at)
  BY <1>3, <1>4, <1>5, JumpDraws
<1>7. PICK d2 : /\ Charts(jump, d2, X \cup {at}) /\ Prolongs(value, jump, d1, d2)
                /\ d2[Count(jump)] = v
  BY <1>6 DEF Drawn
<1>8. Hole(jump, at) /\ d2[at - 1] = v
  <2>1. Whole(jump)
    BY <1>7 DEF Charts
  <2>2. Count(value) \in Nat
    BY <1>1, ChunkType
  <2>3. at - 1 = Count(value) /\ at - 1 \in 0 .. Count(value)
    BY <1>6, <2>2
  <2>4. d2[at - 1] = d1[at - 1]
    BY <1>7, <2>3 DEF Prolongs
  <2> QED
    BY <1>2, <1>3, <1>6, <2>1, <2>3, <2>4
<1>9. X \cup {at} \in SUBSET Nat
  BY <1>4, <1>6
<1>10. PICK dd : /\ Charts(to, dd, X \cup {at}) /\ Prolongs(jump, to, d2, dd)
                 /\ dd[Count(to)] = x
  <2>1. Moves(jump, to, v, x)
    BY <1>4, <1>6, AloneMoves
  <2> QED
    BY <1>7, <1>9, <2>1 DEF Moves
<1>12. Charts(to, dd, W \cup {at})
  BY <1>3, <1>10
<1>13. dd[Count(to)] = x
  BY <1>10
<1>14. to \in Chunks
  BY <1>12 DEF Charts
<1>15. Prolongs(ch, to, d, dd)
  <2>1. Prolongs(ch, jump, d, d2)
    BY <1>1, <1>2, <1>6, <1>7, ProlongsTwice
  <2> QED
    BY <1>1, <1>6, <1>10, <1>14, <2>1, ProlongsTwice
<1>16. Hole(to, at) /\ dd[at - 1] = v
  BY <1>6, <1>7, <1>8, <1>10, HoleKept
<1>17. Count(ch) < Count(to)
  <2>1. PICK a, e, j, t : a = Count(ch) /\ e = Count(value) /\ j = Count(jump) /\ t = Count(to)
    OBVIOUS
  <2>2. a \in Nat /\ e \in Nat /\ j \in Nat /\ t \in Nat
    BY <1>1, <1>6, <1>14, <2>1, ChunkType
  <2>3. a <= e /\ j <= t
    BY <1>2, <1>10, <2>1 DEF Prolongs
  <2>4. j - 2 = e + 1
    BY <1>3, <1>6, <2>1 DEF LastJump
  <2> QED
    BY <2>1, <2>2, <2>3, <2>4
<1>18. Branched(ch, d, to, W, at, v)
  BY <1>3, <1>6, <1>12, <1>13, <1>15, <1>16, <1>17 DEF Branched
<1> QED
  BY <1>2, <1>3, <1>6, <1>18

(* The jump over the else branch replaces the one to it.                   *)
LEMMA ElseBranches ==
  ASSUME NEW ch, NEW d, NEW at \in Nat, NEW X \in SUBSET Nat, Charts(ch, d, X \cup {at}),
         NEW jump, jump = EmitJump(ch, "OP_JMP"), Reachable(jump, {at}), Hole(ch, at),
         NEW b \in Floors, d[Count(ch)] = b, Under(Raised(b), d[at - 1]),
         NEW to, to = Emit(PatchJumps(jump, {at}), "OP_POP", <<>>)
  PROVE  Branched(ch, d, to, X, LastJump(jump), b) /\ LastJump(jump) \in Nat
<1>1. ch \in Chunks /\ Count(ch) \in Nat
  BY ChunkType DEF Charts
<1>2. PICK h, v, W, mid : /\ h = LastJump(jump) /\ v = Raised(b)
                          /\ W = X \cup {at} /\ mid = PatchJumps(jump, {at})
  OBVIOUS
<1>3. W \in SUBSET Nat /\ b \in Shapes /\ v \in Shapes /\ Charts(ch, d, W) /\ Apiece(v, b, -1)
  <2>1. b \in Shapes /\ b.depth \in Nat /\ b.array = None
    BY FloorType
  <2>2. v \in Shapes /\ v.depth = b.depth + 1 /\ v.locals = b.locals /\ v.array = None
    BY <1>2, RaisedIs
  <2>3. b.depth = v.depth + -1
    BY <2>1, <2>2
  <2> QED
    BY <1>2, <2>1, <2>2, <2>3 DEF Apiece
<1>4. /\ Drawn(ch, d, jump, W \cup {h}, v)
      /\ jump \in Chunks /\ h = Count(ch) + 1 /\ h \in Nat
      /\ Whole(jump) => Hole(jump, h)
  BY <1>2, <1>3, JumpDraws
<1>5. PICK d1 : /\ Charts(jump, d1, W \cup {h}) /\ Prolongs(ch, jump, d, d1)
                /\ d1[Count(jump)] = v
  BY <1>4 DEF Drawn
<1>6. Hole(jump, h) /\ d1[h - 1] = b
  <2>1. Whole(jump)
    BY <1>5 DEF Charts
  <2>2. h - 1 = Count(ch) /\ h - 1 \in 0 .. Count(ch)
    BY <1>1, <1>4
  <2>3. d1[h - 1] = d[h - 1]
    BY <1>5, <2>2 DEF Prolongs
  <2> QED
    BY <1>2, <1>4, <2>1, <2>2, <2>3
<1>7. Hole(jump, at) /\ d1[at - 1] = d[at - 1]
  BY <1>3, <1>5, HoleKept
<1>8. W \cup {h} \in SUBSET Nat /\ {at} \in SUBSET Nat /\ X \cup {h} \in SUBSET Nat
      /\ (W \cup {h}) \ {at} \subseteq X \cup {h}
  BY <1>2, <1>3, <1>4
<1>9. \A i \in {at} : Hole(jump, i) /\ Under(d1[Count(jump)], d1[i - 1])
  BY <1>2, <1>5, <1>7
<1>10. /\ Charts(mid, d1, X \cup {h}) /\ Prolongs(jump, mid, d1, d1) /\ Count(mid) = Count(jump)
  BY <1>2, <1>5, <1>8, <1>9, PatchCharts
<1>11. mid \in Chunks
  BY <1>10 DEF Charts
<1>12. PICK dd : /\ Charts(to, dd, X \cup {h}) /\ Prolongs(mid, to, d1, dd)
                 /\ dd[Count(to)] = b
  <2>1. Moves(mid, to, v, b)
    BY <1>2, <1>3, <1>11, AloneMoves
  <2> QED
    BY <1>5, <1>8, <1>10, <2>1 DEF Moves
<1>14. Charts(to, dd, X \cup {h}) /\ to \in Chunks
  BY <1>12 DEF Charts
<1>15. dd[Count(to)] = b
  BY <1>12
<1>16. Prolongs(ch, to, d, dd) /\ Prolongs(jump, to, d1, dd)
  <2>1. Prolongs(jump, to, d1, dd)
    BY <1>4, <1>10, <1>11, <1>12, <1>14, ProlongsTwice
  <2> QED
    BY <1>1, <1>4, <1>5, <1>14, <2>1, ProlongsTwice
<1>17. Hole(to, h) /\ dd[h - 1] = b
  BY <1>4, <1>5, <1>6, <1>16, HoleKept
<1>18. Count(ch) < Count(to)
  <2>1. PICK a, j, t : a = Count(ch) /\ j = Count(jump) /\ t = Count(to)
    OBVIOUS
  <2>2. a \in Nat /\ j \in Nat /\ t \in Nat
    BY <1>1, <1>4, <1>14, <2>1, ChunkType
  <2>3. j <= t
    BY <1>16, <2>1 DEF Prolongs
  <2>4. j - 2 = a + 1
    BY <1>2, <1>4, <2>1 DEF LastJump
  <2> QED
    BY <2>1, <2>2, <2>3, <2>4
<1>19. Branched(ch, d, to, X, h, b)
  BY <1>2, <1>4, <1>14, <1>15, <1>16, <1>17, <1>18 DEF Branched
<1> QED
  BY <1>2, <1>4, <1>19

LEMMA ScriptBranches ==
  ASSUME IInv, Drawing, enclosing = <<>>, phase = "compiling", enclosing' = <<>>,
         NEW n, n = Len(open), NEW m \in 0 .. n, NEW kind \in Branches,
         NEW frame, Fresh(frame, kind), open' \in Seq(Frames), Len(open') = m + 1,
         SamePart(open, open', m), open'[m + 1] = frame,
         SameLoops(loops, loops', LoopOf(open, m)),
         HolesOf(open', loops', m + 1) = {frame.at},
         NEW d, NEW B, ChartedBy(chunk, open, loops, n, flow.points, d, B),
         \A p \in flow'.points : p \in flow.points \/ Reached(chunk, d, p),
         d[Count(chunk)] = B[m], NEW v, Under(B[m], v), kind = "then" => Under(Raised(B[m]), v),
         Branched(chunk, d, chunk', WaitingTo(open, loops, m), frame.at, v),
         kind = "body" => frame.start = Count(chunk)
  PROVE  Drawing'
<1>1. /\ Script(open, n) /\ open \in Seq(Frames) /\ open # <<>> /\ n \in Nat \ {0}
      /\ chunk \in Chunks /\ Count(chunk) \in Nat
  BY ScriptHere, ChunkType
<1>2. PICK g, to, k : g = open' /\ to = chunk' /\ k = m + 1
  OBVIOUS
<1>3. m \in Nat /\ k \in Nat \ {0} /\ m <= k /\ n \in Nat /\ k = m + 1
  BY <1>1, <1>2
<1>4. \A i \in 1 .. m : SameFrame(open, loops, g, loops', i)
  BY <1>2, <1>3, SameFrames
<1>5. PICK W, at : W = WaitingTo(open, loops, m) /\ at = frame.at
  OBVIOUS
<1>6. PICK dd : /\ Charts(to, dd, W \cup {at}) /\ Prolongs(chunk, to, d, dd)
                /\ dd[Count(to)] = d[Count(chunk)] /\ Count(chunk) < Count(to)
                /\ at \in Nat /\ Hole(to, at) /\ dd[at - 1] = v
  BY <1>2, <1>5 DEF Branched
<1>7. /\ g[k] = frame /\ frame.kind = kind /\ frame.locals = <<>>
      /\ HolesOf(g, loops', k) = {at}
  BY <1>2, <1>5 DEF Fresh
<1>8. kind = "body" => frame.start \in Ops(to) /\ dd[frame.start] = B[m]
  <2>1. Count(chunk) \in Begins(chunk)
    BY DEF Begins
  <2>2. Count(chunk) \in Begins(to)
    BY <1>6, <2>1 DEF Prolongs, Kept
  <2>3. to \in Chunks
    BY <1>6 DEF Charts
  <2>4. Count(to) \in Nat
    BY <2>3, ChunkType
  <2>5. Count(chunk) # Count(to)
    BY <1>1, <1>6, <2>4
  <2>6. Count(chunk) \in Ops(to)
    BY <2>2, <2>5 DEF Begins
  <2>7. Count(chunk) \in 0 .. Count(chunk)
    BY <1>1
  <2>8. dd[Count(chunk)] = d[Count(chunk)]
    BY <1>6, <2>7 DEF Prolongs
  <2> QED
    BY <2>6, <2>8
<1>9. Under(B[m], B[m])
  <2>1. B \in [Nat -> Floors]
    BY DEF ChartedBy
  <2>2. B[m] \in Floors
    BY <1>3, <2>1
  <2> QED
    BY <2>2, FloorType, UnderItself
<1>10. NewWaits(to, dd, g, loops', k, B[m])
  <2>1. g[k].locals = <<>>
    BY <1>7
  <2>2. \A h \in HolesOf(g, loops', k) : h \in Nat /\ Hole(to, h) /\ Under(B[m], dd[h - 1])
    BY <1>6, <1>7
  <2>3. g[k].kind = "then" => Under(Raised(B[m]), dd[g[k].at - 1])
    BY <1>5, <1>6, <1>7
  <2>4. g[k].kind = "body" => g[k].start \in Ops(to) /\ Under(dd[g[k].start], B[m])
    BY <1>7, <1>8, <1>9
  <2> QED
    BY <2>1, <2>2, <2>3, <2>4 DEF NewWaits
<1>11. Charts(to, dd, WaitingTo(open, loops, m) \cup HolesOf(g, loops', m + 1))
  BY <1>2, <1>5, <1>6, <1>7
<1>12. dd[Count(to)] = B[m]
  BY <1>6
<1>13. Charted(to, g, loops', m + 1, flow'.points)
  BY <1>2, <1>3, <1>4, <1>6, <1>10, <1>11, <1>12, ChartPush
<1>14. Script(g, k)
  <2>1. \A i \in m + 1 .. k : g[i].kind # "fn"
    <3>1. kind # "fn"
      BY DEF Branches
    <3> QED
      BY <1>3, <1>7, <3>1
  <2> QED
    BY <1>1, <1>2, <1>3, <2>1, ScriptWhole
<1> QED
  BY <1>2, <1>13, <1>14, ScriptDrawn

LEMMA ConditionMoves ==
  ASSUME Typed, chunk \in Chunks, NEW e \in Conditions, NEW value, value = EmitExpr(chunk, e)
  PROVE  /\ value \in Chunks
         /\ \A x : Grounded(x) => Moves(chunk, value, x, Raised(x))
<1>1. value \in Chunks
  <2>1. e = <<GlobalVar>> /\ GlobalVar \in Nodes
    BY NameType DEF Conditions
  <2>2. e \in Seq(Nodes)
    BY <2>1
  <2> QED
    BY <2>2, ExprSteps DEF Builds
<1>2. ASSUME NEW x, Grounded(x)
      PROVE  Moves(chunk, value, x, Raised(x))
  <2>1. Valued(Conditions, x.depth, x.locals)
    BY <1>2, EffectsValued DEF Grounded
  <2>2. e \in Seq(Nodes) /\ Takes(e, x, Raised(x))
    BY <1>2, <2>1 DEF Valued, Grounded
  <2> QED
    BY <2>2, ExprMoves
<1> QED
  BY <1>1, <1>2

LEMMA IfDraws ==
  ASSUME IInv, Drawing, Pointed, NEW e \in Conditions, If(e)
  PROVE  Drawing'
<1>1. Typed /\ chunk \in Chunks /\ Framed(enclosing, open)
  BY DEF IInv, Typed
<1>2. PICK value, jump, frame :
        /\ value = EmitExpr(chunk, e) /\ jump = EmitJump(value, "OP_JIF")
        /\ frame = [Frame("then") EXCEPT !.at = LastJump(jump)]
  OBVIOUS
<1>3. /\ phase = "compiling" /\ open' = Append(open, frame) /\ UNCHANGED <<enclosing, loops>>
      /\ chunk' = Emit(jump, "OP_POP", <<>>)
  BY <1>2 DEF If, CanNest, CanBegin, Push
<1>4. /\ value \in Chunks
      /\ \A x : Grounded(x) => Moves(chunk, value, x, Raised(x))
  BY <1>1, <1>2, ConditionMoves
<1>5. LastJump(jump) \in Nat
  BY <1>2, <1>4, JumpSteps
<1>6. Fresh(frame, "then") /\ frame.at = LastJump(jump) /\ frame \in Frames
  <2>1. "then" \in Kinds
    BY DEF Kinds
  <2>2. PICK a : a = LastJump(jump)
    OBVIOUS
  <2>3. frame = [Frame("then") EXCEPT !.at = a] /\ a \in Nat
    BY <1>2, <1>5, <2>2
  <2>4. Fresh(frame, "then") /\ frame.at = a
    BY <2>1, <2>3, FreshFrame
  <2> QED
    BY <2>2, <2>4 DEF Fresh
<1>7. \A k : SameLoops(loops, loops', LoopOf(open, k))
  BY <1>3 DEF SameLoops
<1>8. CASE enclosing # <<>>
  BY <1>3, <1>6, <1>7, <1>8, InsidePush
<1>9. CASE enclosing = <<>>
  <2>1. PICK n, g : n = Len(open) /\ g = open'
    OBVIOUS
  <2>2. /\ Script(open, n) /\ open \in Seq(Frames) /\ open # <<>> /\ n \in Nat \ {0}
    BY <1>3, <1>9, <2>1, ScriptHere
  <2>3. PICK d, B : /\ ChartedBy(chunk, open, loops, n, flow.points, d, B)
                    /\ Reached(chunk, d, Here) /\ Grounded(B[n]) /\ d[Count(chunk)] = B[n]
    BY <1>3, <1>9, <2>1, ScriptHere
  <2>4. g \in Seq(Frames) /\ Len(g) = n + 1 /\ SamePart(open, g, n) /\ g[n + 1] = frame
    BY <1>3, <1>6, <2>1, <2>2, PushedPart
  <2>5. \A p \in flow'.points : p \in flow.points \/ Reached(chunk, d, p)
    BY <1>9, <2>3 DEF Pointed
  <2>6. n \in 0 .. n /\ n \in Nat
    BY <2>2
  <2>7. HolesOf(g, loops', n + 1) = {frame.at}
    BY <1>6, <2>4 DEF HolesOf, Fresh, Branches
  <2>8. PICK W, b : W = WaitingTo(open, loops, n) /\ b = B[n]
    OBVIOUS
  <2>9. /\ Charts(chunk, d, W) /\ W \in SUBSET Nat /\ d[Count(chunk)] = b /\ b \in Floors
    BY <2>3, <2>6, <2>8, WaitingType DEF ChartedBy, Grounded
  <2>10. Branched(chunk, d, chunk', W, LastJump(jump), Raised(b))
    <3>1. PICK to : to = chunk'
      OBVIOUS
    <3>2. Moves(chunk, value, b, Raised(b))
      BY <1>4, <2>3, <2>8
    <3> QED
      BY <1>2, <1>3, <2>9, <3>1, <3>2, BranchDraws
  <2>11. Under(b, Raised(b)) /\ Under(Raised(b), Raised(b))
    BY <2>9, RaisedIs, UnderItself
  <2>12. Branched(chunk, d, chunk', WaitingTo(open, loops, n), frame.at, Raised(b))
    BY <1>6, <2>8, <2>9, <2>10
  <2>13. "then" \in Branches /\ "then" # "body" /\ enclosing' = <<>>
    BY <1>3, <1>9 DEF Branches
  <2>14. g = open' /\ B[n] = b /\ d[Count(chunk)] = B[n]
    BY <2>1, <2>8, <2>9
  <2> QED
    BY <1>3, <1>6, <1>7, <1>9, <2>1, <2>3, <2>4, <2>5, <2>6, <2>7, <2>11, <2>12, <2>13, <2>14,
       ScriptBranches
<1> QED
  BY <1>8, <1>9

LEMMA WhileDraws ==
  ASSUME IInv, Drawing, Pointed, NEW e \in Conditions, While(e)
  PROVE  Drawing'
<1>1. Typed /\ chunk \in Chunks /\ Framed(enclosing, open) /\ loops \in Seq(Loops)
  BY DEF IInv, Typed
<1>2. PICK value, jump, frame, start :
        /\ value = EmitExpr(chunk, e) /\ jump = EmitJump(value, "OP_JIF") /\ start = Count(chunk)
        /\ frame = [Frame("body") EXCEPT !.at = LastJump(jump), !.start = start]
  OBVIOUS
<1>3. PICK new, mps : new = [breaks |-> {}, skips |-> {}] /\ mps = loops'
  OBVIOUS
<1>4. /\ phase = "compiling" /\ open' = Append(open, frame) /\ UNCHANGED enclosing
      /\ chunk' = Emit(jump, "OP_POP", <<>>) /\ mps = Append(loops, new)
  BY <1>2, <1>3 DEF While, CanNest, CanBegin, Push
<1>5. /\ value \in Chunks
      /\ \A x : Grounded(x) => Moves(chunk, value, x, Raised(x))
  BY <1>1, <1>2, ConditionMoves
<1>6. LastJump(jump) \in Nat /\ start \in Nat
  BY <1>1, <1>2, <1>5, JumpSteps, ChunkType
<1>7. Fresh(frame, "body") /\ frame.at = LastJump(jump) /\ frame.start = start /\ frame \in Frames
  <2>1. PICK a : a = LastJump(jump)
    OBVIOUS
  <2>2. frame = [Frame("body") EXCEPT !.at = a, !.start = start] /\ a \in Nat /\ start \in Nat
    BY <1>2, <1>6, <2>1
  <2>3. BodyFrame([Frame("body") EXCEPT !.at = a, !.start = start], a, start)
    BY <2>2, FreshBody
  <2>4. BodyFrame(frame, a, start)
    BY <2>2, <2>3
  <2> QED
    BY <2>1, <2>4 DEF BodyFrame, Fresh
<1>8. /\ Len(mps) = Len(loops) + 1 /\ mps[Len(loops) + 1] = new
      /\ \A i \in 1 .. Len(loops) : mps[i] = loops[i]
  <2>1. new \in Loops
    BY <1>3 DEF Loops
  <2> QED
    BY <1>1, <1>4, <2>1, AppendProperties
<1>9. Len(loops) = LoopOf(open, Len(open))
  BY <1>1, <1>4 DEF Typed, Looped
<1>10. SameLoops(loops, mps, LoopOf(open, Len(open)))
  BY <1>8, <1>9 DEF SameLoops
<1>11. CASE enclosing # <<>>
  <2>1. enclosing' # <<>> /\ enclosing'[1] = enclosing[1]
    BY <1>4, <1>11
  <2> QED
    BY <1>3, <1>4, <1>7, <1>10, <1>11, <2>1, InsidePush
<1>12. CASE enclosing = <<>>
  <2>1. PICK n, g : n = Len(open) /\ g = open'
    OBVIOUS
  <2>2. /\ Script(open, n) /\ open \in Seq(Frames) /\ open # <<>> /\ n \in Nat \ {0}
    BY <1>4, <1>12, <2>1, ScriptHere
  <2>3. PICK d, B : /\ ChartedBy(chunk, open, loops, n, flow.points, d, B)
                    /\ Reached(chunk, d, Here) /\ Grounded(B[n]) /\ d[Count(chunk)] = B[n]
    BY <1>4, <1>12, <2>1, ScriptHere
  <2>4. g \in Seq(Frames) /\ Len(g) = n + 1 /\ SamePart(open, g, n) /\ g[n + 1] = frame
    BY <1>4, <1>7, <2>1, <2>2, PushedPart
  <2>5. \A p \in flow'.points : p \in flow.points \/ Reached(chunk, d, p)
    BY <1>12, <2>3 DEF Pointed
  <2>6. n \in 0 .. n /\ n \in Nat
    BY <2>2
  <2>7. HolesOf(g, mps, n + 1) = {frame.at}
    <3>1. LoopOf(g, n) = LoopOf(open, n)
      BY <1>10, <2>1, <2>4, <2>6, SameFrames
    <3>2. PICK k : k = n + 1
      OBVIOUS
    <3>3. k \in Nat \ {0} /\ k - 1 = n /\ g[k].kind = "body" /\ g[k].at = frame.at
      BY <1>7, <2>4, <2>6, <3>2 DEF Fresh
    <3>4. LoopOf(g, k) = LoopOf(g, n) + 1
      BY <3>3, CountStep DEF LoopOf
    <3>5. mps[LoopOf(g, k)] = new
      BY <1>8, <1>9, <2>1, <3>1, <3>4
    <3>6. new.breaks = {} /\ new.skips = {}
      BY <1>3
    <3>7. HolesOf(g, mps, k) = {frame.at}
      BY <3>3, <3>5, <3>6 DEF HolesOf, Branches
    <3> QED
      BY <3>2, <3>7
  <2>8. PICK W, b : W = WaitingTo(open, loops, n) /\ b = B[n]
    OBVIOUS
  <2>9. /\ Charts(chunk, d, W) /\ W \in SUBSET Nat /\ d[Count(chunk)] = b /\ b \in Floors
    BY <2>3, <2>6, <2>8, WaitingType DEF ChartedBy, Grounded
  <2>10. Branched(chunk, d, chunk', W, LastJump(jump), Raised(b))
    <3>1. PICK to : to = chunk'
      OBVIOUS
    <3>2. Moves(chunk, value, b, Raised(b))
      BY <1>5, <2>3, <2>8
    <3> QED
      BY <1>2, <1>4, <2>9, <3>1, <3>2, BranchDraws
  <2>11. Under(b, Raised(b))
    BY <2>9, RaisedIs
  <2>12. Branched(chunk, d, chunk', WaitingTo(open, loops, n), frame.at, Raised(b))
    BY <1>7, <2>8, <2>9, <2>10
  <2>13. "body" \in Branches /\ "body" # "then" /\ enclosing' = <<>>
    BY <1>4, <1>12 DEF Branches
  <2>14. g = open' /\ B[n] = b /\ d[Count(chunk)] = B[n] /\ mps = loops' /\ frame.start = Count(chunk)
    BY <1>2, <1>3, <1>7, <2>1, <2>8, <2>9
  <2>15. SameLoops(loops, mps, LoopOf(open, n))
    BY <1>10, <2>1
  <2> QED
    BY <1>4, <1>7, <1>12, <2>1, <2>3, <2>4, <2>5, <2>6, <2>7, <2>11, <2>12, <2>13, <2>14, <2>15,
       ScriptBranches
<1> QED
  BY <1>11, <1>12

(* The else branch takes the place of the then branch.                     *)
LEMMA ElseDraws ==
  ASSUME IInv, Drawing, Pointed, Else, phase' = "compiling"
  PROVE  Drawing'
<1>1. /\ Typed /\ chunk \in Chunks /\ Top \in Frames /\ Top = open[Len(open)]
      /\ open \in Seq(Frames) /\ open # <<>> /\ open[1].kind = "script" /\ Len(open) \in Nat \ {0}
  BY TopIs DEF IInv, Typed, Framed
<1>2. PICK jump, at, back : /\ jump = EmitJump(chunk, "OP_JMP") /\ at = LastJump(jump)
                            /\ back = Top.at
  OBVIOUS
<1>3. /\ phase = "compiling" /\ Top.kind = "then" /\ UNCHANGED <<enclosing, loops>>
      /\ back \in Nat
  BY <1>1, <1>2 DEF Else, CanEnd, Frames
<1>4. PICK frame : frame = [Frame("else") EXCEPT !.at = at]
  OBVIOUS
<1>5. /\ Reachable(jump, {back}) /\ open' = Append(Below, frame)
      /\ chunk' = Emit(PatchJumps(jump, {back}), "OP_POP", <<>>)
  BY <1>2, <1>4 DEF Else
<1>6. at \in Nat
  BY <1>1, <1>2, JumpSteps
<1>7. Fresh(frame, "else") /\ frame.at = at
  <2>1. "else" \in Kinds
    BY DEF Kinds
  <2> QED
    BY <1>4, <1>6, <2>1, FreshFrame
<1>8. PICK n, m, f, g : n = Len(open) /\ m = n - 1 /\ f = Below /\ g = open'
  OBVIOUS
<1>9. /\ f \in Seq(Frames) /\ f # <<>> /\ Len(f) = m /\ m \in Nat \ {0} /\ SamePart(open, f, m)
  <2>1. open[Len(open)].kind # "script"
    BY <1>1, <1>3
  <2> QED
    BY <1>1, <1>8, <2>1, FrontPart DEF Below
<1>10. /\ g \in Seq(Frames) /\ Len(g) = m + 1 /\ SamePart(f, g, m) /\ g[m + 1] = frame
  <2>1. frame \in Frames /\ g = Append(f, frame)
    BY <1>5, <1>7, <1>8 DEF Fresh
  <2> QED
    BY <1>9, <2>1, PushedPart
<1>11. m \in Nat /\ m \in 0 .. m /\ n \in Nat /\ m \in 0 .. n /\ m + 1 = n
  BY <1>1, <1>8, <1>9
<1>12. SamePart(open, g, m)
  BY <1>9, <1>10, <1>11, LikeTwice
<1>13. \A k : SameLoops(loops, loops', LoopOf(open, k))
  BY <1>3 DEF SameLoops
<1>14. CASE enclosing # <<>>
  <2>1. Top.kind \notin {"script", "fn"} /\ n \in {Len(open) - 1, Len(open)}
    BY <1>3, <1>8
  <2>2. g[n].kind # "fn"
    BY <1>7, <1>10, <1>11 DEF Fresh
  <2>3. UNCHANGED enclosing /\ open' \in Seq(Frames) /\ Len(open') = n
        /\ SamePart(open, open', Len(open) - 1) /\ open'[n].kind # "fn"
        /\ SameLoops(loops, loops', LoopOf(open, Len(open) - 1))
    BY <1>3, <1>8, <1>10, <1>11, <1>12, <1>13, <2>2
  <2> QED
    BY <1>3, <1>14, <2>1, <2>3, InsidePop
<1>15. CASE enclosing = <<>>
  <2>1. PICK d, B : /\ ChartedBy(chunk, open, loops, n, flow.points, d, B)
                    /\ Reached(chunk, d, Here)
    BY <1>3, <1>8, <1>15, ScriptHere
  <2>2. \A p \in flow'.points : p \in flow.points \/ Reached(chunk, d, p)
    BY <1>15, <2>1 DEF Pointed
  <2>3. PICK W, X, b : W = WaitingTo(open, loops, n) /\ X = WaitingTo(open, loops, m) /\ b = B[m]
    OBVIOUS
  <2>4. /\ b \in Floors /\ W = X \cup HolesOf(open, loops, n) /\ Waits(chunk, d, open, loops, B, n)
        /\ d[Count(chunk)] = b
    <3>1. open[n].kind \in Branches /\ n \in Nat \ {0}
      BY <1>1, <1>3, <1>8 DEF Branches
    <3>2. LastChart(chunk, open, loops, n, d, B)
      BY <2>1, <3>1, LastWaits
    <3> QED
      BY <1>8, <2>3, <3>1, <3>2 DEF LastChart
  <2>5. HolesOf(open, loops, n) = {back}
    BY <1>1, <1>2, <1>3, <1>8 DEF HolesOf, Branches
  <2>6. Hole(chunk, back) /\ Under(Raised(b), d[back - 1])
    <3>1. open[n].kind = "then" /\ open[n].at = back /\ n - 1 = m
      BY <1>1, <1>2, <1>3, <1>8
    <3> QED
      BY <2>3, <2>4, <2>5, <3>1 DEF Waits
  <2>7. X \in SUBSET Nat
    BY <1>11, <2>1, <2>3, WaitingType
  <2>8. Charts(chunk, d, X \cup {back})
    BY <2>1, <2>3, <2>4, <2>5 DEF ChartedBy
  <2>9. Branched(chunk, d, chunk', X, at, b)
    <3>1. PICK to : to = chunk'
      OBVIOUS
    <3>2. Branched(chunk, d, to, X, LastJump(jump), b)
      BY <1>2, <1>3, <1>5, <2>4, <2>6, <2>7, <2>8, <3>1, ElseBranches
    <3> QED
      BY <1>2, <2>4, <3>1, <3>2
  <2>10. HolesOf(g, loops', m + 1) = {frame.at}
    <3>1. g[m + 1].kind = "else" /\ g[m + 1].at = frame.at
      BY <1>7, <1>10 DEF Fresh
    <3> QED
      BY <3>1 DEF HolesOf, Branches
  <2>11. "else" \in Branches /\ "else" # "body" /\ "else" # "then" /\ enclosing' = <<>>
    BY <1>3, <1>15 DEF Branches
  <2>12. Under(B[m], b) /\ d[Count(chunk)] = B[m]
    BY <2>3, <2>4, FloorType, UnderItself
  <2>13. Branched(chunk, d, chunk', WaitingTo(open, loops, m), frame.at, b)
    BY <1>7, <2>3, <2>9
  <2>14. /\ open' \in Seq(Frames) /\ Len(open') = m + 1 /\ SamePart(open, open', m)
         /\ open'[m + 1] = frame /\ HolesOf(open', loops', m + 1) = {frame.at}
    BY <1>8, <1>10, <1>12, <2>10
  <2> QED
    BY <1>3, <1>7, <1>8, <1>11, <1>13, <1>15, <2>1, <2>2, <2>11, <2>12, <2>13, <2>14, ScriptBranches
<1> QED
  BY <1>14, <1>15

(* A branch that ends leads to what comes next.                            *)
LEMMA EndIfDraws ==
  ASSUME IInv, Drawing, Pointed, EndIf, phase' = "compiling"
  PROVE  Drawing'
<1>1. /\ Typed /\ chunk \in Chunks /\ Top \in Frames /\ Top = open[Len(open)]
      /\ Len(open) \in Nat \ {0}
  BY TopIs DEF IInv, Typed
<1>2. PICK n, m, at, P : n = Len(open) /\ m = n - 1 /\ at = Top.at /\ P = {at}
  OBVIOUS
<1>3. /\ phase = "compiling" /\ Top.kind \in {"then", "else"} /\ UNCHANGED <<enclosing, loops>>
      /\ at \in Nat /\ P \in SUBSET Nat
  BY <1>1, <1>2 DEF EndIf, CanEnd, Frames
<1>4. /\ Reachable(chunk, P) /\ open' = Completed(Below, "if") /\ chunk' = PatchJumps(chunk, P)
      /\ "if" \in Lasts
  BY <1>2, <1>3 DEF EndIf, EmitEndIf, Lasts
<1>5. \A k : SameLoops(loops, loops', LoopOf(open, k))
  BY <1>3 DEF SameLoops
<1>6. Top.kind \notin {"script", "fn"} /\ UNCHANGED enclosing
  BY <1>3
<1>7. CASE enclosing # <<>>
  BY <1>3, <1>4, <1>5, <1>6, <1>7, InsideEnds
<1>8. CASE enclosing = <<>>
  <2>1. PICK d, B : /\ ChartedBy(chunk, open, loops, n, flow.points, d, B)
                    /\ Reached(chunk, d, Here)
    BY <1>2, <1>3, <1>8, ScriptHere
  <2>2. \A p \in flow'.points : p \in flow.points \/ Reached(chunk, d, p)
    BY <1>8, <2>1 DEF Pointed
  <2>3. PICK W, X, b : W = WaitingTo(open, loops, n) /\ X = WaitingTo(open, loops, m) /\ b = B[m]
    OBVIOUS
  <2>4. /\ b \in Floors /\ W = X \cup HolesOf(open, loops, n) /\ Waits(chunk, d, open, loops, B, n)
        /\ d[Count(chunk)] = b
    <3>1. open[n].kind \in Branches /\ n \in Nat \ {0}
      BY <1>1, <1>2, <1>3 DEF Branches
    <3>2. LastChart(chunk, open, loops, n, d, B)
      BY <2>1, <3>1, LastWaits
    <3> QED
      BY <1>2, <2>3, <3>1, <3>2 DEF LastChart
  <2>5. HolesOf(open, loops, n) = P
    BY <1>1, <1>2, <1>3 DEF HolesOf, Branches
  <2>6. \A h \in P : Hole(chunk, h) /\ Under(d[Count(chunk)], d[h - 1])
    BY <1>2, <2>3, <2>4, <2>5 DEF Waits
  <2>7. X \in SUBSET Nat /\ W \in SUBSET Nat
    <3>1. n \in Nat /\ n \in 0 .. n /\ m \in 0 .. n
      BY <1>1, <1>2
    <3> QED
      BY <2>1, <2>3, <3>1, WaitingType
  <2>8. Charts(chunk, d, W) /\ W \ P \subseteq X
    BY <2>1, <2>3, <2>4, <2>5 DEF ChartedBy
  <2>9. Drawn(chunk, d, chunk', X, b)
    <3>1. PICK to : to = chunk'
      OBVIOUS
    <3>2. Charts(to, d, X) /\ Prolongs(chunk, to, d, d) /\ Count(to) = Count(chunk)
      BY <1>3, <1>4, <2>6, <2>7, <2>8, <3>1, PatchCharts
    <3>3. d[Count(to)] = b
      BY <2>4, <3>2
    <3> QED
      BY <3>1, <3>2, <3>3 DEF Drawn
  <2>10. SameLoops(loops, loops', LoopOf(open, n - 1)) /\ Drawn(chunk, d, chunk', WaitingTo(open, loops, n - 1), B[n - 1])
    BY <1>2, <1>5, <2>3, <2>9
  <2> QED
    BY <1>2, <1>3, <1>4, <1>6, <1>8, <2>1, <2>2, <2>10, ScriptEnds
<1> QED
  BY <1>7, <1>8

LEMMA PatchDraws ==
  ASSUME NEW ch, NEW d, NEW W \in SUBSET Nat, Charts(ch, d, W),
         NEW P \in SUBSET Nat, Reachable(ch, P),
         \A h \in P : Hole(ch, h) /\ Under(d[Count(ch)], d[h - 1]),
         NEW rest \in SUBSET Nat, W \ P \subseteq rest,
         NEW to, to = PatchJumps(ch, P)
  PROVE  Drawn(ch, d, to, rest, d[Count(ch)])
<1>1. Charts(to, d, rest) /\ Prolongs(ch, to, d, d) /\ Count(to) = Count(ch)
  BY PatchCharts
<1> QED
  BY <1>1 DEF Drawn

(* The end of a loop: its skips lead to the increment, the code goes back  *)
(* to the condition, and its exits lead behind it.                         *)
LEMMA LoopEnds ==
  ASSUME NEW ch, NEW d, NEW X \in SUBSET Nat, NEW skips \in SUBSET Nat, NEW exits \in SUBSET Nat,
         Charts(ch, d, X \cup (exits \cup skips)), NEW v, Grounded(v), d[Count(ch)] = v,
         \A h \in exits \cup skips : Hole(ch, h) /\ Under(v, d[h - 1]),
         NEW start \in Nat, start \in Ops(ch), Under(d[start], v),
         NEW S, Valued(S \ {<<>>}, v.depth, v.locals), NEW increment \in S,
         NEW patched, patched = PatchJumps(ch, skips), Reachable(ch, skips),
         NEW latch, latch = IF increment = <<>> THEN patched
                            ELSE Emit(EmitExpr(patched, increment), "OP_POP", <<>>),
         NEW exit, exit = EmitLoop(latch, start), LoopDistance(latch, start) <= ShortMax,
         Reachable(exit, exits), NEW to, to = PatchJumps(exit, exits)
  PROVE  Drawn(ch, d, to, X, v)
<1>1. PICK R, W : R = X \cup exits /\ W = X \cup (exits \cup skips)
  OBVIOUS
<1>2. R \in SUBSET Nat /\ W \in SUBSET Nat /\ W \ skips \subseteq R /\ R \ exits \subseteq X
      /\ Charts(ch, d, W) /\ ch \in Chunks /\ Count(ch) \in Nat
  BY <1>1, ChunkType DEF Charts
<1>3. \A h \in skips : Hole(ch, h) /\ Under(d[Count(ch)], d[h - 1])
  OBVIOUS
<1>4. Charts(patched, d, R) /\ Prolongs(ch, patched, d, d) /\ Count(patched) = Count(ch)
      /\ Ops(patched) = Ops(ch)
  <2>1. ToLand(ch, d, W, skips, R)
    BY <1>2, <1>3 DEF ToLand
  <2>2. PatchedChart(ch, d, PatchJumps(ch, skips), R)
    BY <2>1, PatchLands
  <2>3. PatchedChart(ch, d, patched, R)
    BY <2>2
  <2> QED
    BY <2>3 DEF PatchedChart
<1>5. patched \in Chunks /\ d[Count(patched)] = v
  BY <1>4 DEF Charts
<1>6. Moves(patched, latch, v, v)
  <2>1. CASE increment = <<>>
    BY <1>5, <2>1, MovesNone
  <2>2. CASE increment # <<>>
    <3>1. PICK T : T = S \ {<<>>}
      OBVIOUS
    <3>2. Valued(T, v.depth, v.locals) /\ increment \in T
      BY <2>2, <3>1
    <3>3. latch = Emit(EmitExpr(patched, increment), "OP_POP", <<>>)
      BY <2>2
    <3> QED
      BY <1>5, <3>2, <3>3, ValueDropped
  <2> QED
    BY <2>1, <2>2
<1>7. PICK d1 : Charts(latch, d1, R) /\ Prolongs(patched, latch, d, d1) /\ d1[Count(latch)] = v
  <2>3. Drawn(patched, d, latch, R, v)
    BY <1>2, <1>4, <1>5, <1>6, MovesDraws
  <2> QED
    BY <2>3 DEF Drawn
<1>8. latch \in Chunks /\ start \in Ops(latch) /\ Under(d1[start], d1[Count(latch)])
  <2>1. latch \in Chunks
    BY <1>7 DEF Charts
  <2>2. start \in Ops(patched)
    BY <1>4
  <2>3. start \in Ops(latch)
    BY <1>7, <2>2 DEF Prolongs, Kept
  <2>4. start \in 0 .. Count(patched)
    BY <1>2, <1>4, <2>2 DEF Ops
  <2>5. d1[start] = d[start]
    BY <1>7, <2>4 DEF Prolongs
  <2> QED
    BY <1>7, <2>1, <2>3, <2>5
<1>9. PICK d2 : Charts(exit, d2, R) /\ Prolongs(latch, exit, d1, d2) /\ d2[Count(exit)] = v
  <2>1. Drawn(latch, d1, exit, R, v)
    BY <1>2, <1>7, <1>8, FloorType, LoopDraws DEF Grounded
  <2> QED
    BY <2>1 DEF Drawn
<1>10. ASSUME NEW h \in exits
       PROVE  Hole(exit, h) /\ Under(d2[Count(exit)], d2[h - 1])
  <2>1. h \in Nat /\ Hole(ch, h) /\ Under(v, d[h - 1])
    OBVIOUS
  <2>2. Hole(patched, h)
    BY <1>2, <1>4, <2>1, HoleKept
  <2>3. Hole(latch, h) /\ d1[h - 1] = d[h - 1]
    BY <1>4, <1>7, <2>1, <2>2, HoleKept
  <2>4. Hole(exit, h) /\ d2[h - 1] = d1[h - 1]
    BY <1>7, <1>9, <2>1, <2>3, HoleKept
  <2> QED
    BY <1>9, <2>1, <2>3, <2>4
<1>11. \A h \in exits : Hole(exit, h) /\ Under(d2[Count(exit)], d2[h - 1])
  BY <1>10
<1>12. Drawn(exit, d2, to, X, d2[Count(exit)])
  BY <1>2, <1>9, <1>11, PatchDraws
<1>13. Drawn(exit, d2, to, X, v)
  BY <1>9, <1>12
<1>14. exit \in Chunks
  BY <1>9 DEF Charts
<1>15. Prolongs(ch, latch, d, d1)
  BY <1>2, <1>4, <1>5, <1>7, <1>8, ProlongsTwice
<1>16. Prolongs(ch, exit, d, d2)
  BY <1>2, <1>8, <1>9, <1>14, <1>15, ProlongsTwice
<1> QED
  BY <1>2, <1>9, <1>13, <1>16, DrawnTwice

LEMMA EndWhileDraws ==
  ASSUME IInv, Drawing, Pointed, NEW increment \in Increments, EndWhile(increment),
         phase' = "compiling"
  PROVE  Drawing'
<1>1. /\ Typed /\ chunk \in Chunks /\ Top \in Frames /\ Top = open[Len(open)]
      /\ open \in Seq(Frames) /\ open # <<>> /\ Len(open) \in Nat \ {0}
  BY TopIs DEF IInv, Typed
<1>2. PICK n, m, loop, start, patched, latch, exit, exits :
        /\ n = Len(open) /\ m = n - 1
        /\ loop = loops[Len(loops)] /\ start = Top.start
        /\ patched = PatchJumps(chunk, loop.skips)
        /\ latch = EmitLatch(chunk, loop, increment)
        /\ exit = EmitLoop(latch, start)
        /\ exits = loop.breaks \cup {Top.at}
  OBVIOUS
<1>3. /\ phase = "compiling" /\ Top.kind = "body" /\ UNCHANGED enclosing /\ loops' = Front(loops)
      /\ Looped(loops, open) /\ start \in Nat
  BY <1>1, <1>2 DEF EndWhile, CanEnd, Frames, Typed
<1>4. /\ Reachable(chunk, loop.skips) /\ LoopDistance(latch, start) <= ShortMax
      /\ Reachable(exit, exits) /\ chunk' = PatchJumps(exit, exits)
      /\ open' = Completed(Below, "while") /\ "while" \in Lasts
  BY <1>2 DEF EndWhile, Lasts
<1>5. SameLoops(loops, loops', LoopOf(open, m))
  <2>1. PICK mps : mps = loops'
    OBVIOUS
  <2>2. mps = IF open[Len(open)].kind = "body" THEN Front(loops) ELSE loops
    BY <1>1, <1>3, <2>1
  <2>3. LessLoops(open, loops, mps)
    BY <1>1, <1>3, <2>2, PoppedLoops
  <2> QED
    BY <1>2, <2>1, <2>3 DEF LessLoops
<1>6. Top.kind \notin {"script", "fn"}
  BY <1>3
<1>7. CASE enclosing # <<>>
  <2>1. SameLoops(loops, loops', LoopOf(open, Len(open) - 1))
    BY <1>2, <1>5
  <2> QED
    BY <1>3, <1>4, <1>6, <1>7, <2>1, InsideEnds
<1>8. CASE enclosing = <<>>
  <2>1. PICK d, B : /\ ChartedBy(chunk, open, loops, n, flow.points, d, B)
                    /\ Reached(chunk, d, Here) /\ Grounded(B[n]) /\ d[Count(chunk)] = B[n]
    BY <1>2, <1>3, <1>8, ScriptHere
  <2>2. \A p \in flow'.points : p \in flow.points \/ Reached(chunk, d, p)
    BY <1>8, <2>1 DEF Pointed
  <2>3. PICK W, X, b : W = WaitingTo(open, loops, n) /\ X = WaitingTo(open, loops, m) /\ b = B[m]
    OBVIOUS
  <2>4. /\ b \in Floors /\ W = X \cup HolesOf(open, loops, n) /\ Waits(chunk, d, open, loops, B, n)
        /\ d[Count(chunk)] = b /\ Grounded(b)
    <3>1. open[n].kind \in Branches /\ n \in Nat \ {0}
      BY <1>1, <1>2, <1>3 DEF Branches
    <3>2. LastChart(chunk, open, loops, n, d, B)
      BY <2>1, <3>1, LastWaits
    <3> QED
      BY <1>2, <2>1, <2>3, <3>1, <3>2 DEF LastChart
  <2>5. HolesOf(open, loops, n) = exits \cup loop.skips
    <3>1. loop = loops[LoopOf(open, n)] /\ open[n].kind = "body" /\ open[n].at = Top.at
      BY <1>1, <1>2, <1>3 DEF Looped
    <3> QED
      BY <1>2, <3>1 DEF HolesOf, Branches
  <2>6. \A h \in exits \cup loop.skips : h \in Nat /\ Hole(chunk, h) /\ Under(b, d[h - 1])
    BY <1>2, <2>3, <2>4, <2>5 DEF Waits
  <2>7. start \in Ops(chunk) /\ Under(d[start], b)
    <3>1. open[n].kind = "body" /\ open[n].start = start /\ n - 1 = m
      BY <1>1, <1>2, <1>3
    <3> QED
      BY <2>3, <2>4, <3>1 DEF Waits
  <2>8. X \in SUBSET Nat
    <3>1. n \in Nat /\ m \in 0 .. n
      BY <1>1, <1>2
    <3> QED
      BY <2>1, <2>3, <3>1, WaitingType
  <2>9. Charts(chunk, d, X \cup (exits \cup loop.skips))
    BY <2>1, <2>3, <2>4, <2>5 DEF ChartedBy
  <2>10. Drawn(chunk, d, chunk', X, b)
    <3>1. PICK to, skips : to = chunk' /\ skips = loop.skips
      OBVIOUS
    <3>2. Valued(Increments \ {<<>>}, b.depth, b.locals)
      BY <1>1, <2>4, OthersValued DEF Grounded
    <3>3. latch = IF increment = <<>> THEN patched
                  ELSE Emit(EmitExpr(patched, increment), "OP_POP", <<>>)
      BY <1>2 DEF EmitLatch
    <3>4. skips \in SUBSET Nat /\ exits \in SUBSET Nat
      BY <2>6, <3>1
    <3>5. /\ Charts(chunk, d, X \cup (exits \cup skips)) /\ patched = PatchJumps(chunk, skips)
          /\ Reachable(chunk, skips) /\ to = PatchJumps(exit, exits)
          /\ \A h \in exits \cup skips : Hole(chunk, h) /\ Under(b, d[h - 1])
      BY <1>2, <1>4, <2>6, <2>9, <3>1
    <3>6. PICK S : S = Increments
      OBVIOUS
    <3>7. /\ Grounded(b) /\ d[Count(chunk)] = b /\ start \in Nat /\ start \in Ops(chunk)
          /\ Under(d[start], b) /\ Valued(S \ {<<>>}, b.depth, b.locals) /\ increment \in S /\ exit = EmitLoop(latch, start)
          /\ LoopDistance(latch, start) <= ShortMax /\ Reachable(exit, exits)
      BY <1>2, <1>3, <1>4, <2>4, <2>7, <3>2, <3>6
    <3>8. PICK ch : ch = chunk
      OBVIOUS
    <3>9. Drawn(ch, d, to, X, b)
      <4>1. /\ Charts(ch, d, X \cup (exits \cup skips)) /\ patched = PatchJumps(ch, skips)
            /\ Reachable(ch, skips) /\ d[Count(ch)] = b /\ start \in Ops(ch)
            /\ \A h \in exits \cup skips : Hole(ch, h) /\ Under(b, d[h - 1])
        BY <3>5, <3>7, <3>8
      <4>2. to = PatchJumps(exit, exits)
        BY <3>5
      <4> QED
        BY <2>8, <3>3, <3>4, <3>7, <4>1, <4>2, LoopEnds
    <3> QED
      BY <3>1, <3>8, <3>9
  <2>11. SameLoops(loops, loops', LoopOf(open, n - 1)) /\ Drawn(chunk, d, chunk', WaitingTo(open, loops, n - 1), B[n - 1])
    BY <1>2, <1>5, <2>3, <2>10
  <2> QED
    BY <1>2, <1>3, <1>4, <1>6, <1>8, <2>1, <2>2, <2>11, ScriptEnds
<1> QED
  BY <1>7, <1>8

-----------------------------------------------------------------------------
(* A break or a skip: one more jump of the innermost loop.                 *)

(* The deeper a frame, the more locals are alive below it.                 *)
LEMMA OverMore ==
  ASSUME NEW x \in Floors, NEW l \in Seq(Symbols), NEW y \in Floors, y = Over(x, l)
  PROVE  Under(x, y)
<1>1. x.depth \in Nat /\ x.array = None /\ Len(l) \in Nat
  BY FloorType
<1>2. y.depth = x.depth + Len(l) /\ x.locals \subseteq y.locals /\ y.array = None
  BY ShapeParts DEF Over
<1> QED
  BY <1>1, <1>2 DEF Under

LEMMA DepthsGrow ==
  ASSUME NEW ch, NEW f \in Seq(Frames), NEW lps, NEW n, n = Len(f), NEW points, NEW d, NEW B,
         ChartedBy(ch, f, lps, n, points, d, B), NEW i \in 1 .. n
  PROVE  Under(B[i - 1], B[n]) /\ B[i - 1] \in Floors /\ B[n] \in Floors
<1>1. /\ n \in Nat /\ B \in [Nat -> Floors]
      /\ \A j \in 1 .. n : B[j] = Over(B[j - 1], f[j].locals)
  <2>1. n \in Nat
    OBVIOUS
  <2>2. B \in [Nat -> Floors] /\ \A j \in 1 .. n : Waits(ch, d, f, lps, B, j)
    BY DEF ChartedBy
  <2>3. \A j \in 1 .. n : B[j] = Over(B[j - 1], f[j].locals)
    BY <2>2 DEF Waits
  <2> QED
    BY <2>1, <2>2, <2>3
<1>2. ASSUME NEW j \in 1 .. n
      PROVE  Under(B[j - 1], B[j]) /\ B[j] \in Floors /\ B[j - 1] \in Floors
  <2>1. f[j].locals \in Seq(Symbols)
    <3>1. f[j] \in Frames
      OBVIOUS
    <3> QED
      BY <3>1 DEF Frames
  <2>2. j \in Nat /\ j - 1 \in Nat
    BY <1>1
  <2>3. B[j] \in Floors /\ B[j - 1] \in Floors
    BY <1>1, <2>2
  <2>4. B[j] = Over(B[j - 1], f[j].locals)
    BY <1>1
  <2> QED
    BY <2>1, <2>3, <2>4, OverMore
<1> DEFINE good == {j \in 0 .. n : i <= j + 1 => Under(B[i - 1], B[j])}
<1>3. 0 \in good
  <2>1. ASSUME i <= 0 + 1
        PROVE  Under(B[i - 1], B[0])
    <3>1. i - 1 = 0
      BY <1>1, <2>1
    <3>2. B[0] \in Shapes
      BY <1>2, <3>1, FloorType
    <3> QED
      BY <3>1, <3>2, UnderItself
  <2>2. 0 \in 0 .. n
    BY <1>1
  <2> QED
    BY <2>1, <2>2
<1>4. ASSUME NEW j \in 1 .. n, j - 1 \in good
      PROVE  j \in good
  <2>1. j \in 0 .. n /\ j \in Nat /\ i \in Nat
    BY <1>1
  <2>2. i <= j - 1 + 1 => Under(B[i - 1], B[j - 1])
    BY <1>4
  <2>3. Under(B[j - 1], B[j]) /\ B[j] \in Shapes /\ B[j - 1] \in Shapes /\ B[i - 1] \in Shapes
    BY <1>2, FloorType
  <2>4. i <= j => Under(B[i - 1], B[j])
    <3>1. ASSUME i <= j
          PROVE  Under(B[i - 1], B[j - 1])
      BY <2>1, <2>2, <3>1
    <3> QED
      BY <2>3, <3>1, UnderTwice
  <2>5. i = j + 1 => Under(B[i - 1], B[j])
    <3>1. ASSUME i = j + 1
          PROVE  i - 1 = j
      BY <2>1, <3>1
    <3> QED
      BY <2>3, <3>1, UnderItself
  <2>6. i <= j + 1 => i <= j \/ i = j + 1
    BY <2>1
  <2> QED
    BY <2>1, <2>4, <2>5, <2>6
<1> HIDE DEF good
<1>5. \A j \in 0 .. n : j \in good
  BY <1>1, <1>3, <1>4, Upward
<1>6. n \in good
  BY <1>1, <1>5
<1>7. i <= n + 1 /\ n \in 1 .. n
  <2>1. n \in Nat /\ i \in 1 .. n
    BY <1>1
  <2> QED
    BY <2>1
<1> QED
  BY <1>2, <1>6, <1>7 DEF good

(* The holes of a frame after the jump.                                    *)
OwnsLoop(f, lps, i) == f[i].kind = "body" /\ LoopOf(f, i) = Len(lps)
OneHole(f, lps, mps, hole, i) ==
  HolesOf(f, mps, i) = HolesOf(f, lps, i) \cup IF OwnsLoop(f, lps, i) THEN {hole} ELSE {}

LEMMA HolesMore ==
  ASSUME NEW f \in Seq(Frames), f # <<>>, NEW lps, Looped(lps, f),
         NEW hole, NEW mps, MoreJumps(lps, mps, hole), NEW i \in 1 .. Len(f)
  PROVE  OneHole(f, lps, mps, hole, i)
<1>1. PICK n, k : n = Len(f) /\ k = Len(lps)
  OBVIOUS
<1>2. n \in Nat \ {0} /\ n \in Nat /\ LoopOf(f, n) = k
  BY <1>1, FrameOf DEF Looped
<1>3. ASSUME f[i].kind = "body", LoopOf(f, i) = k
      PROVE  HolesOf(f, mps, i) = HolesOf(f, lps, i) \cup {hole}
  <2>1. mps[k].breaks \cup mps[k].skips = (lps[k].breaks \cup lps[k].skips) \cup {hole}
    BY <1>1 DEF MoreJumps
  <2> QED
    BY <1>3, <2>1 DEF HolesOf
<1>4. ASSUME ~(f[i].kind = "body" /\ LoopOf(f, i) = k)
      PROVE  HolesOf(f, mps, i) = HolesOf(f, lps, i)
  <2>1. ASSUME f[i].kind = "body"
        PROVE  mps[LoopOf(f, i)] = lps[LoopOf(f, i)]
    <3>1. LoopOf(f, i) \in 1 .. k /\ LoopOf(f, i) # k
      BY <1>1, <1>2, <1>4, <2>1, LoopIs
    <3> QED
      BY <1>1, <3>1 DEF MoreJumps
  <2> QED
    BY <2>1 DEF HolesOf
<1> QED
  BY <1>1, <1>3, <1>4 DEF OneHole, OwnsLoop

(* The loops below the function that is compiled keep their jumps.         *)
LEMMA LowerLoops ==
  ASSUME NEW f \in Seq(Frames), f # <<>>, NEW lps, Looped(lps, f), LastLoop(f),
         NEW hole, NEW mps, MoreJumps(lps, mps, hole), NEW k, Script(f, k), k < Len(f)
  PROVE  SameLoops(lps, mps, LoopOf(f, k))
<1>1. PICK n, t : n = Len(f) /\ t = Len(lps)
  OBVIOUS
<1>2. n \in Nat \ {0} /\ n \in Nat /\ LoopOf(f, n) = t /\ k \in Nat \ {0} /\ k \in 1 .. n
  BY <1>1, FrameOf DEF Looped, Script
<1>3. PICK i \in 1 .. n : f[i].kind = "body" /\ Level(f, i) = Level(f, n) /\ LoopOf(f, i) = t
  BY <1>1, <1>2 DEF LastLoop
<1>4. k < i
  <2>1. n \in k + 1 .. Len(f)
    BY <1>1, <1>2
  <2>2. Level(f, n) >= 1 /\ Level(f, n) # 0
    <3>1. Level(f, n) >= 1
      BY <2>1, ScriptLevel
    <3> QED
      BY <3>1
  <2>3. i \in 0 .. k => Level(f, i) = 0
    BY ScriptLevel
  <2> QED
    BY <1>2, <1>3, <2>2, <2>3
<1>5. PICK j : j = i - 1
  OBVIOUS
<1>6. j \in Nat /\ k \in 1 .. j /\ i \in Nat \ {0}
  BY <1>2, <1>4, <1>5
<1>7. LoopOf(f, i) = LoopOf(f, j) + 1
  BY <1>3, <1>5, <1>6, CountStep DEF LoopOf
<1>8. LoopOf(f, k) \in 0 .. LoopOf(f, j)
  BY <1>6, LoopIs
<1>9. LoopOf(f, j) \in Nat
  BY <1>6, CountType DEF LoopOf
<1>10. \A a \in 1 .. LoopOf(f, k) : a \in 1 .. t /\ a # t
  BY <1>3, <1>7, <1>8, <1>9
<1> QED
  BY <1>1, <1>10 DEF SameLoops, MoreJumps

(* The frames of a chart after the jump: each waits as before, and the one *)
(* of the loop for the jump too.                                           *)
LEMMA WaitsMore ==
  ASSUME NEW f \in Seq(Frames), f # <<>>, NEW lps, Looped(lps, f), NEW n, n = Len(f),
         NEW ch, NEW points, NEW d, NEW B, ChartedBy(ch, f, lps, n, points, d, B),
         NEW hole \in Nat, NEW mps, MoreJumps(lps, mps, hole),
         NEW to, NEW dd, NEW X, Charts(to, dd, X), Prolongs(ch, to, d, dd),
         Hole(to, hole), dd[hole - 1] = B[n], NEW i \in 1 .. n
  PROVE  Waits(to, dd, f, mps, B, i)
<1>1. Charts(ch, d, WaitingTo(f, lps, n)) /\ Waits(ch, d, f, lps, B, i)
  BY DEF ChartedBy
<1>2. SameFrame(f, lps, f, lps, i)
  BY DEF SameFrame
<1>3. Waits(to, dd, f, lps, B, i)
  BY <1>1, <1>2, WaitsKept
<1>4. OneHole(f, lps, mps, hole, i)
  BY HolesMore
<1>5. Under(B[i - 1], B[n])
  BY DepthsGrow
<1>6. ASSUME NEW h \in HolesOf(f, mps, i)
      PROVE  h \in Nat /\ Hole(to, h) /\ Under(B[i - 1], dd[h - 1])
  <2>1. h \in HolesOf(f, lps, i) \/ h = hole
    BY <1>4 DEF OneHole
  <2>2. h \in HolesOf(f, lps, i) => h \in Nat /\ Hole(to, h) /\ Under(B[i - 1], dd[h - 1])
    BY <1>3 DEF Waits
  <2> QED
    BY <1>5, <2>1, <2>2
<1> QED
  BY <1>3, <1>6 DEF Waits

LEMMA WaitingMore ==
  ASSUME NEW f \in Seq(Frames), f # <<>>, NEW lps, Looped(lps, f), LastLoop(f), NEW n, n = Len(f),
         NEW hole \in Nat, NEW mps, MoreJumps(lps, mps, hole)
  PROVE  WaitingTo(f, mps, n) = WaitingTo(f, lps, n) \cup {hole}
<1>1. \A i \in 1 .. n : OneHole(f, lps, mps, hole, i)
  BY HolesMore
<1>2. PICK b \in 1 .. n : OwnsLoop(f, lps, b)
  BY DEF LastLoop, OwnsLoop, Looped
<1>3. WaitingTo(f, mps, n) \subseteq WaitingTo(f, lps, n) \cup {hole}
  BY <1>1 DEF WaitingTo, OneHole
<1>4. WaitingTo(f, lps, n) \subseteq WaitingTo(f, mps, n)
  BY <1>1 DEF WaitingTo, OneHole
<1>5. hole \in HolesOf(f, mps, b)
  BY <1>1, <1>2 DEF OneHole
<1>6. hole \in WaitingTo(f, mps, n)
  BY <1>2, <1>5 DEF WaitingTo
<1> QED
  BY <1>3, <1>4, <1>6

LEMMA LeaveDraws ==
  ASSUME LexicalJumps, IInv, Drawing, Pointed, phase = "compiling", CanJump,
         NEW list \in {"breaks", "skips"}, AddJump(list), NEW statement \in Lasts, Done(statement)
  PROVE  Drawing'
<1>1. Typed /\ chunk \in Chunks /\ Framed(enclosing, open)
  BY DEF IInv, Typed
<1>2. UNCHANGED enclosing /\ chunk' = EmitJump(chunk, "OP_JMP")
  BY DEF AddJump
<1>3. PICK f, g, lps, mps, to, hole, n : /\ f = open /\ g = open' /\ lps = loops /\ mps = loops'
                                         /\ to = chunk' /\ hole = LastJump(to) /\ n = Len(f)
  OBVIOUS
<1>4. /\ Looped(lps, f) /\ f \in Seq(Frames) /\ f # <<>> /\ n \in Nat \ {0}
      /\ f[1].kind = "script" /\ lps \in Seq(Loops) /\ lps # <<>>
  BY <1>1, <1>3, FrameOf DEF Typed, Framed, Looped, CanJump
<1>5. hole \in Nat /\ to = EmitJump(chunk, "OP_JMP")
  <2>1. to = EmitJump(chunk, "OP_JMP")
    BY <1>2, <1>3
  <2> QED
    BY <1>1, <1>3, <2>1, JumpSteps
<1>6. MoreJumps(lps, mps, hole)
  <2>1. mps = [lps EXCEPT ![Len(lps)][list] = @ \cup {hole}]
    BY <1>3 DEF AddJump
  <2> QED
    BY <1>4, <1>5, <2>1, AddedJump
<1>7. LastLoop(f)
  <2>1. \E i \in DOMAIN OwnOf(f) : OwnOf(f)[i].kind = "body"
    BY <1>3 DEF CanJump, Own
  <2> QED
    BY <1>4, <2>1, OwnLoop
<1>8. g \in Seq(Frames) /\ Len(g) = n /\ SamePart(f, g, n)
  BY <1>3, <1>4, CompletedPart DEF Done
<1>9. n \in Nat /\ n \in 1 .. n /\ n \in 0 .. n /\ n <= n /\ n - 1 \in 0 .. n /\ 0 \in 0 .. n
  BY <1>4
<1>10. CASE enclosing # <<>>
  <2>1. SamePart(f, g, n - 1) /\ g[n].kind = f[n].kind
    BY <1>8, <1>9, LikeTwice, LikeItself DEF SamePart, FrameLike
  <2>2. \A k : Script(f, k) /\ k < Len(f) => k < n /\ SameLoops(lps, mps, LoopOf(f, k))
    BY <1>3, <1>4, <1>6, <1>7, LowerLoops
  <2>3. Undisturbed(f, lps, g, mps)
    <3>1. n <= Len(f) /\ n <= Len(g)
      BY <1>3, <1>8, <1>9
    <3> QED
      BY <1>4, <1>8, <1>9, <2>1, <2>2, <3>1, UndisturbedBy
  <2>4. Undisturbed(open, loops, open', loops') /\ Len(open') \in Nat
    BY <1>3, <1>8, <1>9, <2>3
  <2>5. flow'.points = flow.points
    BY <1>10 DEF Pointed
  <2>6. enclosing' # <<>> /\ enclosing'[1] = enclosing[1]
    BY <1>2, <1>10
  <2> QED
    BY <1>1, <1>10, <2>4, <2>5, <2>6, InsideKeeps
<1>11. CASE enclosing = <<>>
  <2>1. Script(f, n)
    BY <1>3, <1>11, ScriptHere
  <2>2. PICK d, B : /\ ChartedBy(chunk, f, lps, n, flow.points, d, B)
                    /\ Reached(chunk, d, Here) /\ Grounded(B[n])
    BY <1>3, <1>11, ScriptHere
  <2>3. \A p \in flow'.points : p \in flow.points \/ Reached(chunk, d, p)
    BY <1>11, <2>2 DEF Pointed
  <2>4. PICK W, b : W = WaitingTo(f, lps, n) /\ b = B[n]
    OBVIOUS
  <2>5. /\ Charts(chunk, d, W) /\ W \in SUBSET Nat /\ d[Count(chunk)] = b /\ b \in Floors
        /\ B \in [Nat -> Floors] /\ B[0] = Bare /\ Count(chunk) \in Nat
    BY <1>9, <2>2, <2>4, WaitingType DEF ChartedBy, Grounded
  <2>6. /\ Drawn(chunk, d, to, W \cup {hole}, b) /\ hole = Count(chunk) + 1
        /\ Whole(to) => Hole(to, hole)
    <3>1. b \in Shapes
      BY <2>5, FloorType
    <3> QED
      BY <1>3, <1>5, <2>5, <3>1, JumpDraws
  <2>7. PICK dd : /\ Charts(to, dd, W \cup {hole}) /\ Prolongs(chunk, to, d, dd)
                  /\ dd[Count(to)] = b
    BY <2>6 DEF Drawn
  <2>8. Hole(to, hole) /\ dd[hole - 1] = B[n]
    <3>1. Whole(to)
      BY <2>7 DEF Charts
    <3>2. hole - 1 = Count(chunk) /\ hole - 1 \in 0 .. Count(chunk)
      BY <2>5, <2>6
    <3>3. dd[hole - 1] = d[hole - 1]
      BY <2>7, <3>2 DEF Prolongs
    <3> QED
      BY <2>4, <2>5, <2>6, <3>1, <3>2, <3>3
  <2>9. \A i \in 1 .. n : SameFrame(f, mps, g, mps, i)
    BY <1>8, <1>9, SameFrames, LikeItself
  <2>10. ASSUME NEW i \in 1 .. n
         PROVE  Waits(to, dd, g, mps, B, i)
    <3>1. Waits(to, dd, f, mps, B, i)
      BY <1>3, <1>4, <1>5, <1>6, <2>2, <2>7, <2>8, WaitsMore
    <3>2. to \in Chunks
      BY <2>7 DEF Charts
    <3>3. Prolongs(to, to, dd, dd) /\ SameFrame(f, mps, g, mps, i)
      BY <2>9, <3>2, ProlongsItself
    <3> QED
      BY <2>7, <3>1, <3>3, WaitsKept
  <2>11. WaitingTo(g, mps, n) = W \cup {hole}
    <3>1. WaitingTo(f, mps, n) = WaitingTo(f, lps, n) \cup {hole}
      BY <1>3, <1>4, <1>5, <1>6, <1>7, WaitingMore
    <3>2. WaitingTo(g, mps, n) = WaitingTo(f, mps, n)
      BY <1>9, <2>9, WaitingSame
    <3> QED
      BY <2>4, <3>1, <3>2
  <2>12. Redrawn(chunk, f, lps, d, B, 0, to, g, mps, n, dd, B)
    <3>1. \A i \in 0 + 1 .. n : Waits(to, dd, g, mps, B, i)
      BY <2>10
    <3>2. \A i \in 1 .. 0 : SameFrame(f, lps, g, mps, i)
      OBVIOUS
    <3> QED
      BY <2>4, <2>5, <2>7, <2>11, <3>1, <3>2 DEF Redrawn
  <2>13. Charted(to, g, mps, n, flow'.points)
    BY <1>9, <2>2, <2>3, <2>12, ChartedNext
  <2>14. Script(g, n)
    <3>1. \A i \in n + 1 .. n : g[i].kind # "fn"
      BY <1>9
    <3> QED
      BY <1>3, <1>4, <1>8, <1>9, <2>1, <3>1, ScriptWhole
  <2>15. enclosing' = <<>>
    BY <1>2, <1>11
  <2> QED
    BY <1>3, <2>13, <2>14, <2>15, ScriptDrawn
<1> QED
  BY <1>10, <1>11


-----------------------------------------------------------------------------
(* The resolver keeps to its slots.                                        *)

LEMMA OuterBelow ==
  ASSUME NEW f \in Seq(Frames), NEW g \in Seq(Frames), NEW m \in Nat, m <= Len(f), SamePart(f, g, m),
         NEW i, Outer(g, i), NEW j \in 1 .. m, j <= i
  PROVE  Outer(f, j) /\ FrameLike(f[j], g[j]) /\ Outer(g, j) /\ f[j] \in Frames
<1>1. i \in 1 .. Len(g) /\ j \in 1 .. Len(f) /\ j \in Nat
  BY DEF Outer
<1>2. ASSUME NEW k \in 1 .. j
      PROVE  g[k].kind # "fn" /\ f[k].kind # "fn"
  <2>1. k \in 1 .. i /\ k \in 1 .. m
    BY <1>1
  <2> QED
    BY <2>1 DEF Outer, SamePart, FrameLike
<1>3. j \in 1 .. Len(g)
  BY <1>1
<1>4. f[j] \in Frames
  BY <1>1
<1> QED
  BY <1>1, <1>2, <1>3, <1>4 DEF Outer, SamePart

(* Frames up to m that were left alone, and perhaps one above them.        *)
TopPlaced(g, m, C, ids, p) ==
  /\ Len(g) = m + 1 /\ Outer(g, m + 1) => PlacedAt(g, C, ids, p, m + 1)
  /\ Len(g) = m + 1 /\ g[m + 1].kind = "fn" /\ Outer(g, m) => Room(g[m])

LEMMA PlacedNext ==
  ASSUME NEW f \in Seq(Frames), NEW C, NEW ids \in Nat, NEW p, Placed(f, C, ids, p),
         NEW g \in Seq(Frames), NEW m \in Nat, m <= Len(f), SamePart(f, g, m),
         Len(g) \in {m, m + 1},
         NEW jds \in Nat, ids <= jds, NEW q, q.depth = p.depth, q.locals = p.locals,
         NEW size \in Nat, NEW D, D = [C EXCEPT ![m + 1] = C[m] + size],
         TopPlaced(g, m, D, jds, q)
  PROVE  Placed(g, D, jds, q)
<1>0. m + 1 \in Nat /\ m + 1 # 0
  OBVIOUS
<1>1. C \in [Nat -> Nat] /\ C[0] = 0
  BY DEF Placed
<1>2. /\ D \in [Nat -> Nat] /\ D[0] = 0 /\ \A i \in 0 .. m : D[i] = C[i]
  <2>1. C[m] + size \in Nat
    <3>1. C[m] \in Nat
      BY <1>1
    <3> QED
      BY <3>1
  <2>2. D \in [Nat -> Nat]
    BY <1>0, <1>1, <2>1
  <2>3. \A i \in 0 .. m : i \in Nat /\ i # m + 1
    OBVIOUS
  <2>4. \A i \in 0 .. m : D[i] = C[i]
    BY <1>1, <2>3
  <2>5. 0 \in 0 .. m
    OBVIOUS
  <2> QED
    BY <1>1, <2>2, <2>4, <2>5
<1>3. ASSUME NEW i, Outer(g, i)
      PROVE  PlacedAt(g, D, jds, q, i)
  <2>1. i \in 1 .. Len(g) /\ Len(g) \in Nat
    BY <1>3 DEF Outer
  <2>2. CASE i <= m
    <3>1. i \in 1 .. m
      BY <2>1, <2>2
    <3>2. Outer(f, i) /\ FrameLike(f[i], g[i]) /\ f[i] \in Frames
      BY <1>3, <2>1, <3>1, OuterBelow
    <3>3. PlacedAt(f, C, ids, p, i)
      BY <3>2 DEF Placed
    <3>4. D[i] = C[i] /\ D[i - 1] = C[i - 1]
      <4>1. i \in 0 .. m /\ i - 1 \in 0 .. m
        BY <3>1
      <4> QED
        BY <1>2, <4>1
    <3>5. /\ g[i].kind = f[i].kind /\ g[i].base = f[i].base /\ g[i].size = f[i].size
          /\ g[i].locals = f[i].locals
      BY <3>2 DEF FrameLike
    <3>6. \A s \in ToSet(g[i].locals) : s.id < jds
      <4>1. PICK l : l = f[i].locals
        OBVIOUS
      <4>2. l \in Seq(Symbols)
        BY <3>2, <4>1 DEF Frames
      <4>3. ToSet(l) \subseteq Symbols
        BY <4>2 DEF ToSet
      <4>4. \A s \in Symbols : s.id \in Nat
        BY DEF Symbols
      <4>5. \A s \in ToSet(l) : s.id < ids
        BY <3>3, <4>1 DEF PlacedAt
      <4> QED
        BY <3>5, <4>1, <4>3, <4>4, <4>5
    <3>7. \A j \in 1 .. i - 1 : Full(f, j) => Full(g, j)
      <4>1. \A j \in 1 .. i - 1 : j \in 1 .. m
        BY <3>1
      <4> QED
        BY <4>1 DEF SamePart, FrameLike, Full
    <3> QED
      BY <3>3, <3>4, <3>5, <3>6, <3>7 DEF PlacedAt
  <2>3. CASE ~(i <= m)
    <3>1. i = m + 1 /\ Len(g) = m + 1
      BY <2>1, <2>3
    <3> QED
      BY <1>3, <3>1 DEF TopPlaced
  <2> QED
    BY <2>2, <2>3
<1>4. ASSUME NEW i, Outer(g, i), i + 1 <= Len(g), g[i + 1].kind = "fn"
      PROVE  Room(g[i])
  <2>1. i \in 1 .. Len(g) /\ Len(g) \in Nat
    BY <1>4 DEF Outer
  <2>2. CASE i + 1 <= m
    <3>1. i \in 1 .. m /\ i + 1 \in 1 .. m /\ i + 1 <= Len(f)
      BY <2>1, <2>2
    <3>2. Outer(f, i) /\ FrameLike(f[i], g[i])
      BY <1>4, <2>1, <3>1, OuterBelow
    <3>3. f[i + 1].kind = "fn"
      BY <1>4, <3>1 DEF SamePart, FrameLike
    <3>4. Room(f[i])
      BY <3>1, <3>2, <3>3 DEF Placed
    <3> QED
      BY <3>2, <3>4 DEF Room, FrameLike
  <2>3. CASE ~(i + 1 <= m)
    <3>1. i = m /\ Len(g) = m + 1
      BY <1>4, <2>1, <2>3
    <3> QED
      BY <1>4, <3>1 DEF TopPlaced
  <2> QED
    BY <2>2, <2>3
<1> QED
  BY <1>2, <1>3, <1>4 DEF Placed

(* The program stays the same, but for what is left of it.                 *)
SameProgram == /\ profile'.depth = profile.depth /\ profile'.locals = profile.locals
               /\ profile'.arrays = profile.arrays

LEMMA ProgramStays ==
  ASSUME Typed
  PROVE  /\ \A kind : CanBegin(kind) => SameProgram
         /\ \A kinds : CanEnd(kinds) => SameProgram
BY DEF Typed, Programs, CanBegin, CanEnd, SameProgram

(* Statements that leave the frames below the last alone.                  *)
LEMMA PlacingSame ==
  ASSUME Typed, Placing, SameProgram, open' \in Seq(Frames), SamePart(open, open', Len(open')),
         Len(open') <= Len(open), symbols' \in Nat, symbols <= symbols'
  PROVE  Placing'
<1>1. PICK C : Placed(open, C, symbols, profile)
  BY DEF Placing
<1>2. PICK f, g, m, ids, jds, p, q, D :
        /\ f = open /\ g = open' /\ m = Len(open') /\ ids = symbols /\ jds = symbols'
        /\ p = profile /\ q = profile' /\ D = [C EXCEPT ![m + 1] = C[m] + 0]
  OBVIOUS
<1>3. /\ f \in Seq(Frames) /\ g \in Seq(Frames) /\ m \in Nat /\ m <= Len(f) /\ SamePart(f, g, m)
      /\ Len(g) \in {m, m + 1} /\ Len(g) # m + 1
      /\ ids \in Nat /\ jds \in Nat /\ ids <= jds /\ q.depth = p.depth /\ q.locals = p.locals
      /\ Placed(f, C, ids, p)
  BY <1>1, <1>2 DEF Typed, Framed, SameProgram
<1>4. TopPlaced(g, m, D, jds, q)
  BY <1>3 DEF TopPlaced
<1>5. Placed(g, D, jds, q)
  <2>1. D = [C EXCEPT ![m + 1] = C[m] + 0] /\ 0 \in Nat
    BY <1>2
  <2> QED
    BY <1>3, <1>4, <2>1, PlacedNext
<1> QED
  BY <1>2, <1>5 DEF Placing

(* A declaration in the k-th frame takes the next of its slots.            *)
LEMMA PlacingDeclared ==
  ASSUME Typed, Placing, SameProgram, NEW k \in 1 .. Len(open), open' \in Seq(Frames), Len(open') = k,
         SamePart(open, open', k - 1), MoreLocals(open[k], open'[k]),
         Outer(open, k) => Room(open[k]), symbols' = SymbolsAfter(open[k])
  PROVE  Placing'
<1>1. PICK C : Placed(open, C, symbols, profile)
  BY DEF Placing
<1>2. PICK f, g, m, ids, jds, p, q, size, D :
        /\ f = open /\ g = open' /\ m = k - 1 /\ ids = symbols /\ jds = symbols'
        /\ p = profile /\ q = profile' /\ size = f[k].size /\ D = [C EXCEPT ![m + 1] = C[m] + size]
  OBVIOUS
<1>3. /\ f \in Seq(Frames) /\ g \in Seq(Frames) /\ m \in Nat /\ m <= Len(f) /\ SamePart(f, g, m)
      /\ Len(g) = m + 1 /\ m + 1 = k /\ k \in Nat \ {0} /\ k \in 1 .. Len(f) /\ Len(f) \in Nat
      /\ ids \in Nat /\ q.depth = p.depth /\ q.locals = p.locals
      /\ Placed(f, C, ids, p) /\ MoreLocals(f[k], g[k]) /\ (Outer(f, k) => Room(f[k]))
  BY <1>1, <1>2 DEF Typed, Framed, SameProgram
<1>4. /\ f[k] \in Frames /\ g[k] \in Frames /\ size \in Nat
      /\ f[k].locals \in Seq(Symbols) /\ Len(f[k].locals) \in Nat
  <2>1. f[k] \in Frames /\ g[k] \in Frames
    BY <1>3
  <2>2. f[k].size \in Nat /\ f[k].locals \in Seq(Symbols)
    BY <2>1 DEF Frames
  <2> QED
    BY <1>2, <2>1, <2>2
<1>5. jds = ids + IF f[k].kind = "script" THEN 0 ELSE 1
  BY <1>2 DEF SymbolsAfter
<1>6. jds \in Nat /\ ids <= jds
  BY <1>3, <1>5
<1>7. D[k] = C[k - 1] + size /\ D[k - 1] = C[k - 1]
  <2>1. C \in [Nat -> Nat]
    BY <1>3 DEF Placed
  <2>2. m \in Nat /\ m + 1 = k /\ k \in Nat /\ m # k /\ m = k - 1
    BY <1>2, <1>3
  <2>3. D = [C EXCEPT ![k] = C[m] + size]
    BY <1>2, <2>2
  <2>4. D[k] = C[m] + size /\ D[m] = C[m]
    BY <2>1, <2>2, <2>3
  <2> QED
    BY <2>2, <2>4
<1>8. ASSUME NEW i, Outer(g, i)
      PROVE  /\ Outer(f, i)
             /\ i \in 1 .. k
  <2>1. i \in 1 .. k /\ \A j \in 1 .. i : j \in 1 .. m \/ j = k
    BY <1>3, <1>8 DEF Outer
  <2>2. \A j \in 1 .. i : f[j].kind # "fn"
    BY <1>3, <1>8, <2>1 DEF Outer, SamePart, FrameLike, MoreLocals
  <2>3. i \in 1 .. Len(f)
    BY <1>3, <2>1
  <2> QED
    BY <2>1, <2>2, <2>3 DEF Outer
<1>9. ASSUME Outer(g, k)
      PROVE  PlacedAt(g, D, jds, q, k)
  <2>1. PlacedAt(f, C, ids, p, k) /\ Room(f[k])
    BY <1>3, <1>8, <1>9 DEF Placed
  <2>2. g[k].kind = f[k].kind /\ g[k].base = f[k].base /\ g[k].size = f[k].size /\ size = f[k].size
    BY <1>2, <1>3 DEF MoreLocals
  <2>3. D[k] = C[k]
    BY <1>7, <2>1, <2>2 DEF PlacedAt
  <2>4. \A j \in 1 .. k - 1 : Full(f, j) => Full(g, j)
    BY <1>3 DEF SamePart, FrameLike, Full
  <2>5. \A s \in ToSet(f[k].locals) : s.id < jds
    <3>1. ToSet(f[k].locals) \subseteq Symbols
      BY <1>4 DEF ToSet
    <3>2. \A s \in Symbols : s.id \in Nat
      BY DEF Symbols
    <3>3. \A s \in ToSet(f[k].locals) : s.id < ids
      BY <2>1 DEF PlacedAt
    <3> QED
      BY <1>3, <1>6, <3>1, <3>2, <3>3
  <2>6. Len(g[k].locals) <= size /\ \A s \in ToSet(g[k].locals) : s.id < jds
    <3>1. CASE f[k].kind = "script"
      BY <1>3, <2>1, <2>2, <2>5, <3>1 DEF MoreLocals, PlacedAt
    <3>2. CASE f[k].kind # "script"
      <4>1. PICK l, s : l = f[k].locals /\ s = NewSymbol(f[k])
        OBVIOUS
      <4>2. g[k].locals = Append(l, s) /\ l \in Seq(Symbols) /\ s \in Symbols
        BY <1>3, <3>2, <4>1 DEF MoreLocals
      <4>3. Len(l) < size /\ Len(l) \in Nat
        BY <1>4, <2>1, <2>2, <3>2, <4>1 DEF Room
      <4>4. Len(Append(l, s)) = Len(l) + 1
        BY <4>2, AppendProperties
      <4>5. \A t \in ToSet(Append(l, s)) : t \in ToSet(l) \/ t = s
        <5>1. PICK n : n = Len(l)
          OBVIOUS
        <5>2. n \in Nat /\ DOMAIN Append(l, s) = 1 .. n + 1
          BY <4>2, <5>1, AppendProperties
        <5>3. ASSUME NEW j \in 1 .. n + 1
              PROVE  Append(l, s)[j] = s \/ (j \in DOMAIN l /\ Append(l, s)[j] = l[j])
          <6>1. Append(l, s)[n + 1] = s /\ \A i \in 1 .. n : Append(l, s)[i] = l[i]
            BY <4>2, <5>1, AppendProperties
          <6>2. DOMAIN l = 1 .. n
            BY <4>2, <5>1
          <6>3. j \in 1 .. n \/ j = n + 1
            BY <5>2
          <6> QED
            BY <6>1, <6>2, <6>3
        <5> QED
          BY <5>2, <5>3 DEF ToSet
      <4>6. s.id < jds
        <5>1. s.id = ids
          BY <1>2, <4>1 DEF NewSymbol
        <5> QED
          BY <1>3, <1>5, <3>2, <5>1
      <4>7. \A t \in ToSet(Append(l, s)) : t.id < jds
        BY <2>5, <4>1, <4>5, <4>6
      <4>8. Len(Append(l, s)) <= size
        BY <1>4, <4>3, <4>4
      <4> QED
        BY <4>2, <4>7, <4>8
    <3> QED
      BY <3>1, <3>2
  <2> QED
    BY <1>3, <1>7, <2>1, <2>2, <2>3, <2>4, <2>6 DEF PlacedAt
<1>10. ASSUME g[k].kind = "fn", Outer(g, m)
       PROVE  Room(g[m])
  <2>1. Outer(f, m) /\ m \in 1 .. m
    <3>1. m \in 1 .. Len(g)
      BY <1>10 DEF Outer
    <3> QED
      BY <1>3, <1>8, <1>10, <3>1
  <2>2. f[m + 1].kind = "fn" /\ m + 1 <= Len(f)
    <3>1. f[k].kind = "fn"
      BY <1>3, <1>10 DEF MoreLocals
    <3>2. k = m + 1 /\ k <= Len(f)
      BY <1>3
    <3> QED
      BY <3>1, <3>2
  <2>3. Room(f[m])
    BY <1>3, <2>1, <2>2 DEF Placed
  <2>4. FrameLike(f[m], g[m])
    BY <1>3, <2>1 DEF SamePart
  <2> QED
    BY <2>3, <2>4 DEF Room, FrameLike
<1>11. TopPlaced(g, m, D, jds, q)
  BY <1>3, <1>9, <1>10 DEF TopPlaced
<1>12. Placed(g, D, jds, q)
  <2>1. D = [C EXCEPT ![m + 1] = C[m] + size] /\ Len(g) \in {m, m + 1}
    BY <1>2, <1>3
  <2> QED
    BY <1>3, <1>4, <1>6, <1>11, <2>1, PlacedNext
<1> QED
  BY <1>2, <1>12 DEF Placing

(* The next block of the script gets the slots behind those in use.        *)
LEMMA FreeSlotIs ==
  ASSUME Typed, NEW C, Placed(open, C, symbols, profile), NEW n, n = Len(open), Outer(open, n)
  PROVE  FreeSlot = C[n] /\ (AllDeclared => \A j \in 1 .. n : Full(open, j))
<1>1. /\ open \in Seq(Frames) /\ open # <<>> /\ open[1].kind = "script" /\ n \in Nat \ {0} /\ n \in Nat
      /\ \A i \in 1 .. n : open[i] \in Frames
      /\ \A i \in 2 .. n : open[i].kind # "script"
  BY TopIs, FrameOf DEF Typed, Framed
<1>2. PICK own : own = OwnOf(open)
  OBVIOUS
<1>3. PICK c \in 1 .. n : OwnFrom(open, own, c)
  BY <1>1, <1>2, OwnIs
<1>4. c = 1
  <2>1. open[c].kind \in {"script", "fn"}
    BY <1>3 DEF OwnFrom
  <2>2. open[c].kind # "fn"
    BY <1>3 DEF Outer
  <2>3. c = 1 \/ c \in 2 .. n
    BY <1>1, <1>3
  <2> QED
    BY <1>1, <2>1, <2>2, <2>3
<1>5. own \in Seq(Frames) /\ Len(own) = n /\ DOMAIN own = 1 .. n /\ \A j \in 1 .. n : own[j] = open[j]
  <2>1. own \in Seq(Frames) /\ Len(own) = n - c + 1 /\ \A j \in 1 .. n - c + 1 : own[j] = open[c + j - 1]
    BY <1>3 DEF OwnFrom
  <2>2. n - c + 1 = n /\ \A j \in 1 .. n : c + j - 1 = j
    BY <1>1, <1>4
  <2> QED
    BY <2>1, <2>2
<1>6. AllDeclared => \A j \in 1 .. n : Full(open, j)
  BY <1>2, <1>5 DEF AllDeclared, Own, Full
<1>7. PICK S, k : S = {i \in DOMAIN own : own[i].kind \in Lists} /\ k = CHOOSE i \in S : \A j \in S : j <= i
  OBVIOUS
<1>8. k \in S /\ \A j \in S : j <= k
  <2>1. 1 \in S /\ S \subseteq 0 .. n /\ S # {}
    BY <1>1, <1>5, <1>7 DEF Lists
  <2>2. \E i \in S : \A j \in S : j <= i
    BY <1>1, <2>1, GreatestExists
  <2> QED
    BY <1>7, <2>2
<1>9. k \in 1 .. n /\ open[k].kind \in Lists /\ k \in Nat /\ \A j \in k + 1 .. n : open[j].kind \notin Lists
  <2>1. k \in 1 .. n /\ open[k].kind \in Lists
    BY <1>5, <1>7, <1>8
  <2>2. ASSUME NEW j \in k + 1 .. n
        PROVE  open[j].kind \notin Lists
    <3>1. j \in 1 .. n /\ ~(j <= k)
      BY <1>1, <2>1
    <3>2. j \notin S
      BY <1>8, <3>1
    <3> QED
      BY <1>5, <1>7, <3>1, <3>2
  <2> QED
    BY <1>1, <2>1, <2>2
<1>10. FreeSlot = open[k].base + open[k].size
  <2>1. FreeSlot = own[k].base + own[k].size
    BY <1>2, <1>7 DEF FreeSlot, Own
  <2> QED
    BY <1>5, <1>9, <2>1
<1>11. C \in [Nat -> Nat] /\ \A i \in 1 .. n : PlacedAt(open, C, symbols, profile, i)
  <2>1. \A i \in 1 .. n : Outer(open, i)
    <3>1. ASSUME NEW i \in 1 .. n
          PROVE  Outer(open, i)
      <4>1. \A j \in 1 .. i : j \in 1 .. n
        BY <1>1
      <4> QED
        BY <4>1 DEF Outer
    <3> QED
      BY <3>1
  <2> QED
    BY <2>1 DEF Placed
<1>12. FreeSlot = C[k]
  BY <1>9, <1>10, <1>11 DEF PlacedAt
<1>13. C[n] = C[k]
  <2> DEFINE good == {i \in 0 .. n : i >= k => C[i] = C[k]}
  <2>1. 0 \in good
    BY <1>1, <1>9
  <2>2. ASSUME NEW i \in 1 .. n, i - 1 \in good
        PROVE  i \in good
    <3>1. CASE i <= k
      BY <1>9, <3>1
    <3>2. CASE ~(i <= k)
      <4>1. i \in k + 1 .. n /\ i - 1 >= k
        BY <1>9, <3>2
      <4>2. C[i - 1] = C[k]
        BY <2>2, <4>1
      <4>3. open[i].kind \notin Lists /\ "block" \in Lists
        BY <1>9, <4>1 DEF Lists
      <4>4. C[i] = C[i - 1] + open[i].size /\ open[i].size = 0
        BY <1>11, <4>3 DEF PlacedAt
      <4>5. C[i - 1] \in Nat
        <5>1. i - 1 \in Nat
          OBVIOUS
        <5> QED
          BY <1>11, <5>1
      <4>6. C[i] = C[k]
        BY <4>2, <4>4, <4>5
      <4>7. i \in 0 .. n
        BY <1>1
      <4> QED
        BY <4>6, <4>7
    <3> QED
      BY <3>1, <3>2
  <2> HIDE DEF good
  <2>3. \A i \in 0 .. n : i \in good
    BY <1>1, <2>1, <2>2, Upward
  <2>4. n \in good /\ n >= k
    BY <1>1, <1>9, <2>3
  <2> QED
    BY <2>4 DEF good
<1> QED
  BY <1>6, <1>12, <1>13

(* What the frame of a statement that begins asks for.                     *)
NewPlace(frame) ==
  /\ frame \in Frames /\ frame.locals = <<>> /\ Len(open) < profile.depth
  /\ frame.kind \in Branches \cup {"block", "fn"}
  /\ frame.kind = "fn" => Room(Top)
  /\ frame.kind = "block" => /\ frame.size <= profile.locals /\ frame.base = FreeSlot
                             /\ Orderly /\ frame.size > 0 => AllDeclared
  /\ frame.kind \in Branches => frame.size = 0

LEMMA PlacingPush ==
  ASSUME Typed, Placing, SameProgram, NEW frame, NewPlace(frame), open' = Append(open, frame),
         UNCHANGED symbols
  PROVE  Placing'
<1>1. PICK C : Placed(open, C, symbols, profile)
  BY DEF Placing
<1>2. PICK f, g, m, ids, p, q, size, D :
        /\ f = open /\ g = open' /\ m = Len(open) /\ ids = symbols
        /\ p = profile /\ q = profile' /\ size = frame.size /\ D = [C EXCEPT ![m + 1] = C[m] + size]
  OBVIOUS
<1>3. /\ f \in Seq(Frames) /\ f # <<>> /\ frame \in Frames /\ size \in Nat /\ frame.base \in Nat
      /\ ids \in Nat /\ q.depth = p.depth /\ q.locals = p.locals
      /\ p.depth \in Nat /\ p.locals \in Nat /\ m \in Nat \ {0} /\ m \in Nat
      /\ Placed(f, C, ids, p) /\ symbols' = ids /\ Len(f) = m /\ Top = f[m]
  <2>1. f \in Seq(Frames) /\ f # <<>> /\ ids \in Nat /\ p.depth \in Nat /\ p.locals \in Nat
    BY <1>2 DEF Typed, Framed, Programs
  <2>2. m \in Nat \ {0} /\ Top = f[m]
    BY <1>2, TopIs
  <2>3. frame \in Frames
    BY DEF NewPlace
  <2>4. size \in Nat /\ frame.base \in Nat
    BY <1>2, <2>3 DEF Frames
  <2> QED
    BY <1>1, <1>2, <2>1, <2>2, <2>3, <2>4 DEF SameProgram
<1>4. g \in Seq(Frames) /\ Len(g) = m + 1 /\ SamePart(f, g, m) /\ g[m + 1] = frame
  <2>1. g = Append(f, frame)
    BY <1>2
  <2>2. g \in Seq(Frames) /\ Len(g) = Len(f) + 1 /\ SamePart(f, g, Len(f)) /\ g[Len(f) + 1] = frame
    BY <1>3, <2>1, PushedPart
  <2> QED
    BY <1>3, <2>2
<1>5. D[m + 1] = C[m] + size /\ D[m] = C[m] /\ C[m] \in Nat
  <2>1. C \in [Nat -> Nat]
    BY <1>3 DEF Placed
  <2>2. m + 1 \in Nat /\ m # m + 1
    BY <1>3
  <2> QED
    BY <1>2, <1>3, <2>1, <2>2
<1>6. ASSUME Outer(g, m + 1)
      PROVE  PlacedAt(g, D, ids, q, m + 1)
  <2>1. Outer(f, m)
    <3>1. m \in 1 .. m /\ m <= m + 1 /\ m <= Len(f)
      BY <1>3
    <3> QED
      BY <1>3, <1>4, <1>6, <3>1, OuterBelow
  <2>2. frame.kind # "fn"
    <3>1. m + 1 \in 1 .. m + 1
      BY <1>3
    <3> QED
      BY <1>4, <1>6, <3>1 DEF Outer
  <2>3. PlacedAt(f, C, ids, p, m)
    BY <1>3, <2>1 DEF Placed
  <2>4. size <= p.locals /\ frame.base \in Nat /\ (frame.kind # "block" => size = 0)
    BY <1>2, <1>3, <2>2 DEF NewPlace
  <2>5. C[m] + size <= m * q.locals
    <3>1. PICK k : k = m - 1
      OBVIOUS
    <3>2. k \in Nat /\ m = k + 1
      BY <1>3, <3>1
    <3>3. C[m] <= k * p.locals
      BY <2>3, <3>1 DEF PlacedAt
    <3>4. (k + 1) * p.locals = k * p.locals + p.locals
      <4>1. PICK s : s = p.locals
        OBVIOUS
      <4>2. s \in Nat /\ k \in Nat /\ k <= k
        BY <1>3, <3>2, <4>1
      <4>3. (k + 1) * s = k * s + s
        BY <4>2, TimesMore
      <4> QED
        BY <4>1, <4>3
    <3>5. k * p.locals \in Nat
      BY <1>3, <3>2
    <3>6. C[m] + size <= (k + 1) * p.locals
      BY <1>3, <1>5, <2>4, <3>3, <3>4, <3>5
    <3> QED
      BY <1>3, <3>2, <3>6
  <2>6. FreeSlot = C[m] /\ (AllDeclared => \A j \in 1 .. m : Full(f, j))
    BY <1>2, <1>3, <2>1, FreeSlotIs
  <2>7. frame.kind \in Lists => frame.kind = "block"
    BY <2>2 DEF NewPlace, Lists, Branches
  <2>8. m + 1 <= q.depth
    BY <1>2, <1>3 DEF NewPlace
  <2>9. Orderly /\ size > 0 => \A j \in 1 .. m : Full(g, j)
    <3>1. Orderly /\ size > 0 => frame.kind = "block"
      BY <2>4
    <3>2. Orderly /\ size > 0 => \A j \in 1 .. m : Full(f, j)
      BY <1>2, <2>6, <3>1 DEF NewPlace
    <3>3. \A j \in 1 .. m : Full(f, j) => Full(g, j)
      BY <1>4 DEF SamePart, FrameLike, Full
    <3> QED
      BY <3>2, <3>3
  <2>10. frame.locals = <<>> /\ Len(frame.locals) <= size /\ \A s \in ToSet(frame.locals) : s.id < ids
    <3>1. frame.locals = <<>>
      BY DEF NewPlace
    <3>2. Len(<<>>) <= size /\ ToSet(<<>>) = {}
      BY <1>3 DEF ToSet
    <3> QED
      BY <3>1, <3>2
  <2>11. D[m + 1] = D[m] + g[m + 1].size /\ D[m + 1] <= m * q.locals
    BY <1>2, <1>4, <1>5, <2>5
  <2>12. g[m + 1].kind \in Lists => g[m + 1].base = D[m]
    BY <1>4, <1>5, <2>6, <2>7 DEF NewPlace
  <2>13. m + 1 - 1 = m
    BY <1>3
  <2> QED
    BY <1>2, <1>4, <2>4, <2>8, <2>9, <2>10, <2>11, <2>12, <2>13 DEF PlacedAt
<1>7. g[m + 1].kind = "fn" => Room(g[m])
  <2>1. g[m + 1].kind = "fn" => Room(f[m])
    BY <1>3, <1>4 DEF NewPlace
  <2>2. m \in 1 .. m
    BY <1>3
  <2>3. FrameLike(f[m], g[m])
    BY <1>4, <2>2 DEF SamePart
  <2> QED
    BY <2>1, <2>3 DEF Room, FrameLike
<1>8. TopPlaced(g, m, D, ids, q)
  BY <1>6, <1>7 DEF TopPlaced
<1>9. Placed(g, D, ids, q)
  <2>1. D = [C EXCEPT ![m + 1] = C[m] + size] /\ Len(g) \in {m, m + 1} /\ ids <= ids /\ m <= Len(f)
    BY <1>2, <1>3, <1>4
  <2> QED
    BY <1>3, <1>4, <1>8, <2>1, PlacedNext
<1> QED
  BY <1>2, <1>3, <1>9 DEF Placing

(* One branch takes the place of the other.                                *)
LEMMA PlacingBranch ==
  ASSUME Typed, Placing, SameProgram, Top.kind \in Branches, NEW frame \in Frames,
         frame.kind \in Branches, frame.size = 0, frame.locals = <<>>,
         open' = Append(Below, frame), UNCHANGED symbols
  PROVE  Placing'
<1>1. PICK C : Placed(open, C, symbols, profile)
  BY DEF Placing
<1>2. PICK f, g, n, m, ids, p, q, D :
        /\ f = open /\ g = open' /\ n = Len(open) /\ m = n - 1 /\ ids = symbols
        /\ p = profile /\ q = profile' /\ D = [C EXCEPT ![m + 1] = C[m] + 0]
  OBVIOUS
<1>3. /\ f \in Seq(Frames) /\ f # <<>> /\ f[1].kind = "script" /\ f[n].kind \in Branches
      /\ ids \in Nat /\ q.depth = p.depth /\ q.locals = p.locals
      /\ Placed(f, C, ids, p) /\ symbols' = ids /\ Len(f) = n
  <2>1. f \in Seq(Frames) /\ f # <<>> /\ ids \in Nat /\ f[1].kind = "script"
    BY <1>2 DEF Typed, Framed
  <2>2. Top = f[n]
    BY <1>2, TopIs
  <2> QED
    BY <1>1, <1>2, <2>1, <2>2 DEF SameProgram
<1>4. /\ g \in Seq(Frames) /\ Len(g) = m + 1 /\ SamePart(f, g, m) /\ g[m + 1] = frame
      /\ m \in Nat \ {0} /\ m \in Nat /\ n = m + 1
  <2>1. PICK h : h = Front(f)
    OBVIOUS
  <2>2. h \in Seq(Frames) /\ h # <<>> /\ Len(h) = n - 1 /\ n - 1 \in Nat \ {0} /\ SamePart(f, h, n - 1)
    BY <1>3, <2>1, FrontPart DEF Branches
  <2>3. g = Append(h, frame)
    BY <1>2, <2>1 DEF Below
  <2>4. g \in Seq(Frames) /\ Len(g) = Len(h) + 1 /\ SamePart(h, g, Len(h)) /\ g[Len(h) + 1] = frame
    <3>1. h \in Seq(Frames) /\ h # <<>>
      BY <2>2
    <3>2. g \in Seq(Frames) /\ Len(g) = Len(h) + 1
      BY <2>3, <3>1, PushedPart
    <3>3. SamePart(h, g, Len(h)) /\ g[Len(h) + 1] = frame
      BY <2>3, <3>1, PushedPart
    <3> QED
      BY <3>2, <3>3
  <2>5. m \in Nat \ {0} /\ m \in Nat /\ n = m + 1 /\ Len(h) = m
    <3>1. n - 1 \in Nat \ {0} /\ n \in Nat
      BY <1>3, <2>2
    <3> QED
      BY <1>2, <2>2, <3>1
  <2>6. SamePart(f, g, m)
    <3>1. SamePart(f, h, m) /\ SamePart(h, g, m) /\ m \in 0 .. m
      BY <1>2, <2>2, <2>4, <2>5
    <3> QED
      BY <2>5, <3>1, LikeTwice
  <2> QED
    BY <2>4, <2>5, <2>6
<1>5. D[m + 1] = C[m] /\ D[m] = C[m] /\ C[m] \in Nat
  <2>1. C \in [Nat -> Nat]
    BY <1>3 DEF Placed
  <2>2. m + 1 \in Nat /\ m # m + 1
    BY <1>4
  <2>3. C[m] \in Nat
    BY <1>4, <2>1
  <2> QED
    BY <1>2, <2>1, <2>2, <2>3
<1>6. ASSUME Outer(g, m + 1)
      PROVE  PlacedAt(g, D, ids, q, m + 1)
  <2>1. Outer(f, m + 1)
    <3>1. ASSUME NEW j \in 1 .. m + 1
          PROVE  f[j].kind # "fn"
      <4>1. j \in 1 .. m \/ j = m + 1
        BY <1>4
      <4>2. f[m + 1].kind # "fn"
        BY <1>3, <1>4 DEF Branches
      <4> QED
        BY <1>4, <1>6, <4>1, <4>2 DEF SamePart, FrameLike, Outer
    <3>2. m + 1 \in 1 .. Len(f)
      BY <1>3, <1>4
    <3> QED
      BY <3>1, <3>2 DEF Outer
  <2>2. PlacedAt(f, C, ids, p, m + 1)
    BY <1>3, <2>1 DEF Placed
  <2>3. C[m + 1] = C[m] + 0
    BY <1>3, <1>4, <2>2 DEF PlacedAt, Branches
  <2>4. frame.kind \notin Lists /\ frame.kind # "block"
    BY DEF Lists, Branches
  <2>5. Len(frame.locals) <= 0 /\ \A s \in ToSet(frame.locals) : s.id < ids
    <3>1. Len(<<>>) <= 0 /\ ToSet(<<>>) = {}
      BY DEF ToSet
    <3> QED
      BY <3>1
  <2>6. m + 1 - 1 = m
    BY <1>4
  <2>7. D[m + 1] = D[m] + g[m + 1].size /\ D[m + 1] <= m * q.locals /\ (m + 1 = 1 \/ m + 1 <= q.depth)
    <3>1. C[m] + 0 = C[m]
      BY <1>5
    <3>2. C[m + 1] <= m * p.locals /\ (m + 1 = 1 \/ m + 1 <= p.depth)
      <4>1. PICK i : i = m + 1
        OBVIOUS
      <4>2. C[i] <= (i - 1) * p.locals /\ (i = 1 \/ i <= p.depth)
        BY <2>2, <4>1 DEF PlacedAt
      <4>3. i - 1 = m
        BY <1>4, <4>1
      <4> QED
        BY <4>1, <4>2, <4>3
    <3> QED
      BY <1>3, <1>4, <1>5, <2>3, <3>1, <3>2
  <2>8. ~(g[m + 1].size > 0)
    BY <1>4
  <2> QED
    BY <1>4, <2>4, <2>5, <2>6, <2>7, <2>8 DEF PlacedAt
<1>7. TopPlaced(g, m, D, ids, q)
  BY <1>4, <1>6 DEF TopPlaced, Branches
<1>8. Placed(g, D, ids, q)
  <2>1. /\ D = [C EXCEPT ![m + 1] = C[m] + 0] /\ Len(g) \in {m, m + 1} /\ ids <= ids /\ m <= Len(f)
        /\ 0 \in Nat
    BY <1>2, <1>3, <1>4
  <2> QED
    BY <1>3, <1>4, <1>7, <2>1, PlacedNext
<1> QED
  BY <1>2, <1>3, <1>8 DEF Placing

(* Each action of the compiler.                                            *)
DonePlaces == open' \in Seq(Frames) /\ Len(open') <= Len(open) /\ SamePart(open, open', Len(open'))

LEMMA DonePart ==
  ASSUME Typed
  PROVE  \A statement \in Lasts : Done(statement) => DonePlaces
<1> SUFFICES ASSUME NEW statement \in Lasts, Done(statement)
             PROVE  DonePlaces
  OBVIOUS
<1>1. PICK f, g : f = open /\ g = open'
  OBVIOUS
<1>2. f \in Seq(Frames) /\ f # <<>> /\ g = Completed(f, statement) /\ Len(f) \in Nat
  BY <1>1, TopIs DEF Done
<1>3. g \in Seq(Frames) /\ Len(g) = Len(f) /\ SamePart(f, g, Len(f))
  BY <1>2, CompletedPart
<1> QED
  BY <1>1, <1>2, <1>3 DEF DonePlaces

LEMMA EndedPlaces ==
  ASSUME Typed, Top.kind # "script"
  PROVE  \A statement \in Lasts : open' = Completed(Below, statement) => DonePlaces
<1> SUFFICES ASSUME NEW statement \in Lasts, open' = Completed(Below, statement)
             PROVE  DonePlaces
  OBVIOUS
<1>1. PICK f, g : f = open /\ g = open'
  OBVIOUS
<1>2. /\ f \in Seq(Frames) /\ f # <<>> /\ f[1].kind = "script" /\ f[Len(f)].kind # "script"
      /\ g = Completed(Front(f), statement) /\ Len(f) \in Nat
  BY <1>1, TopIs DEF Typed, Framed, Below
<1>3. g \in Seq(Frames) /\ Len(g) = Len(f) - 1 /\ SamePart(f, g, Len(f) - 1)
  BY <1>2, EndedPart
<1>4. Len(g) <= Len(f)
  BY <1>2, <1>3
<1> QED
  BY <1>1, <1>3, <1>4 DEF DonePlaces

LEMMA SimplePlaces ==
  ASSUME Typed, Placing, Simple
  PROVE  Placing' /\ SameProgram
<1>1. Typed /\ symbols \in Nat /\ symbols <= symbols
  BY DEF Typed
<1>2. ASSUME SameProgram, DonePlaces, UNCHANGED symbols
      PROVE  Placing'
  BY <1>1, <1>2, PlacingSame DEF DonePlaces
<1>3. ASSUME NEW e \in Effects, ExprStmt(e) PROVE Placing' /\ SameProgram
  BY <1>2, <1>3, DonePart, ProgramStays DEF ExprStmt, Lasts
<1>4. ASSUME NEW e \in Printed, PrintStmt(e) PROVE Placing' /\ SameProgram
  BY <1>2, <1>4, DonePart, ProgramStays DEF PrintStmt, Lasts
<1>5. ASSUME NEW e \in Optional, Return(e) PROVE Placing' /\ SameProgram
  BY <1>2, <1>5, DonePart, ProgramStays DEF Return, Lasts
<1>6. ASSUME NEW e \in Optional, VarDecl(e) PROVE Placing' /\ SameProgram
  <2>1. CanDeclare("var") /\ open' = Declared(open) /\ symbols' = SymbolsAfter(Top)
    BY <1>6 DEF VarDecl
  <2>2. SameProgram /\ Room(Top)
    BY <2>1, ProgramStays DEF CanDeclare, Room
  <2>3. PICK f, g, k : f = open /\ g = open' /\ k = Len(open)
    OBVIOUS
  <2>4. f \in Seq(Frames) /\ f # <<>> /\ k \in Nat \ {0} /\ Top = f[k] /\ g = Declared(f) /\ k = Len(f)
    BY <2>1, <2>3, TopIs
  <2>5. /\ g \in Seq(Frames) /\ Len(g) = k /\ SamePart(f, g, k - 1) /\ MoreLocals(f[k], g[k])
        /\ k \in 1 .. Len(f)
    <3>1. g \in Seq(Frames) /\ Len(g) = Len(f)
      BY <1>1, <2>4, DeclaredPart
    <3>2. SamePart(f, g, Len(f) - 1) /\ MoreLocals(f[Len(f)], g[Len(f)])
      BY <1>1, <2>4, DeclaredPart
    <3> QED
      BY <2>4, <3>1, <3>2
  <2>6. Placing'
    BY <2>1, <2>2, <2>3, <2>4, <2>5, PlacingDeclared
  <2> QED
    BY <2>2, <2>6
<1> QED
  BY <1>3, <1>4, <1>5, <1>6 DEF Simple

LEMMA NestedPlaces ==
  ASSUME Typed, Placing, Nested
  PROVE  Placing' /\ SameProgram
<1>1. Typed /\ symbols \in Nat /\ symbols <= symbols /\ profile \in Programs
  BY DEF Typed
<1>2. ASSUME NEW n \in Sizes, Block(n) PROVE Placing' /\ SameProgram
  <2>1. PICK frame, base : base = FreeSlot /\ frame = [Frame("block") EXCEPT !.base = base, !.size = n]
    OBVIOUS
  <2>2. base \in Nat /\ n \in Nat /\ n <= profile.locals
    BY <1>1, <2>1, VisibleType DEF Sizes, Programs
  <2>3. Fresh(frame, "block")
    BY <2>1, <2>2, FreshFrame DEF Kinds, Lists
  <2>4. frame.base = base /\ frame.size = n
    BY <2>1 DEF Frame
  <2>5. CanNest("block") /\ (Orderly /\ n > 0 => AllDeclared) /\ open' = Append(open, frame)
        /\ UNCHANGED symbols
    BY <1>2, <2>1 DEF Block, Push
  <2>6. NewPlace(frame) /\ SameProgram
    BY <2>1, <2>2, <2>3, <2>4, <2>5, ProgramStays DEF CanNest, NewPlace, Fresh, Branches
  <2>7. Placing'
    BY <2>5, <2>6, PlacingPush
  <2> QED
    BY <2>6, <2>7
<1>3. ASSUME EndBlock PROVE Placing' /\ SameProgram
  <2>1. CanEnd({"block"}) /\ open' = Completed(Below, "block") /\ UNCHANGED symbols
    BY <1>3 DEF EndBlock
  <2>2. Top.kind # "script" /\ SameProgram
    BY <2>1, ProgramStays DEF CanEnd
  <2>3. DonePlaces
    BY <2>1, <2>2, EndedPlaces DEF Lasts
  <2>4. Placing'
    BY <1>1, <2>1, <2>2, <2>3, PlacingSame DEF DonePlaces
  <2> QED
    BY <2>2, <2>4
<1>4. ASSUME NEW arity \in 0 .. 1, NEW n \in Sizes, FnDecl(arity, n) PROVE Placing' /\ SameProgram
  <2>1. PICK frame : frame = [Frame("fn") EXCEPT !.base = arity, !.size = n]
    OBVIOUS
  <2>2. arity \in Nat /\ n \in Nat
    BY <1>1 DEF Sizes, Programs
  <2>3. Fresh(frame, "fn")
    BY <2>1, <2>2, FreshFrame DEF Kinds, Lists
  <2>4. CanDeclare("fun") /\ Len(open) < profile.depth /\ open' = Append(open, frame) /\ UNCHANGED symbols
    BY <1>4, <2>1 DEF FnDecl, Push
  <2>5. SameProgram /\ Room(Top)
    BY <2>4, ProgramStays DEF CanDeclare, Room
  <2>6. NewPlace(frame)
    BY <2>3, <2>4, <2>5 DEF NewPlace, Fresh, Branches
  <2>7. Placing'
    BY <2>4, <2>5, <2>6, PlacingPush
  <2> QED
    BY <2>5, <2>7
<1> QED
  BY <1>2, <1>3, <1>4 DEF Nested

LEMMA FunctionPlaces ==
  ASSUME Typed, Placing, NEW u \in Upvalues, EndFn(u)
  PROVE  Placing' /\ SameProgram
<1>1. CanEnd({"fn"}) /\ open' = Declared(Below) /\ symbols' = SymbolsAfter(Below[Len(Below)])
  BY DEF EndFn
<1>2. SameProgram /\ Top.kind = "fn" /\ symbols \in Nat
  BY <1>1, ProgramStays DEF CanEnd, Typed
<1>3. PICK f, h, g, k : f = open /\ h = Below /\ g = open' /\ k = Len(Below)
  OBVIOUS
<1>4. /\ f \in Seq(Frames) /\ f # <<>> /\ f[1].kind = "script" /\ f[Len(f)].kind = "fn" /\ Len(f) \in Nat
      /\ h = Front(f) /\ g = Declared(h)
  BY <1>1, <1>2, <1>3, TopIs DEF Typed, Framed, Below
<1>5. /\ h \in Seq(Frames) /\ h # <<>> /\ Len(h) = Len(f) - 1 /\ Len(f) - 1 \in Nat \ {0}
      /\ \A i \in 1 .. Len(f) - 1 : h[i] = f[i]
  BY <1>4, FrontPart
<1>6. k \in Nat \ {0} /\ Len(h) = k /\ Len(f) = k + 1 /\ k \in 1 .. Len(f) /\ h[k] = f[k] /\ k \in 1 .. k
      /\ \A i \in 1 .. k : h[i] = f[i]
  <2>1. k \in Nat \ {0} /\ Len(h) = k /\ Len(f) = k + 1
    BY <1>3, <1>4, <1>5
  <2> QED
    BY <1>5, <2>1
<1>7. g \in Seq(Frames) /\ Len(g) = k /\ SamePart(h, g, k - 1) /\ MoreLocals(h[k], g[k])
  <2>1. g \in Seq(Frames) /\ Len(g) = Len(h)
    BY <1>2, <1>4, <1>5, DeclaredPart
  <2>2. SamePart(h, g, Len(h) - 1) /\ MoreLocals(h[Len(h)], g[Len(h)])
    BY <1>2, <1>4, <1>5, DeclaredPart
  <2> QED
    BY <1>6, <2>1, <2>2
<1>8. SamePart(f, g, k - 1)
  <2>1. \A i \in 1 .. k - 1 : i \in 1 .. k /\ h[i] = f[i]
    BY <1>6
  <2> QED
    BY <1>7, <2>1 DEF SamePart
<1>9. Outer(f, k) => Room(f[k])
  <2>1. PICK C : Placed(f, C, symbols, profile)
    BY <1>3 DEF Placing
  <2>2. k + 1 <= Len(f) /\ f[k + 1].kind = "fn"
    BY <1>4, <1>6
  <2> QED
    BY <2>1, <2>2 DEF Placed
<1>10. symbols' = SymbolsAfter(f[k])
  BY <1>1, <1>3, <1>6
<1>11. Placing'
  BY <1>2, <1>3, <1>6, <1>7, <1>8, <1>9, <1>10, PlacingDeclared
<1> QED
  BY <1>2, <1>11

(* A frame that is on top after a step.                                    *)
LEMMA FrameOnTop ==
  ASSUME NEW f \in Seq(Frames), NEW frame, NEW g \in Seq(Frames), g = Append(f, frame)
  PROVE  frame \in Frames
<1>1. PICK S, n : S = Frames \cup {frame} /\ n = Len(f)
  OBVIOUS
<1>2. f \in Seq(S) /\ frame \in S /\ n \in Nat
  <2>1. Frames \subseteq S /\ frame \in S
    BY <1>1
  <2> QED
    BY <1>1, <2>1, SeqMonotonic
<1>3. Len(g) = n + 1 /\ g[n + 1] = frame
  BY <1>1, <1>2, AppendProperties
<1>4. n + 1 \in 1 .. Len(g)
  BY <1>2, <1>3
<1> QED
  BY <1>3, <1>4

LEMMA BranchPlaces ==
  ASSUME Typed, Placing, Typed', NEW kind \in {"then", "body"}, NEW frame,
         frame.kind = kind, frame.size = 0, frame.locals = <<>>,
         kind = "then" => CanNest("if"), kind = "body" => CanNest("while"),
         open' = Append(open, frame), UNCHANGED symbols
  PROVE  Placing' /\ SameProgram
<1>1. SameProgram /\ Len(open) < profile.depth
  BY ProgramStays DEF CanNest
<1>2. frame \in Frames
  <2>1. open \in Seq(Frames) /\ open' \in Seq(Frames)
    BY DEF Typed, Framed
  <2> QED
    BY <2>1, FrameOnTop
<1>3. NewPlace(frame)
  BY <1>1, <1>2 DEF NewPlace, Branches
<1> QED
  BY <1>1, <1>3, PlacingPush

LEMMA BranchesPlace ==
  ASSUME Typed, Placing, Typed', phase' = "compiling",
         \/ \E e : If(e) \/ While(e) \/ EndWhile(e)
         \/ Else \/ EndIf \/ Break \/ Skip
  PROVE  Placing' /\ SameProgram
<1>1. Typed /\ symbols \in Nat /\ symbols <= symbols
  BY DEF Typed
<1>2. ASSUME SameProgram, DonePlaces, UNCHANGED symbols
      PROVE  Placing'
  BY <1>1, <1>2, PlacingSame DEF DonePlaces
<1>3. ASSUME Break \/ Skip PROVE Placing' /\ SameProgram
  BY <1>2, <1>3, DonePart, ProgramStays DEF Break, Skip, AddJump, Lasts
<1>4. ASSUME EndIf PROVE Placing' /\ SameProgram
  <2>1. CanEnd({"then", "else"}) /\ open' = Completed(Below, "if") /\ UNCHANGED symbols
    BY <1>4 DEF EndIf
  <2>2. Top.kind # "script" /\ SameProgram
    BY <2>1, ProgramStays DEF CanEnd
  <2>3. DonePlaces
    BY <2>1, <2>2, EndedPlaces DEF Lasts
  <2> QED
    BY <1>2, <2>1, <2>2, <2>3
<1>5. ASSUME NEW e, EndWhile(e) PROVE Placing' /\ SameProgram
  <2>1. CanEnd({"body"}) /\ open' = Completed(Below, "while") /\ UNCHANGED symbols
    BY <1>5 DEF EndWhile
  <2>2. Top.kind # "script" /\ SameProgram
    BY <2>1, ProgramStays DEF CanEnd
  <2>3. DonePlaces
    BY <2>1, <2>2, EndedPlaces DEF Lasts
  <2> QED
    BY <1>2, <2>1, <2>2, <2>3
<1>6. ASSUME NEW e, If(e) PROVE Placing' /\ SameProgram
  <2>1. PICK frame, at : frame = [Frame("then") EXCEPT !.at = at] /\ open' = Append(open, frame)
    BY <1>6 DEF If, Push
  <2>2. frame.kind = "then" /\ frame.size = 0 /\ frame.locals = <<>>
    BY <2>1 DEF Frame
  <2>3. CanNest("if") /\ UNCHANGED symbols
    BY <1>6 DEF If
  <2> QED
    BY <2>1, <2>2, <2>3, BranchPlaces
<1>7. ASSUME NEW e, While(e) PROVE Placing' /\ SameProgram
  <2>1. PICK frame, at, start : /\ frame = [Frame("body") EXCEPT !.at = at, !.start = start]
                                /\ open' = Append(open, frame)
    BY <1>7 DEF While, Push
  <2>2. frame.kind = "body" /\ frame.size = 0 /\ frame.locals = <<>>
    BY <2>1 DEF Frame
  <2>3. CanNest("while") /\ UNCHANGED symbols
    BY <1>7 DEF While
  <2> QED
    BY <2>1, <2>2, <2>3, BranchPlaces
<1>8. ASSUME Else PROVE Placing' /\ SameProgram
  <2>1. CanEnd({"then"}) /\ UNCHANGED symbols
    BY <1>8 DEF Else
  <2>2. PICK frame : /\ open' = Append(Below, frame)
                     /\ frame.kind = "else" /\ frame.size = 0 /\ frame.locals = <<>>
    <3>1. PICK at : open' = Append(Below, [Frame("else") EXCEPT !.at = at])
      BY <1>8 DEF Else
    <3> QED
      BY <3>1 DEF Frame
  <2>3. Top.kind = "then" /\ SameProgram
    BY <2>1, ProgramStays DEF CanEnd
  <2>4. frame \in Frames
    <3>1. Below \in Seq(Frames) /\ open' \in Seq(Frames)
      <4>1. open \in Seq(Frames) /\ open # <<>> /\ open' \in Seq(Frames) /\ open[1].kind = "script"
        BY DEF Typed, Framed
      <4>2. open[Len(open)].kind # "script" /\ Below = Front(open)
        BY <2>3, TopIs DEF Below
      <4> QED
        BY <4>1, <4>2, FrontPart
    <3> QED
      BY <2>2, <3>1, FrameOnTop
  <2> QED
    BY <2>1, <2>2, <2>3, <2>4, PlacingBranch DEF Branches
<1> QED
  BY <1>3, <1>4, <1>5, <1>6, <1>7, <1>8

(* The resolver keeps to its slots, whatever is compiled.                  *)
LEMMA CompilePlaces ==
  ASSUME Typed, Placing, Chosen, Typed', Compile, phase' = "compiling"
  PROVE  Placing' /\ Chosen'
<1>1. Placing' /\ SameProgram
  BY SimplePlaces, NestedPlaces, FunctionPlaces, BranchesPlace DEF Compile
<1>2. Chosen'
  BY <1>1 DEF Chosen, SameProgram
<1> QED
  BY <1>1, <1>2

(* Nothing is placed in an empty script.                                   *)
LEMMA NothingPlaced ==
  ASSUME open = <<Frame("script")>>, profile \in Profiles, symbols \in Nat
  PROVE  Placing /\ Chosen
<1>1. /\ Len(open) = 1 /\ open[1].kind = "script" /\ open[1].locals = <<>> /\ open[1].base = 0
      /\ open[1].size = 0
  BY DEF Frame
<1>2. PICK C : C = [i \in Nat |-> 0]
  OBVIOUS
<1>3. C \in [Nat -> Nat] /\ C[0] = 0 /\ C[1] = 0
  BY <1>2
<1>4. PICK p : p = profile
  OBVIOUS
<1>5. p.locals \in Nat
  BY <1>4, CodegenAssumption
<1>6. PlacedAt(open, C, symbols, p, 1)
  <2>1. C[1] = C[1 - 1] + open[1].size /\ C[1] <= (1 - 1) * p.locals /\ open[1].base = C[1 - 1]
    BY <1>1, <1>3, <1>5
  <2>2. Len(<<>>) <= 0 /\ ToSet(<<>>) = {}
    BY DEF ToSet
  <2>3. ~(open[1].size > 0)
    BY <1>1
  <2> QED
    BY <1>1, <2>1, <2>2, <2>3 DEF PlacedAt
<1>7. \A i : Outer(open, i) => i = 1
  BY <1>1 DEF Outer
<1>8. Placed(open, C, symbols, p)
  <2>1. \A i : Outer(open, i) => PlacedAt(open, C, symbols, p, i)
    BY <1>6, <1>7
  <2>2. \A i : Outer(open, i) => ~(i + 1 <= Len(open))
    BY <1>1, <1>7
  <2> QED
    BY <1>3, <2>1, <2>2 DEF Placed
<1>9. Placing
  BY <1>4, <1>8 DEF Placing
<1>10. Chosen
  BY DEF Chosen
<1> QED
  BY <1>9, <1>10
-----------------------------------------------------------------------------
(* The machine keeps to the chart of the script that it runs.              *)

(* The array literals are whole, and the constants are told apart.         *)
Small == Arrayed /\ Len(chunk.constants) <= ByteSize

(* Every local of L is in its slot, with the value stored last.            *)
Keeping(L) == \A t \in L : /\ t.id \in DOMAIN held /\ t.slot \in DOMAIN cells
                            /\ cells[t.slot] = held[t.id]

(* An array without a gap, or another value.                               *)
Numbers(n) == [i \in 1 .. n |-> Number(i)]
Sane(v) == v[1] = "array" => v[3] = Numbers(v[2])

(* The cell of an array in progress, which has a[3] elements above it.     *)
Base(a) == top - 1 - a[3]
Partial(a) == /\ Base(a) >= 0 /\ cells[Base(a)] = <<"array", a[1], Numbers(a[2])>>
              /\ \A i \in 1 .. a[3] : cells[Base(a) + i] = Number(a[2] + i)
Filling(a) == /\ \A id \in DOMAIN held : Sane(held[id])
              /\ \A i \in DOMAIN cells : Sane(cells[i]) \/ (a # None /\ i = Base(a))
              /\ a # None => Partial(a)

(* What the machine has where the chart says x.                            *)
On(x) == /\ top \in Int /\ top <= StackBound /\ x.depth <= top
         /\ Tracked => Keeping(x.locals)
         /\ Small => Filling(x.array)

CoveredBy(d) == /\ Charts(chunk, d, {}) /\ \A p \in flow.points : Reached(chunk, d, p)
                /\ DOMAIN cells = 0 .. StackBound - 1
                /\ pc = Halted \/ (pc \in Begins(chunk) /\ On(d[pc]))
Covered == \E d : CoveredBy(d)

LEMMA ReturnAdds ==
  ASSUME NEW ch \in Chunks, NEW to, to = Emit(ch, "OP_RETURN", <<>>)
  PROVE  Adds(ch, to, "OP_RETURN")
<1>1. PICK op, none : op = "OP_RETURN" /\ none = <<>>
  OBVIOUS
<1>2. op \in DOMAIN Width /\ op # "OP_CLOSURE" /\ Width[op] = 0
  BY <1>1, Widths DEF Alone
<1>3. none \in Seq(Int) /\ Len(none) = 0
  BY <1>1
<1>4. Emitted(ch, to, op, none) /\ to \in Chunks /\ to.meaning = ch.meaning
  <2>1. to = Emit(ch, op, none)
    BY <1>1
  <2>2. Emitted(ch, to, op, none) /\ to.meaning = ch.meaning
    BY <1>2, <1>3, <2>1, EmitType
  <2> QED
    BY <2>2 DEF Emitted
<1>5. Fitting(op, none)
  BY <1>2, <1>3 DEF Fitting
<1>6. Remembers(ch, to)
  BY <1>4 DEF Remembers
<1>7. Adds(ch, to, op)
  BY <1>2, <1>3, <1>4, <1>5, <1>6, EmitAdds
<1> QED
  BY <1>1, <1>7

(* Nothing that is loaded is an array.                                     *)
LEMMA SanePlain ==
  /\ Sane(Nil) /\ Sane(Unknown) /\ \A n : Sane(Number(n)) /\ \A c \in Constants : Sane(c)
BY DEF Sane, Nil, Unknown, Number, Constants

LEMMA LoadCovers ==
  ASSUME IInv, Drawing, IsFlow(flow), Load,
         cells = [i \in 0 .. StackBound - 1 |-> Unknown], held = <<>>
  PROVE  Covered' /\ IsFlow(flow')
<1>1. /\ phase = "compiling" /\ Top.kind = "script" /\ flow' = Point(flow, Here)
      /\ pc' = 0 /\ top' \in 0 .. MaxLeft /\ cells' = cells /\ held' = held
  BY DEF Load, Finish, CanEnd
<1>2. PICK to : to = chunk'
  OBVIOUS
<1>3. to = Emit(chunk, "OP_RETURN", <<>>)
  BY <1>2 DEF Load, Finish
<1>4. Typed /\ chunk \in Chunks /\ Framed(enclosing, open)
  BY DEF IInv, Typed
<1>5. Len(open) = 1 /\ open[1].kind = "script"
  <2>1. Len(open) \in Nat \ {0} /\ Top = open[Len(open)]
    BY <1>4, TopIs
  <2>2. PICK n : n = Len(open)
    OBVIOUS
  <2>3. \A i \in 2 .. n : open[i].kind # "script"
    BY <1>4, <2>2 DEF Framed
  <2>4. n \in Nat \ {0} /\ n \notin 2 .. n
    BY <1>1, <2>1, <2>2, <2>3
  <2> QED
    BY <1>1, <2>1, <2>2, <2>4
<1>6. enclosing = <<>>
  <2>1. PICK k : Script(open, k)
    BY DEF Drawing
  <2>2. k \in Nat \ {0} /\ k <= Len(open) /\ (enclosing = <<>> <=> k = Len(open))
    BY <1>4, <2>1, WhereScript
  <2> QED
    BY <1>5, <2>2
<1>7. PICK d, B : ChartedBy(chunk, open, loops, 1, flow.points, d, B) /\ Reached(chunk, d, Here)
  BY <1>1, <1>5, <1>6, ScriptHere
<1>8. WaitingTo(open, loops, 1) = {}
  <2>1. HolesOf(open, loops, 1) = {}
    BY <1>5 DEF HolesOf, Branches
  <2>2. \A i \in 1 .. 1 : i = 1
    OBVIOUS
  <2> QED
    BY <2>1, <2>2 DEF WaitingTo
<1>9. Charts(chunk, d, {}) /\ \A p \in flow.points : Reached(chunk, d, p)
  BY <1>7, <1>8 DEF ChartedBy
<1>10. PICK b, W : b = d[Count(chunk)] /\ W = {}
  OBVIOUS
<1>11. b \in Shapes /\ W \in SUBSET Nat /\ W \cup W = {} /\ Charts(chunk, d, W)
  <2>1. d \in [Nat -> Shapes] /\ Count(chunk) \in Nat
    BY <1>4, <1>9, ChunkType DEF Charts
  <2> QED
    BY <1>9, <1>10, <2>1
<1>12. PICK dd : Charts(to, dd, {}) /\ Prolongs(chunk, to, d, dd)
  <2>1. Adds(chunk, to, "OP_RETURN")
    BY <1>3, <1>4, ReturnAdds
  <2>2. Follows(chunk, to, "OP_RETURN", d, b, W)
    BY <1>11 DEF Follows, Leaving, Jumps
  <2>3. Drawn(chunk, d, to, W \cup W, b)
    <3>1. PICK op : op = "OP_RETURN"
      OBVIOUS
    <3> QED
      BY <1>11, <2>1, <2>2, <3>1, EmitDraws
  <2>4. Drawn(chunk, d, to, {}, b)
    BY <1>11, <2>3
  <2> QED
    BY <2>4 DEF Drawn
<1>13. Leading(flow, flow', {Here})
  BY <1>1, PointAdds
<1>14. flow'.points = flow.points \cup {Here} /\ IsFlow(flow')
  BY <1>13 DEF Leading
<1>15. ASSUME NEW p \in flow'.points
       PROVE  Reached(to, dd, p)
  <2>1. Reached(chunk, d, p)
    BY <1>7, <1>9, <1>14
  <2> QED
    BY <1>9, <1>12, <2>1, ReachedKept
<1>16. PICK x : x = Shape(0, {}, None)
  OBVIOUS
<1>17. pc' \in Begins(to) /\ dd[pc'] = x /\ x.depth = 0 /\ x.locals = {} /\ x.array = None
  BY <1>1, <1>12, <1>16, ShapeParts DEF Charts, Whole
<1>18. On(x)'
  <2>1. top' \in Int /\ top' <= StackBound /\ x.depth <= top'
    BY <1>1, <1>17, CodeRunAssumption
  <2>2. Keeping(x.locals)'
    BY <1>17 DEF Keeping
  <2>3. \A i \in DOMAIN cells' : Sane(cells'[i])
    BY <1>1, SanePlain
  <2>4. DOMAIN held' = {}
    BY <1>1
  <2>5. Filling(x.array)'
    BY <1>17, <2>3, <2>4 DEF Filling
  <2> QED
    BY <2>1, <2>2, <2>5 DEF On
<1>19. DOMAIN cells' = 0 .. StackBound - 1
  BY <1>1
<1>20. On(dd[pc])'
  BY <1>17, <1>18
<1>21. CoveredBy(dd)'
  BY <1>2, <1>12, <1>15, <1>17, <1>19, <1>20 DEF CoveredBy
<1> QED
  BY <1>14, <1>21 DEF Covered

(* The instruction at pc, which leads from the shape x to the shape y when *)
(* the machine goes on behind it.                                          *)
Executing(op, d, x, y) ==
  /\ CoveredBy(d) /\ x = d[pc] /\ y = d[Following(chunk, pc)]
  /\ chunk \in Chunks /\ pc \in Ops(chunk) /\ pc \in Nat /\ OpAt(chunk, pc) = op
  /\ Instruction(chunk, pc) /\ Effect(chunk, pc) \in Int
  /\ Following(chunk, pc) \in Begins(chunk) /\ Passes(chunk, d, {}, pc)
  /\ d \in [Nat -> Shapes] /\ x \in Shapes /\ y \in Shapes
  /\ x.depth \in Nat /\ y.depth \in Nat /\ x.depth <= top /\ top \in Int /\ top <= StackBound
  /\ Tracked => Keeping(x.locals)
  /\ Small => Filling(x.array)
  /\ DOMAIN cells = 0 .. StackBound - 1

LEMMA Executed ==
  ASSUME NEW op, At(op), NEW d, CoveredBy(d)
  PROVE  \E x, y : Executing(op, d, x, y)
<1>1. pc \in 0 .. Count(chunk) - 1 /\ chunk.code[pc + 1] = [op |-> op]
  BY DEF At, Running
<1>2. chunk \in Chunks /\ Whole(chunk) /\ Count(chunk) \in Nat /\ d \in [Nat -> Shapes]
  BY ChunkType DEF CoveredBy, Charts
<1>3. pc \in Ops(chunk) /\ OpAt(chunk, pc) = op
  BY <1>1 DEF Ops, OpAt, IsOp
<1>4. Passes(chunk, d, {}, pc)
  BY <1>3 DEF CoveredBy, Charts
<1>5. pc # Halted /\ pc \in Nat
  BY <1>1, <1>2 DEF Halted
<1>6. Following(chunk, pc) \in Begins(chunk)
  BY <1>2, <1>3 DEF Whole
<1>7. Instruction(chunk, pc) /\ Effect(chunk, pc) \in Int
  BY <1>2, <1>3, InstructionIs, EffectIs
<1>8. PICK x, y : x = d[pc] /\ y = d[Following(chunk, pc)]
  OBVIOUS
<1>9. x \in Shapes /\ y \in Shapes /\ x.depth \in Nat /\ y.depth \in Nat
  <2>1. Following(chunk, pc) \in Nat
    BY <1>7 DEF Instruction
  <2>2. x \in Shapes /\ y \in Shapes
    BY <1>2, <1>5, <1>8, <2>1
  <2> QED
    BY <2>2, ShapesAre
<1>10. On(x) /\ DOMAIN cells = 0 .. StackBound - 1
  BY <1>5, <1>8 DEF CoveredBy
<1>11. Executing(op, d, x, y)
  BY <1>2, <1>3, <1>4, <1>5, <1>6, <1>7, <1>8, <1>9, <1>10 DEF Executing, On
<1> QED
  BY <1>11

LEMMA Continues ==
  ASSUME NEW op, NEW d, NEW x, NEW y, Executing(op, d, x, y),
         UNCHANGED <<chunk, flow>>, DOMAIN cells' = DOMAIN cells,
         pc' = Following(chunk, pc), On(y)'
  PROVE  Covered'
<1>1. CoveredBy(d) /\ Following(chunk, pc) \in Begins(chunk) /\ y = d[Following(chunk, pc)]
      /\ DOMAIN cells = 0 .. StackBound - 1
  BY DEF Executing
<1>2. pc' \in Begins(chunk') /\ y = d[pc']
  BY <1>1
<1>3. Charts(chunk', d, {}) /\ \A p \in flow'.points : Reached(chunk', d, p)
  BY <1>1 DEF CoveredBy
<1>4. DOMAIN cells' = 0 .. StackBound - 1
  BY <1>1
<1>5. On(d[pc])'
  BY <1>2
<1>6. CoveredBy(d)'
  BY <1>2, <1>3, <1>4, <1>5 DEF CoveredBy
<1> QED
  BY <1>6 DEF Covered

(* Where less is asked for, nothing has to change.                         *)
LEMMA OnLess ==
  ASSUME NEW x, NEW y, x \in Shapes, y \in Shapes, Under(y, x), On(x),
         UNCHANGED <<chunk, cells, top, held>>
  PROVE  On(y)'
<1>1. x.depth \in Nat /\ y.depth \in Nat /\ y.depth <= x.depth /\ y.locals \subseteq x.locals
      /\ y.array = x.array
  BY ShapesAre DEF Under
<1>2. top' \in Int /\ top' <= StackBound /\ y.depth <= top'
  <2>1. top \in Int /\ top <= StackBound /\ x.depth <= top /\ top' = top
    BY DEF On
  <2> QED
    BY <1>1, <2>1
<1>3. ASSUME Tracked
      PROVE  Keeping(y.locals)'
  BY <1>1, <1>3 DEF On, Keeping
<1>4. ASSUME Small'
      PROVE  Filling(y.array)'
  <2>1. Filling(x.array)
    BY <1>4 DEF Small, On
  <2>2. Filling(y.array)
    BY <1>1, <2>1
  <2> QED
    BY <2>2 DEF Filling, Partial, Base
<1> QED
  BY <1>2, <1>3, <1>4 DEF On

LEMMA Leaps ==
  ASSUME Covered, NEW op \in Jumps, At(op), UNCHANGED <<chunk, flow, cells, top, held>>,
         pc' = Target(chunk, pc)
  PROVE  Covered'
<1>1. PICK d : CoveredBy(d)
  BY DEF Covered
<1>2. PICK x, y : Executing(op, d, x, y)
  BY <1>1, Executed
<1>3. PICK o, z : o = Target(chunk, pc) /\ z = d[o]
  OBVIOUS
<1>4. o \in Begins(chunk) /\ Under(z, x) /\ chunk \in Chunks /\ x \in Shapes
  BY <1>2, <1>3 DEF Passes, Executing
<1>5. z \in Shapes
  <2>1. o \in Nat
    BY <1>4, ChunkType DEF Begins, Ops
  <2> QED
    BY <1>2, <1>3, <2>1 DEF Executing
<1>6. On(x)
  BY <1>2 DEF Executing, On
<1>7. On(z)'
  BY <1>4, <1>5, <1>6, OnLess
<1>8. pc' \in Begins(chunk') /\ z = d[pc']
  BY <1>3, <1>4
<1>9. On(d[pc])'
  BY <1>7, <1>8
<1>10. CoveredBy(d)'
  <2>1. /\ Charts(chunk', d, {}) /\ \A p \in flow'.points : Reached(chunk', d, p)
        /\ DOMAIN cells' = 0 .. StackBound - 1
    BY <1>1 DEF CoveredBy
  <2> QED
    BY <1>8, <1>9, <2>1 DEF CoveredBy
<1> QED
  BY <1>10 DEF Covered

LEMMA Halts ==
  ASSUME Covered, UNCHANGED <<chunk, flow, cells>>, pc' = Halted
  PROVE  Covered'
<1>1. PICK d : CoveredBy(d)
  BY DEF Covered
<1>2. /\ Charts(chunk', d, {}) /\ \A p \in flow'.points : Reached(chunk', d, p)
      /\ DOMAIN cells' = 0 .. StackBound - 1
  BY <1>1 DEF CoveredBy
<1>3. CoveredBy(d)'
  BY <1>2 DEF CoveredBy
<1> QED
  BY <1>3 DEF Covered

-----------------------------------------------------------------------------
(* What the instructions do to the locals, and to the array in progress.   *)

(* A value is written where the instruction says.                          *)
Writes(e, v) == /\ cells' = [cells EXCEPT ![top + e - 1] = v]
                /\ top' = top + e /\ top' <= StackBound /\ held' = held

LEMMA OtherCell ==
  ASSUME NEW f, NEW w, NEW v, NEW g, g = [f EXCEPT ![w] = v]
  PROVE  /\ DOMAIN g = DOMAIN f /\ \A i \in DOMAIN f : i # w => g[i] = f[i]
         /\ w \in DOMAIN f => g[w] = v
OBVIOUS

(* What is written over no local leaves them.                              *)
LEMMA WriteKeeps ==
  ASSUME NEW op, NEW d, NEW x, NEW y, Executing(op, d, x, y), op \in Writing,
         NEW e, e = Effect(chunk, pc), NEW v, Writes(e, v)
  PROVE  /\ top' \in Int /\ top' <= StackBound /\ y.depth <= top'
         /\ Tracked => Keeping(y.locals)'
         /\ DOMAIN cells' = DOMAIN cells
<1>1. Leads(chunk, pc, x, y) /\ OpAt(chunk, pc) = op /\ e \in Int
  BY DEF Executing, Passes, Writing, Pushing, Leaving
<1>2. /\ x.depth \in Nat /\ y.depth \in Nat /\ x.depth <= top /\ top \in Int
      /\ y.locals \in SUBSET Symbols
  BY ShapesAre DEF Executing
<1>3. y.depth <= x.depth + e
  BY <1>1 DEF Leads
<1>4. top' \in Int /\ top' <= StackBound /\ y.depth <= top'
  BY <1>1, <1>2, <1>3 DEF Writes
<1>5. ASSUME Tracked, NEW t \in y.locals
      PROVE  t.id \in DOMAIN held' /\ t.slot \in DOMAIN cells' /\ cells'[t.slot] = held'[t.id]
  <2>1. t \in x.locals /\ t.slot < x.depth + e - 1
    BY <1>1, <1>5 DEF Leads, KeepsLocals, Writing, Pushing, Clear
  <2>2. t.id \in DOMAIN held /\ t.slot \in DOMAIN cells /\ cells[t.slot] = held[t.id]
    BY <1>5, <2>1 DEF Executing, Keeping
  <2>3. t.slot \in Nat
    BY <1>2 DEF Symbols
  <2>4. t.slot # top + e - 1
    BY <1>1, <1>2, <2>1, <2>3
  <2>5. DOMAIN cells' = DOMAIN cells /\ cells'[t.slot] = cells[t.slot]
    BY <2>2, <2>4, OtherCell DEF Writes
  <2> QED
    BY <2>2, <2>5 DEF Writes
<1>6. Tracked => Keeping(y.locals)'
  BY <1>5 DEF Keeping
<1> QED
  BY <1>4, <1>6 DEF Writes

LEMMA Written ==
  ASSUME NEW op, NEW d, NEW x, NEW y, Executing(op, d, x, y), op \in Writing,
         NEW e, e = Effect(chunk, pc), NEW v, Writes(e, v), Small => Filling(y.array)',
         UNCHANGED <<chunk, flow>>, pc' = Following(chunk, pc)
  PROVE  Covered'
<1>1. /\ top' \in Int /\ top' <= StackBound /\ y.depth <= top'
      /\ Tracked => Keeping(y.locals)'
      /\ DOMAIN cells' = DOMAIN cells
  BY WriteKeeps
<1>2. Small' => Small
  BY DEF Small
<1>3. On(y)'
  BY <1>1, <1>2 DEF On
<1> QED
  BY <1>1, <1>3, Continues

(* Outside of array literals nothing is incomplete.                        *)
LEMMA PlainFills ==
  ASSUME Filling(None), NEW e, NEW v, Sane(v), Writes(e, v)
  PROVE  Filling(None)'
<1>1. /\ \A id \in DOMAIN held : Sane(held[id])
      /\ \A i \in DOMAIN cells : Sane(cells[i])
  BY DEF Filling
<1>2. PICK w : w = top + e - 1
  OBVIOUS
<1>3. cells' = [cells EXCEPT ![w] = v] /\ held' = held
  BY <1>2 DEF Writes
<1>4. DOMAIN cells' = DOMAIN cells
  BY <1>3
<1>5. ASSUME NEW i \in DOMAIN cells
      PROVE  Sane(cells'[i])
  <2>1. CASE i = w
    BY <1>3, <2>1, OtherCell
  <2>2. CASE i # w
    BY <1>1, <1>3, <2>2, OtherCell
  <2> QED
    BY <2>1, <2>2
<1>6. \A i \in DOMAIN cells' : Sane(cells'[i])
  BY <1>4, <1>5
<1>7. \A id \in DOMAIN held' : Sane(held'[id])
  BY <1>1, <1>3
<1> QED
  BY <1>6, <1>7 DEF Filling

LEMMA PlainWritten ==
  ASSUME NEW op, NEW d, NEW x, NEW y, Executing(op, d, x, y), op \in Writing,
         op \notin {"OP_CONST", "OP_ARR", "OP_COLLECT"},
         NEW e, e = Effect(chunk, pc), NEW v, Writes(e, v), Small => Sane(v),
         UNCHANGED <<chunk, flow>>, pc' = Following(chunk, pc)
  PROVE  Covered'
<1>1. ASSUME Small
      PROVE  Filling(y.array)'
  <2>1. Leads(chunk, pc, x, y) /\ OpAt(chunk, pc) = op
    BY DEF Executing, Passes, Writing, Pushing, Leaving
  <2>2. x.array = None /\ y.array = None
    BY <1>1, <2>1 DEF Leads, FillsArray, Small
  <2>3. Filling(None)
    BY <1>1, <2>2 DEF Executing
  <2>4. Filling(None)'
    BY <1>1, <2>3, PlainFills
  <2> QED
    BY <2>2, <2>4
<1> QED
  BY <1>1, Written

(* The stack gets shorter, and keeps what it has.                          *)
LEMMA Dropped ==
  ASSUME NEW op, NEW d, NEW x, NEW y, Executing(op, d, x, y),
         op \notin Writing \cup Leaving \cup {"OP_STORE_LOC"},
         NEW e \in Int, e = Effect(chunk, pc), e <= 0,
         UNCHANGED <<chunk, flow, cells, held>>, top' = top + e, pc' = Following(chunk, pc)
  PROVE  Covered'
<1>1. Leads(chunk, pc, x, y) /\ OpAt(chunk, pc) = op
  BY DEF Executing, Passes
<1>2. top' \in Int /\ top' <= StackBound /\ y.depth <= top'
  <2>1. y.depth <= x.depth + e
    BY <1>1 DEF Leads
  <2> QED
    BY <2>1, CodeRunAssumption DEF Executing
<1>3. ASSUME Tracked
      PROVE  Keeping(y.locals)'
  <2>1. y.locals \subseteq x.locals
    BY <1>1 DEF Leads, KeepsLocals
  <2> QED
    BY <1>3, <2>1 DEF Executing, Keeping
<1>4. ASSUME Small'
      PROVE  Filling(y.array)'
  <2>1. Small /\ Filling(x.array)
    BY <1>4 DEF Small, Executing
  <2>2. x.array = None /\ y.array = None
    BY <1>1, <2>1 DEF Leads, FillsArray, Small, Writing, Pushing
  <2>3. Filling(None)
    BY <2>1, <2>2
  <2>4. Filling(None)'
    BY <2>3 DEF Filling
  <2> QED
    BY <2>2, <2>4
<1>5. On(y)'
  BY <1>2, <1>3, <1>4 DEF On
<1> QED
  BY <1>5, Continues

(* The constant that is loaded.                                            *)
LEMMA Loaded ==
  ASSUME NEW op \in {"OP_CONST", "OP_CLOSURE"}, NEW d, NEW x, NEW y, Executing(op, d, x, y),
         Small, Denotes(chunk), NEW v, v = chunk.constants[Operand(1) + 1]
  PROVE  /\ Sane(v)
         /\ x.array # None => v = Number(x.array[2] + x.array[3] + 1)
<1>1. Leads(chunk, pc, x, y) /\ OpAt(chunk, pc) = op
  BY DEF Executing, Passes, Leaving
<1>2. PICK c \in Constants : /\ Marks(chunk, pc, c)
                             /\ x.array # None => c = Number(x.array[2] + x.array[3] + 1)
  BY <1>1 DEF Leads, FillsArray, Small
<1>3. PICK m : m = <<pc, c>>
  OBVIOUS
<1>4. m \in chunk.meaning /\ m[1] = pc /\ m[2] = c
  BY <1>2, <1>3 DEF Marks, MeaningAt
<1>5. m[2][1] # "local"
  BY <1>4 DEF Constants
<1>6. chunk.constants[ByteAt(chunk, pc + 1) + 1] = c
  BY <1>4, <1>5 DEF Denotes
<1> QED
  BY <1>2, <1>6, SanePlain DEF Operand

(* The next number of an array literal stands above those before it.       *)
LEMMA ElementFills ==
  ASSUME top \in Nat, top < StackBound, DOMAIN cells = 0 .. StackBound - 1,
         NEW n \in Nat, NEW f \in Nat, NEW j \in Nat, NEW a, a = <<n, f, j>>, a # None,
         Filling(a), NEW b, b = <<n, f, j + 1>>, NEW v, v = Number(f + j + 1), Writes(1, v)
  PROVE  Filling(b)'
<1>1. PICK w : w = top - 1 - j
  OBVIOUS
<1>2. w \in Int /\ w < top /\ Base(a) = w /\ a[1] = n /\ a[2] = f /\ a[3] = j
  BY <1>1 DEF Base
<1>3. w >= 0 /\ cells[w] = <<"array", n, Numbers(f)>> /\ \A i \in 1 .. j : cells[w + i] = Number(f + i)
  BY <1>2 DEF Filling, Partial
<1>4. /\ \A id \in DOMAIN held : Sane(held[id])
      /\ \A i \in DOMAIN cells : Sane(cells[i]) \/ i = w
  BY <1>2 DEF Filling
<1>5. top + 1 - 1 = top /\ top \in DOMAIN cells
  BY CodeRunAssumption
<1>6. /\ DOMAIN cells' = DOMAIN cells /\ cells'[top] = v
      /\ \A i \in DOMAIN cells : i # top => cells'[i] = cells[i]
      /\ top' = top + 1 /\ held' = held
  <2>1. cells' = [cells EXCEPT ![top] = v] /\ top' = top + 1 /\ held' = held
    BY <1>5 DEF Writes
  <2> QED
    BY <1>5, <2>1, OtherCell
<1>7. b[1] = n /\ b[2] = f /\ b[3] = j + 1 /\ Base(b)' = w
  BY <1>1, <1>6 DEF Base
<1>8. ASSUME NEW i \in DOMAIN cells'
      PROVE  Sane(cells'[i]) \/ i = w
  <2>1. CASE i = top
    BY <1>6, <2>1, SanePlain
  <2>2. CASE i # top
    BY <1>4, <1>6, <2>2
  <2> QED
    BY <2>1, <2>2
<1>9. cells'[w] = cells[w]
  <2>1. w \in DOMAIN cells /\ w # top
    BY <1>2, <1>3, CodeRunAssumption
  <2> QED
    BY <1>6, <2>1
<1>10. ASSUME NEW i \in 1 .. j + 1
       PROVE  cells'[w + i] = Number(f + i)
  <2>1. CASE i = j + 1
    <3>1. w + i = top /\ f + i = f + j + 1
      BY <1>1, <2>1
    <3> QED
      BY <1>6, <3>1
  <2>2. CASE i # j + 1
    <3>1. i \in 1 .. j /\ w + i \in DOMAIN cells /\ w + i # top
      BY <1>1, <1>3, <2>2, CodeRunAssumption
    <3> QED
      BY <1>3, <1>6, <3>1
  <2> QED
    BY <2>1, <2>2
<1>11. Partial(b)'
  BY <1>3, <1>7, <1>9, <1>10 DEF Partial
<1>12. b # None
  BY <1>7 DEF None
<1>13. \A id \in DOMAIN held' : Sane(held'[id])
  BY <1>4, <1>6
<1>14. \A i \in DOMAIN cells' : Sane(cells'[i]) \/ (b # None /\ i = Base(b)')
  BY <1>7, <1>8, <1>12
<1> QED
  BY <1>11, <1>13, <1>14 DEF Filling

LEMMA ConstantCovers ==
  ASSUME NEW op \in {"OP_CONST", "OP_CLOSURE"}, At(op), NEW d, NEW x, NEW y, Executing(op, d, x, y),
         Small => Denotes(chunk), UNCHANGED <<chunk, flow>>,
         NEW v, v = chunk.constants[Operand(1) + 1], Writes(1, v), pc' = Following(chunk, pc)
  PROVE  Covered'
<1>1. OpAt(chunk, pc) = op /\ op \in Writing /\ 1 = Effect(chunk, pc)
  BY DEF Executing, Writing, Pushing, Effect
<1>2. CASE op = "OP_CLOSURE"
  <2>1. Small => Sane(v)
    BY Loaded
  <2>2. op \notin {"OP_CONST", "OP_ARR", "OP_COLLECT"}
    BY <1>2
  <2> QED
    BY <1>1, <2>1, <2>2, PlainWritten
<1>3. ASSUME op = "OP_CONST", Small
      PROVE  Filling(y.array)'
  <2>1. Sane(v) /\ (x.array # None => v = Number(x.array[2] + x.array[3] + 1))
    BY <1>3, Loaded
  <2>2. y.array = IF x.array = None THEN None ELSE <<x.array[1], x.array[2], x.array[3] + 1>>
    BY <1>1, <1>3 DEF Executing, Passes, Leads, FillsArray, Small, Leaving
  <2>3. Filling(x.array)
    BY <1>3 DEF Executing
  <2>4. CASE x.array = None
    <3>1. Filling(None)
      BY <2>3, <2>4
    <3>2. Filling(None)'
      BY <2>1, <3>1, PlainFills
    <3> QED
      BY <2>2, <2>4, <3>2
  <2>5. CASE x.array # None
    <3>1. PICK a, n, f, j : a = x.array /\ n = a[1] /\ f = a[2] /\ j = a[3]
      OBVIOUS
    <3>2. n \in Nat /\ f \in Nat /\ j \in Nat /\ a = <<n, f, j>>
      <4>1. a \in Progress
        BY <3>1, ShapesAre DEF Executing
      <4> QED
        BY <3>1, <4>1 DEF Progress
    <3>3. PICK b : b = y.array
      OBVIOUS
    <3>4. a # None /\ Filling(a) /\ b = <<n, f, j + 1>> /\ v = Number(f + j + 1)
      BY <2>1, <2>2, <2>3, <2>5, <3>1, <3>3
    <3>5. top \in Nat /\ top < StackBound /\ DOMAIN cells = 0 .. StackBound - 1
      BY CodeRunAssumption DEF Executing, Writes
    <3>6. Filling(b)'
      BY <3>2, <3>4, <3>5, ElementFills
    <3> QED
      BY <3>3, <3>6
  <2> QED
    BY <2>4, <2>5
<1>4. CASE op = "OP_CONST"
  BY <1>1, <1>3, <1>4, Written
<1> QED
  BY <1>2, <1>4

LEMMA NoNumbers == Numbers(0) = <<>>
<1>1. [i \in 1 .. 0 |-> Number(i)] = <<>>
  OBVIOUS
<1> QED
  BY <1>1 DEF Numbers

(* An array literal begins without an element.                             *)
LEMMA MakeArrayCovers ==
  ASSUME NEW op, op = "OP_ARR", At(op), NEW d, NEW x, NEW y, Executing(op, d, x, y),
         UNCHANGED <<chunk, flow>>,
         NEW v, v = <<"array", Operand(1), <<>> >>, Writes(1, v), pc' = Following(chunk, pc)
  PROVE  Covered'
<1>1. OpAt(chunk, pc) = op /\ op \in Writing /\ 1 = Effect(chunk, pc)
  BY DEF Executing, Writing, Pushing, Effect
<1>2. PICK n : n = Operand(1)
  OBVIOUS
<1>3. n \in Nat
  <2>1. OperandsAt(chunk, pc) = 1
    BY <1>1, WidthOf DEF Executing, CoveredBy, Charts
  <2>2. pc + 1 \in pc + 1 .. Following(chunk, pc) - 1
    BY <2>1 DEF Executing, Instruction
  <2>3. chunk.code[pc + 1 + 1] \in ByteCells
    BY <2>2 DEF Executing, Instruction
  <2> QED
    BY <1>2, <2>3, CellKinds, CodegenAssumption DEF Operand, ByteAt
<1>4. top \in Nat /\ top < StackBound /\ DOMAIN cells = 0 .. StackBound - 1
  BY CodeRunAssumption DEF Executing, Writes
<1>5. ASSUME Small
      PROVE  Filling(y.array)'
  <2>1. x.array = None /\ y.array = Building(n, 0, 0)
    BY <1>1, <1>2, <1>5 DEF Executing, Passes, Leads, FillsArray, Small, Leaving, Operand
  <2>2. Filling(None)
    BY <1>5, <2>1 DEF Executing
  <2>3. CASE n = 0
    <3>1. y.array = None
      BY <1>3, <2>1, <2>3 DEF Building
    <3>2. Sane(v)
      BY <1>2, <2>3, NoNumbers DEF Sane
    <3>3. Filling(None)'
      BY <2>2, <3>2, PlainFills
    <3> QED
      BY <3>1, <3>3
  <2>4. CASE n # 0
    <3>1. PICK a : a = y.array
      OBVIOUS
    <3>2. a = <<n, 0, 0>>
      BY <1>3, <1>5, <2>1, <2>4, <3>1 DEF Building, Small
    <3>3. a[1] = n /\ a[2] = 0 /\ a[3] = 0 /\ a # None
      BY <2>4, <3>2 DEF None
    <3>4. /\ DOMAIN cells' = DOMAIN cells /\ cells'[top] = v
          /\ \A i \in DOMAIN cells : i # top => cells'[i] = cells[i]
          /\ top' = top + 1 /\ held' = held
      <4>1. top + 1 - 1 = top /\ top \in DOMAIN cells
        BY <1>4, CodeRunAssumption
      <4>2. cells' = [cells EXCEPT ![top] = v] /\ top' = top + 1 /\ held' = held
        BY <4>1 DEF Writes
      <4> QED
        BY <4>1, <4>2, OtherCell
    <3>5. Base(a)' = top
      BY <1>4, <3>3, <3>4 DEF Base
    <3>6. \A i \in 1 .. 0 : FALSE
      OBVIOUS
    <3>7. cells'[top] = <<"array", n, Numbers(0)>>
      BY <1>2, <3>4, NoNumbers
    <3>8. Partial(a)'
      BY <1>4, <3>3, <3>5, <3>6, <3>7 DEF Partial
    <3>9. /\ \A i \in DOMAIN cells : Sane(cells[i])
          /\ \A id \in DOMAIN held' : Sane(held'[id])
      BY <2>2, <3>4 DEF Filling
    <3>10. \A i \in DOMAIN cells' : Sane(cells'[i]) \/ (a # None /\ i = Base(a)')
      BY <3>3, <3>4, <3>5, <3>9
    <3>11. Filling(a)'
      BY <3>8, <3>9, <3>10 DEF Filling
    <3> QED
      BY <3>1, <3>11
  <2> QED
    BY <2>3, <2>4
<1> QED
  BY <1>1, <1>5, Written

(* A batch goes on where the one before it ended.                          *)
LEMMA BatchFills ==
  ASSUME NEW f \in Nat, NEW j \in Nat, NEW part,
         part = [i \in {f + k : k \in 1 .. j} |-> Number(i)]
  PROVE  Overwritten(Numbers(f), part) = Numbers(f + j)
<1>1. PICK D : D = {f + k : k \in 1 .. j}
  OBVIOUS
<1>2. 1 .. f \cup D = 1 .. f + j
  <2>1. ASSUME NEW i \in 1 .. f + j
        PROVE  i \in 1 .. f \cup D
    <3>1. CASE i > f
      <4>1. i - f \in 1 .. j /\ i = f + (i - f)
        BY <3>1
      <4> QED
        BY <1>1, <4>1
    <3> QED
      BY <3>1
  <2>2. \A k \in 1 .. j : f + k \in 1 .. f + j
    OBVIOUS
  <2>3. D \subseteq 1 .. f + j
    BY <1>1, <2>2
  <2>4. 1 .. f \subseteq 1 .. f + j
    OBVIOUS
  <2> QED
    BY <2>1, <2>3, <2>4
<1>3. DOMAIN Numbers(f) = 1 .. f /\ \A i \in 1 .. f : Numbers(f)[i] = Number(i)
  BY DEF Numbers
<1>4. DOMAIN part = D /\ \A i \in D : part[i] = Number(i)
  BY <1>1
<1>5. PICK g : g = Numbers(f)
  OBVIOUS
<1>6. Overwritten(g, part) = [i \in 1 .. f + j |-> IF i \in D THEN part[i] ELSE g[i]]
  BY <1>2, <1>3, <1>4, <1>5 DEF Overwritten
<1>7. ASSUME NEW i \in 1 .. f + j
      PROVE  (IF i \in D THEN part[i] ELSE g[i]) = Number(i)
  <2>1. i \notin D => i \in 1 .. f
    BY <1>2
  <2> QED
    BY <1>3, <1>4, <1>5, <2>1
<1>8. Overwritten(g, part) = [i \in 1 .. f + j |-> Number(i)]
  BY <1>6, <1>7
<1> QED
  BY <1>5, <1>8 DEF Numbers

LEMMA CollectFills ==
  ASSUME top \in Nat, top <= StackBound, DOMAIN cells = 0 .. StackBound - 1,
         NEW n \in Nat, NEW f \in Nat, NEW j \in Nat, f + j <= n,
         NEW a, a = <<n, f, j>>, a # None, Filling(a), Arrayed,
         NEW v, v = <<"array", n, Numbers(f + j)>>,
         NEW e, e = -j, Writes(e, v), NEW b, b = Building(n, f + j, 0)
  PROVE  Filling(b)'
<1>1. PICK w : w = top - 1 - j
  OBVIOUS
<1>2. w \in Int /\ Base(a) = w /\ top + e - 1 = w
  BY <1>1 DEF Base
<1>3. w >= 0 /\ w \in DOMAIN cells
  BY <1>1, <1>2, CodeRunAssumption DEF Filling, Partial
<1>4. /\ \A id \in DOMAIN held : Sane(held[id])
      /\ \A i \in DOMAIN cells : Sane(cells[i]) \/ i = w
  BY <1>2 DEF Filling
<1>5. /\ DOMAIN cells' = DOMAIN cells /\ cells'[w] = v
      /\ \A i \in DOMAIN cells : i # w => cells'[i] = cells[i]
      /\ top' = w + 1 /\ held' = held
  <2>1. cells' = [cells EXCEPT ![w] = v] /\ held' = held
    BY <1>2 DEF Writes
  <2>2. top' = w + 1
    BY <1>1 DEF Writes
  <2> QED
    BY <1>3, <2>1, <2>2, OtherCell
<1>6. \A i \in DOMAIN cells' : i # w => Sane(cells'[i])
  BY <1>4, <1>5
<1>7. \A id \in DOMAIN held' : Sane(held'[id])
  BY <1>4, <1>5
<1>8. CASE f + j = n
  <2>1. b = None
    BY <1>8 DEF Building
  <2>2. Sane(v)
    BY <1>8 DEF Sane
  <2>3. \A i \in DOMAIN cells' : Sane(cells'[i])
    BY <1>5, <1>6, <2>2
  <2> QED
    BY <1>7, <2>1, <2>3 DEF Filling
<1>9. CASE f + j # n
  <2>1. b = <<n, f + j, 0>> /\ n # 0
    BY <1>9 DEF Building
  <2>2. b[1] = n /\ b[2] = f + j /\ b[3] = 0 /\ b # None
    BY <2>1 DEF None
  <2>3. Base(b)' = w
    BY <1>2, <1>5, <2>2 DEF Base
  <2>4. \A i \in 1 .. 0 : FALSE
    OBVIOUS
  <2>5. Partial(b)'
    BY <1>3, <1>5, <2>2, <2>3, <2>4 DEF Partial
  <2>6. \A i \in DOMAIN cells' : Sane(cells'[i]) \/ (b # None /\ i = Base(b)')
    BY <1>6, <2>2, <2>3
  <2> QED
    BY <1>7, <2>5, <2>6 DEF Filling
<1> QED
  BY <1>8, <1>9

(* The array that a batch is collected into.                               *)
Gathered == [i \in {Operand(1) * SlotSize + k : k \in 1 .. Operand(2)} |->
             Peek(Operand(2) - (i - Operand(1) * SlotSize))]
Collected == LET array == Peek(Operand(2))
             IN  <<"array", array[2], Overwritten(array[3], Gathered)>>

LEMMA CollectedIs ==
  ASSUME top \in Nat, NEW f \in Nat, NEW j \in Nat, NEW n \in Nat,
         NEW a, a = <<n, f, j>>, a # None, Filling(a),
         Operand(1) * SlotSize = f, Operand(2) = j
  PROVE  Collected = <<"array", n, Numbers(f + j)>>
<1>1. PICK w : w = top - 1 - j
  OBVIOUS
<1>2. w \in Int /\ Base(a) = w /\ a[1] = n /\ a[2] = f /\ a[3] = j
  BY <1>1 DEF Base
<1>3. cells[w] = <<"array", n, Numbers(f)>> /\ \A i \in 1 .. j : cells[w + i] = Number(f + i)
  BY <1>2 DEF Filling, Partial
<1>4. Peek(j) = cells[w]
  BY <1>1 DEF Peek
<1>5. ASSUME NEW k \in 1 .. j
      PROVE  Peek(j - ((f + k) - f)) = Number(f + k)
  <2>1. top - 1 - (j - ((f + k) - f)) = w + k
    BY <1>1
  <2> QED
    BY <1>3, <2>1 DEF Peek
<1>6. Gathered = [i \in {f + k : k \in 1 .. j} |-> Number(i)]
  <2>1. Gathered = [i \in {f + k : k \in 1 .. j} |-> Peek(j - (i - f))]
    BY DEF Gathered
  <2>2. \A i \in {f + k : k \in 1 .. j} : Peek(j - (i - f)) = Number(i)
    BY <1>5
  <2> QED
    BY <2>1, <2>2
<1>7. Overwritten(Numbers(f), Gathered) = Numbers(f + j)
  BY <1>6, BatchFills
<1>8. PICK array : array = cells[w]
  OBVIOUS
<1>9. array[2] = n /\ array[3] = Numbers(f)
  BY <1>3, <1>8
<1>10. Collected = <<"array", array[2], Overwritten(array[3], Gathered)>>
  BY <1>4, <1>8 DEF Collected
<1> QED
  BY <1>7, <1>9, <1>10

LEMMA CollectCovers ==
  ASSUME NEW op, op = "OP_COLLECT", At(op), NEW d, NEW x, NEW y, Executing(op, d, x, y),
         UNCHANGED <<chunk, flow>>, NEW j \in Nat, j = Operand(2),
         NEW e, e = -j, NEW v, v = Collected, Writes(e, v), e = Effect(chunk, pc),
         pc' = Following(chunk, pc)
  PROVE  Covered'
<1>1. OpAt(chunk, pc) = op /\ op \in Writing
  BY DEF Executing, Writing
<1>2. ASSUME Small
      PROVE  Filling(y.array)'
  <2>1. PICK a, n, f, b : a = x.array /\ n = a[1] /\ f = a[2] /\ b = y.array
    OBVIOUS
  <2>2. FillsArray(chunk, pc, x, y) /\ Filling(a) /\ x \in Shapes /\ Arrayed
    BY <1>1, <1>2, <2>1 DEF Executing, Passes, Leads, Small, Leaving
  <2>3. /\ a # None /\ Operand(1) * SlotSize = f /\ j = a[3]
        /\ f + j <= n /\ b = Building(n, f + j, 0)
    BY <1>1, <2>1, <2>2 DEF FillsArray, Operand
  <2>4. n \in Nat /\ f \in Nat /\ a = <<n, f, j>>
    <3>1. a \in Progress
      BY <2>1, <2>2, ShapesAre
    <3> QED
      BY <2>1, <2>3, <3>1 DEF Progress
  <2>5. top \in Nat /\ top <= StackBound /\ DOMAIN cells = 0 .. StackBound - 1
    BY DEF Executing
  <2>6. Operand(2) = j
    OBVIOUS
  <2>7. v = <<"array", n, Numbers(f + j)>>
    BY <2>2, <2>3, <2>4, <2>5, <2>6, CollectedIs
  <2>8. Filling(b)'
    BY <2>2, <2>3, <2>4, <2>5, <2>7, CollectFills
  <2> QED
    BY <2>1, <2>8
<1> QED
  BY <1>1, <1>2, Written

LEMMA MeaningOf ==
  ASSUME NEW s, OfLocal(chunk, pc, s)
  PROVE  Operand(1) = s.slot /\ Meaning[2] = s.id
<1>1. {m \in chunk.meaning : m[1] = pc} = {<<pc, <<"local", s.id>>>>} /\ Operand(1) = s.slot
  BY DEF OfLocal, Marks, MeaningAt, Operand
<1>2. PICK n : n = <<pc, <<"local", s.id>>>>
  OBVIOUS
<1>3. n \in chunk.meaning /\ n[1] = pc /\ \A m \in chunk.meaning : m[1] = pc => m = n
  BY <1>1, <1>2
<1>4. PICK c : c = CHOOSE m \in chunk.meaning : m[1] = pc
  OBVIOUS
<1>5. c = n /\ c[2] = <<"local", s.id>>
  BY <1>2, <1>3, <1>4
<1>6. Meaning = <<"local", s.id>>
  BY <1>4, <1>5 DEF Meaning
<1> QED
  BY <1>1, <1>6

(* A local that is read was stored, and is what was stored.                *)
LEMMA LocalRead ==
  ASSUME NEW op, op = "OP_LOAD_LOC", NEW d, NEW x, NEW y, Executing(op, d, x, y), Tracked
  PROVE  /\ Meaning[2] \in DOMAIN held
         /\ cells[Operand(1)] = held[Meaning[2]]
<1>1. PICK s \in x.locals : OfLocal(chunk, pc, s)
  BY DEF Executing, Passes, Leads, KeepsLocals, Leaving
<1>2. Operand(1) = s.slot /\ Meaning[2] = s.id
  BY <1>1, MeaningOf
<1> QED
  BY <1>1, <1>2 DEF Executing, Keeping

LEMMA StoreLocalCovers ==
  ASSUME NEW op, op = "OP_STORE_LOC", At(op), NEW d, NEW x, NEW y, Executing(op, d, x, y),
         UNCHANGED <<chunk, flow, top>>, pc' = Following(chunk, pc),
         cells' = [cells EXCEPT ![Operand(1)] = Peek(0)],
         held' = Overwritten(held, [local \in {Meaning[2]} |-> Peek(0)])
  PROVE  Covered'
<1>1. Leads(chunk, pc, x, y) /\ OpAt(chunk, pc) = op /\ y.depth <= x.depth + 0
  <2>1. Leads(chunk, pc, x, y) /\ OpAt(chunk, pc) = op
    BY DEF Executing, Passes, Leaving
  <2>2. Effect(chunk, pc) = 0
    BY <2>1 DEF Effect, Pushing, Popping
  <2> QED
    BY <2>1, <2>2 DEF Leads
<1>2. /\ x.depth \in Nat /\ y.depth \in Nat /\ x.depth <= top /\ top \in Int /\ top <= StackBound
      /\ y.locals \in SUBSET Symbols /\ DOMAIN cells = 0 .. StackBound - 1
  BY ShapesAre DEF Executing
<1>3. top' \in Int /\ top' <= StackBound /\ y.depth <= top'
  BY <1>1, <1>2
<1>4. PICK v, w, id : v = Peek(0) /\ w = Operand(1) /\ id = Meaning[2]
  OBVIOUS
<1>5. /\ DOMAIN cells' = DOMAIN cells /\ \A i \in DOMAIN cells : i # w => cells'[i] = cells[i]
      /\ w \in DOMAIN cells => cells'[w] = v
  <2>1. cells' = [cells EXCEPT ![w] = v]
    BY <1>4
  <2> QED
    BY <2>1, OtherCell
<1>6. /\ DOMAIN held' = DOMAIN held \cup {id} /\ held'[id] = v
      /\ \A i \in DOMAIN held : i # id => held'[i] = held[i]
  <2>1. PICK g : g = [local \in {id} |-> v]
    OBVIOUS
  <2>2. held' = Overwritten(held, g) /\ DOMAIN g = {id} /\ g[id] = v
    BY <1>4, <2>1
  <2> QED
    BY <2>2 DEF Overwritten
<1>7. ASSUME Tracked
      PROVE  \E s \in Symbols : Stores(chunk, pc, x, y, s) /\ w = s.slot /\ id = s.id
  <2>1. PICK s \in Symbols : Stores(chunk, pc, x, y, s)
    BY <1>1, <1>7 DEF Leads, KeepsLocals
  <2> QED
    BY <1>4, <2>1, MeaningOf DEF Stores
<1>8. ASSUME Tracked
      PROVE  Keeping(y.locals)'
  <2>1. PICK s \in Symbols : Stores(chunk, pc, x, y, s) /\ w = s.slot /\ id = s.id
    BY <1>7, <1>8
  <2>2. w \in DOMAIN cells
    <3>1. w \in Nat /\ w < x.depth
      BY <2>1 DEF Stores, Symbols
    <3> QED
      BY <1>2, <3>1, CodeRunAssumption
  <2>3. ASSUME NEW t \in y.locals
        PROVE  t.id \in DOMAIN held' /\ t.slot \in DOMAIN cells' /\ cells'[t.slot] = held'[t.id]
    <3>1. CASE t = s
      BY <1>5, <1>6, <2>1, <2>2, <3>1
    <3>2. CASE t # s
      <4>1. t \in x.locals /\ t.slot # w /\ t.id # id
        BY <2>1, <3>2 DEF Stores
      <4>2. t.id \in DOMAIN held /\ t.slot \in DOMAIN cells /\ cells[t.slot] = held[t.id]
        BY <1>8, <4>1 DEF Executing, Keeping
      <4>3. cells'[t.slot] = cells[t.slot]
        BY <1>5, <4>1, <4>2
      <4> QED
        BY <1>5, <1>6, <4>1, <4>2, <4>3
    <3> QED
      BY <3>1, <3>2
  <2> QED
    BY <2>3 DEF Keeping
<1>9. ASSUME Small'
      PROVE  Filling(y.array)'
  <2>1. Small /\ Tracked /\ Filling(x.array)
    BY <1>9 DEF Small, Arrayed, Executing
  <2>2. x.array = None /\ y.array = None
    BY <1>1, <2>1 DEF Leads, FillsArray, Small
  <2>3. /\ \A i \in DOMAIN held : Sane(held[i])
        /\ \A i \in DOMAIN cells : Sane(cells[i])
    BY <2>1, <2>2 DEF Filling
  <2>4. Sane(v)
    <3>1. PICK s \in Symbols : Stores(chunk, pc, x, y, s)
      BY <1>7, <2>1
    <3>2. s.slot \in Nat /\ s.slot < x.depth
      BY <3>1 DEF Stores, Symbols
    <3>3. top - 1 - 0 \in 0 .. StackBound - 1
      BY <1>2, <3>2, CodeRunAssumption
    <3> QED
      BY <1>2, <1>4, <2>3, <3>3 DEF Peek
  <2>5. \A i \in DOMAIN cells' : Sane(cells'[i])
    BY <1>5, <2>3, <2>4
  <2>6. \A i \in DOMAIN held' : Sane(held'[i])
    BY <1>6, <2>3, <2>4
  <2>7. Filling(None)'
    BY <2>5, <2>6 DEF Filling
  <2> QED
    BY <2>2, <2>7
<1>10. On(y)'
  BY <1>3, <1>8, <1>9 DEF On
<1> QED
  BY <1>5, <1>10, Continues

-----------------------------------------------------------------------------
(* Every step of the machine stays with the chart.                         *)

(* What an instruction adds to the stack.                                  *)
LEMMA EffectOf ==
  ASSUME NEW op, NEW d, NEW x, NEW y, Executing(op, d, x, y)
  PROVE  /\ op \in Pushing => Effect(chunk, pc) = 1
         /\ op \in Popping => Effect(chunk, pc) = -1
         /\ op \in {"OP_STORE_GLOB", "OP_STORE_LOC", "OP_JIF"} => Effect(chunk, pc) = 0
         /\ op = "OP_CALL" => Operand(1) \in Nat /\ Effect(chunk, pc) = -Operand(1)
         /\ op = "OP_COLLECT" => Operand(2) \in Nat /\ Effect(chunk, pc) = -Operand(2)
<1>1. OpAt(chunk, pc) = op /\ Instruction(chunk, pc) /\ pc \in Ops(chunk) /\ chunk \in Chunks
      /\ Whole(chunk) /\ pc \in Nat
  BY DEF Executing, CoveredBy, Charts
<1>2. \A k \in pc + 1 .. pc + OperandsAt(chunk, pc) : ByteAt(chunk, k) \in Nat
  <2>1. \A k \in pc + 1 .. pc + OperandsAt(chunk, pc) : chunk.code[k + 1] \in ByteCells
    BY <1>1 DEF Instruction
  <2> QED
    BY <2>1, CellKinds, CodegenAssumption DEF ByteAt
<1>3. ASSUME op = "OP_CALL"
      PROVE  Operand(1) \in Nat /\ Effect(chunk, pc) = -Operand(1)
  <2>1. OperandsAt(chunk, pc) = 1
    BY <1>1, <1>3, WidthOf
  <2>2. pc + 1 \in pc + 1 .. pc + OperandsAt(chunk, pc)
    BY <1>1, <2>1
  <2>3. Effect(chunk, pc) = -ByteAt(chunk, pc + 1)
    BY <1>1, <1>3 DEF Effect, Pushing, Popping
  <2> QED
    BY <1>2, <2>2, <2>3 DEF Operand
<1>4. ASSUME op = "OP_COLLECT"
      PROVE  Operand(2) \in Nat /\ Effect(chunk, pc) = -Operand(2)
  <2>1. OperandsAt(chunk, pc) = 2
    BY <1>1, <1>4, WidthOf
  <2>2. pc + 2 \in pc + 1 .. pc + OperandsAt(chunk, pc)
    BY <1>1, <2>1
  <2>3. Effect(chunk, pc) = -ByteAt(chunk, pc + 2)
    BY <1>1, <1>4 DEF Effect, Pushing, Popping
  <2> QED
    BY <1>2, <2>2, <2>3 DEF Operand
<1> QED
  BY <1>1, <1>3, <1>4 DEF Effect, Pushing, Popping

(* A value is pushed.                                                      *)
LEMMA Pushes ==
  ASSUME NEW op, NEW d, NEW x, NEW y, Executing(op, d, x, y), NEW v, PushValue(v), UNCHANGED held
  PROVE  Writes(1, v)
<1>1. top \in Int /\ top < StackBound /\ cells' = [cells EXCEPT ![top] = v] /\ top' = top + 1
  BY DEF Executing, PushValue
<1>2. top + 1 - 1 = top /\ top' <= StackBound
  BY <1>1, CodeRunAssumption
<1> QED
  BY <1>1, <1>2 DEF Writes

(* One takes the place of others.                                          *)
LEMMA Replaces ==
  ASSUME NEW op, NEW d, NEW x, NEW y, Executing(op, d, x, y), NEW v, NEW n \in Nat,
         Replace(n + 1, v), UNCHANGED held, NEW e, e = -n
  PROVE  Writes(e, v)
<1>1. top \in Int /\ top <= StackBound
  BY DEF Executing
<1>2. top - (n + 1) = top + e - 1 /\ top' = top + e /\ top' <= StackBound
  BY <1>1, CodeRunAssumption DEF Replace
<1>3. cells' = [cells EXCEPT ![top - (n + 1)] = v]
  BY DEF Replace
<1>4. cells' = [cells EXCEPT ![top + e - 1] = v]
  BY <1>2, <1>3
<1> QED
  BY <1>2, <1>4 DEF Writes

LEMMA PushCovers ==
  ASSUME Covered, NEW op \in Pushing, op \notin {"OP_CONST", "OP_ARR"}, At(op), Continue,
         NEW v, PushValue(v), Sane(v), UNCHANGED <<chunk, flow, held>>
  PROVE  Covered'
<1>1. PICK d, x, y : Executing(op, d, x, y)
  BY Executed DEF Covered
<1>2. pc' = Following(chunk, pc)
  BY DEF Continue, GoTo, Following
<1>3. Writes(1, v) /\ 1 = Effect(chunk, pc)
  BY <1>1, Pushes, EffectOf
<1>4. op \in Writing /\ op \notin {"OP_CONST", "OP_ARR", "OP_COLLECT"}
  BY DEF Writing, Pushing
<1>5. Small => Sane(v)
  OBVIOUS
<1> QED
  BY <1>1, <1>2, <1>3, <1>4, <1>5, PlainWritten

LEMMA ConstantStep ==
  ASSUME Covered, Small => Denotes(chunk), Constant, UNCHANGED <<chunk, flow>>
  PROVE  Covered'
<1>1. PICK op \in {"OP_CONST", "OP_CLOSURE"} : At(op)
  BY DEF Constant
<1>2. PICK d, x, y : Executing(op, d, x, y)
  BY <1>1, Executed DEF Covered
<1>3. pc' = Following(chunk, pc)
  BY DEF Constant, Continue, GoTo, Following
<1>4. PICK v : v = chunk.constants[Operand(1) + 1]
  OBVIOUS
<1>5. Writes(1, v)
  BY <1>2, <1>4, Pushes DEF Constant
<1> QED
  BY <1>1, <1>2, <1>3, <1>4, <1>5, ConstantCovers

LEMMA MakeArrayStep ==
  ASSUME Covered, MakeArray, UNCHANGED <<chunk, flow>>
  PROVE  Covered'
<1>1. PICK op : op = "OP_ARR"
  OBVIOUS
<1>2. At(op)
  BY <1>1 DEF MakeArray
<1>3. PICK d, x, y : Executing(op, d, x, y)
  BY <1>2, Executed DEF Covered
<1>4. pc' = Following(chunk, pc)
  BY DEF MakeArray, Continue, GoTo, Following
<1>5. PICK v : v = <<"array", Operand(1), <<>> >>
  OBVIOUS
<1>6. Writes(1, v)
  BY <1>3, <1>5, Pushes DEF MakeArray
<1> QED
  BY <1>1, <1>2, <1>3, <1>4, <1>5, <1>6, MakeArrayCovers

LEMMA CollectStep ==
  ASSUME Covered, Collect, UNCHANGED <<chunk, flow>>
  PROVE  Covered'
<1>1. PICK op : op = "OP_COLLECT"
  OBVIOUS
<1>2. At(op)
  BY <1>1 DEF Collect
<1>3. PICK d, x, y : Executing(op, d, x, y)
  BY <1>2, Executed DEF Covered
<1>4. pc' = Following(chunk, pc)
  BY DEF Collect, Continue, GoTo, Following
<1>5. PICK j, e, v : j = Operand(2) /\ e = -j /\ v = Collected
  OBVIOUS
<1>6. j \in Nat /\ e = Effect(chunk, pc)
  BY <1>1, <1>3, <1>5, EffectOf
<1>7. cells' = [cells EXCEPT ![top - 1 - j] = v] /\ top' = top - j /\ held' = held
  BY <1>5 DEF Collect, Collected, Gathered
<1>8. top \in Int /\ top <= StackBound
  BY <1>3 DEF Executing
<1>9. top - 1 - j = top + e - 1 /\ top' = top + e /\ top' <= StackBound
  BY <1>5, <1>6, <1>7, <1>8, CodeRunAssumption
<1>10. cells' = [cells EXCEPT ![top + e - 1] = v]
  BY <1>7, <1>9
<1>11. Writes(e, v)
  BY <1>7, <1>9, <1>10 DEF Writes
<1> QED
  BY <1>1, <1>2, <1>3, <1>4, <1>5, <1>6, <1>11, CollectCovers

LEMMA StoreLocalStep ==
  ASSUME Covered, StoreLocal, UNCHANGED <<chunk, flow>>
  PROVE  Covered'
<1>1. PICK op : op = "OP_STORE_LOC"
  OBVIOUS
<1>2. At(op)
  BY <1>1 DEF StoreLocal
<1>3. PICK d, x, y : Executing(op, d, x, y)
  BY <1>2, Executed DEF Covered
<1>4. pc' = Following(chunk, pc)
  BY DEF StoreLocal, Continue, GoTo, Following
<1> QED
  BY <1>1, <1>2, <1>3, <1>4, StoreLocalCovers DEF StoreLocal

LEMMA LoadLocalStep ==
  ASSUME Covered, LoadLocal, UNCHANGED <<chunk, flow>>
  PROVE  Covered'
<1>1. PICK op : op = "OP_LOAD_LOC"
  OBVIOUS
<1>2. At(op) /\ op \in Writing /\ op \notin {"OP_CONST", "OP_ARR", "OP_COLLECT"} /\ op \in Pushing
  BY <1>1 DEF LoadLocal, Writing, Pushing
<1>3. PICK d, x, y : Executing(op, d, x, y)
  BY <1>2, Executed DEF Covered
<1>4. pc' = Following(chunk, pc)
  BY DEF LoadLocal, Continue, GoTo, Following
<1>5. PICK v : v = cells[Operand(1)]
  OBVIOUS
<1>6. ASSUME Small
      PROVE  Sane(v)
  <2>1. Tracked /\ Filling(x.array)
    BY <1>3, <1>6 DEF Small, Arrayed, Executing
  <2>2. Meaning[2] \in DOMAIN held /\ v = held[Meaning[2]]
    BY <1>1, <1>3, <1>5, <2>1, LocalRead
  <2> QED
    BY <2>1, <2>2 DEF Filling
<1>7. Writes(1, v) /\ 1 = Effect(chunk, pc)
  BY <1>2, <1>3, <1>5, Pushes, EffectOf DEF LoadLocal
<1> QED
  BY <1>2, <1>3, <1>4, <1>6, <1>7, PlainWritten

(* Operations whose result is not told apart from others.                  *)
LEMMA ReplaceStep ==
  ASSUME Covered, Add \/ CallValue, UNCHANGED <<chunk, flow>>
  PROVE  Covered'
<1>1. PICK op \in {"OP_ADD", "OP_CALL"} :
        /\ At(op) /\ Continue /\ UNCHANGED held
        /\ Replace(IF op = "OP_ADD" THEN 2 ELSE Operand(1) + 1, Unknown)
  <2>1. CASE Add
    <3>1. PICK op : op = "OP_ADD"
      OBVIOUS
    <3> QED
      BY <2>1, <3>1 DEF Add
  <2>2. CASE CallValue
    <3>1. PICK op : op = "OP_CALL"
      OBVIOUS
    <3>2. op # "OP_ADD"
      BY <3>1
    <3> QED
      BY <2>2, <3>1, <3>2 DEF CallValue
  <2> QED
    BY <2>1, <2>2
<1>2. PICK d, x, y : Executing(op, d, x, y)
  BY <1>1, Executed DEF Covered
<1>3. pc' = Following(chunk, pc)
  BY <1>1 DEF Continue, GoTo, Following
<1>4. PICK n, e : n = (IF op = "OP_ADD" THEN 1 ELSE Operand(1)) /\ e = -n
  OBVIOUS
<1>5. n \in Nat /\ e = Effect(chunk, pc)
  BY <1>1, <1>2, <1>4, EffectOf DEF Popping
<1>6. Replace(n + 1, Unknown)
  <2>1. n + 1 = IF op = "OP_ADD" THEN 2 ELSE Operand(1) + 1
    BY <1>4
  <2> QED
    BY <1>1, <2>1
<1>7. Writes(e, Unknown)
  BY <1>1, <1>2, <1>4, <1>5, <1>6, Replaces
<1>8. op \in Writing /\ op \notin {"OP_CONST", "OP_ARR", "OP_COLLECT"}
  BY <1>1 DEF Writing
<1>9. PICK v : v = Unknown
  OBVIOUS
<1>10. Writes(e, v) /\ Sane(v)
  BY <1>7, <1>9, SanePlain
<1> QED
  BY <1>2, <1>3, <1>5, <1>8, <1>10, PlainWritten

LEMMA DropStep ==
  ASSUME Covered, Pop \/ StoreGlobal, UNCHANGED <<chunk, flow>>
  PROVE  Covered'
<1>1. PICK op \in {"OP_POP", "OP_PRINT", "OP_DEFINE_GLOB", "OP_STORE_GLOB"} :
        /\ At(op) /\ Continue /\ UNCHANGED <<cells, held>>
        /\ top' = IF op = "OP_STORE_GLOB" THEN top ELSE top - 1
  <2>1. CASE Pop
    <3>1. PICK op \in {"OP_POP", "OP_PRINT", "OP_DEFINE_GLOB"} : At(op)
      BY <2>1 DEF Pop
    <3> QED
      BY <2>1, <3>1 DEF Pop, PopValue
  <2>2. CASE StoreGlobal
    <3>1. PICK op : op = "OP_STORE_GLOB"
      OBVIOUS
    <3> QED
      BY <2>2, <3>1 DEF StoreGlobal
  <2> QED
    BY <2>1, <2>2
<1>2. PICK d, x, y : Executing(op, d, x, y)
  BY <1>1, Executed DEF Covered
<1>3. pc' = Following(chunk, pc)
  BY <1>1 DEF Continue, GoTo, Following
<1>4. PICK e : e = IF op = "OP_STORE_GLOB" THEN 0 ELSE -1
  OBVIOUS
<1>5. e \in Int /\ e <= 0 /\ e = Effect(chunk, pc)
  BY <1>1, <1>2, <1>4, EffectOf DEF Popping
<1>6. top' = top + e
  BY <1>1, <1>2, <1>4 DEF Executing
<1>7. op \notin Writing \cup Leaving \cup {"OP_STORE_LOC"}
  BY <1>1 DEF Writing, Pushing, Leaving
<1> QED
  BY <1>1, <1>2, <1>3, <1>5, <1>6, <1>7, Dropped

LEMMA BranchStep ==
  ASSUME Covered, JumpIfFalse, UNCHANGED <<chunk, flow>>
  PROVE  Covered'
<1>1. PICK op, e : op = "OP_JIF" /\ e = 0
  OBVIOUS
<1>2. At(op) /\ op \in Jumps /\ UNCHANGED <<cells, top, held>>
      /\ (pc' = Target(chunk, pc) \/ pc' = pc + 3)
  BY <1>1 DEF JumpIfFalse, GoTo, Jumps
<1>3. PICK d, x, y : Executing(op, d, x, y)
  BY <1>2, Executed DEF Covered
<1>4. CASE pc' = Target(chunk, pc)
  BY <1>2, <1>4, Leaps
<1>5. CASE pc' = pc + 3
  <2>1. pc' = Following(chunk, pc)
    <3>1. OpAt(chunk, pc) = op /\ Instruction(chunk, pc) /\ pc \in Nat
      BY <1>3 DEF Executing
    <3> QED
      BY <1>2, <1>5, <3>1 DEF Instruction
  <2>2. e \in Int /\ e <= 0 /\ e = Effect(chunk, pc)
    BY <1>1, <1>3, EffectOf
  <2>3. top' = top + e
    BY <1>1, <1>2, <1>3 DEF Executing
  <2>4. op \notin Writing \cup Leaving \cup {"OP_STORE_LOC"}
    BY <1>1 DEF Writing, Pushing, Leaving
  <2> QED
    BY <1>2, <1>3, <2>1, <2>2, <2>3, <2>4, Dropped
<1> QED
  BY <1>2, <1>4, <1>5

LEMMA StepCovers ==
  ASSUME Covered, Small => Denotes(chunk), Step, UNCHANGED <<codeVars, flow>>
  PROVE  Covered'
<1>1. UNCHANGED <<chunk, flow>>
  BY DEF codeVars
<1>2. ASSUME PushNil PROVE Covered'
  <2>1. PICK op, v : op = "OP_NIL" /\ v = Nil
    OBVIOUS
  <2>2. At(op) /\ Continue /\ PushValue(v) /\ Sane(v) /\ UNCHANGED <<chunk, flow, held>>
    BY <1>1, <1>2, <2>1, SanePlain DEF PushNil
  <2> QED
    BY <2>1, <2>2, PushCovers DEF Pushing
<1>3. ASSUME LoadGlobal PROVE Covered'
  <2>1. PICK op, v : op = "OP_LOAD_GLOB" /\ v = Unknown
    OBVIOUS
  <2>2. At(op) /\ Continue /\ PushValue(v) /\ Sane(v) /\ UNCHANGED <<chunk, flow, held>>
    BY <1>1, <1>3, <2>1, SanePlain DEF LoadGlobal
  <2> QED
    BY <2>1, <2>2, PushCovers DEF Pushing
<1>4. ASSUME JumpAlways PROVE Covered'
  BY <1>1, <1>4, Leaps DEF JumpAlways, GoTo, Jumps
<1>5. ASSUME Halt PROVE Covered'
  BY <1>1, <1>5, Halts DEF Halt, GoTo
<1> QED
  BY <1>1, <1>2, <1>3, <1>4, <1>5, ConstantStep, MakeArrayStep, CollectStep, StoreLocalStep,
     LoadLocalStep, ReplaceStep, DropStep, BranchStep DEF Step

-----------------------------------------------------------------------------
(* Every action of the compiler keeps the chart.                           *)

LEMMA NotePoints ==
  ASSUME NEW f, NEW more \in {{}, {Here}}, Leading(flow, f, more), IsFlow(flow), Note(f)
  PROVE  Pointed /\ IsFlow(flow')
<1>1. IsFlow(f) /\ f.points = flow.points \cup more
  BY DEF Leading
<1>2. CASE enclosing = <<>>
  BY <1>1, <1>2 DEF Note, InScript, Pointed
<1>3. CASE enclosing # <<>>
  BY <1>3 DEF Note, InScript, Pointed
<1> QED
  BY <1>2, <1>3

LEMMA SamePoints ==
  ASSUME IsFlow(flow), UNCHANGED flow
  PROVE  Pointed /\ IsFlow(flow')
BY DEF Pointed

(* What an action of the compiler has to keep.                             *)
Onward == IsFlow(flow') /\ (phase' = "compiling" => Drawing') /\ phase' # "compiled"

LEMMA SimpleDraws ==
  ASSUME IInv, Placing, Chosen, Drawing, IsFlow(flow), phase = "compiling", Simple, Note(Point(flow, Here))
  PROVE  Onward
<1>1. Leading(flow, Point(flow, Here), {Here})
  BY PointAdds
<1>2. Pointed /\ IsFlow(flow')
  <2>1. PICK f, more : f = Point(flow, Here) /\ more = {Here}
    OBVIOUS
  <2> QED
    BY <1>1, <2>1, NotePoints
<1>3. ASSUME NEW e \in Effects, ExprStmt(e) PROVE Onward
  BY <1>2, <1>3, ExprStmtDraws DEF Onward, ExprStmt
<1>4. ASSUME NEW e \in Printed, PrintStmt(e) PROVE Onward
  BY <1>2, <1>4, PrintStmtDraws DEF Onward, PrintStmt
<1>5. ASSUME NEW e \in Optional, VarDecl(e) PROVE Onward
  BY <1>2, <1>5, VarDeclDraws DEF Onward, VarDecl
<1>6. ASSUME NEW e \in Optional, Return(e) PROVE Onward
  BY <1>2, <1>6, ReturnDraws DEF Onward, Return
<1> QED
  BY <1>3, <1>4, <1>5, <1>6 DEF Simple

LEMMA NestedDraws ==
  ASSUME IInv, Drawing, IsFlow(flow), phase = "compiling", Nested, UNCHANGED flow
  PROVE  Onward
<1>1. Pointed /\ IsFlow(flow')
  BY SamePoints
<1>2. ASSUME NEW n \in Sizes, Block(n) PROVE Onward
  BY <1>1, <1>2, BlockDraws DEF Onward, Block
<1>3. ASSUME EndBlock PROVE Onward
  BY <1>1, <1>3, EndBlockDraws DEF Onward, EndBlock
<1>4. ASSUME NEW arity \in 0 .. 1, NEW n \in Sizes, FnDecl(arity, n) PROVE Onward
  BY <1>1, <1>4, FnDeclDraws DEF Onward, FnDecl
<1> QED
  BY <1>2, <1>3, <1>4 DEF Nested

LEMMA FunctionDraws ==
  ASSUME IInv, Placing, Chosen, Drawing, IsFlow(flow), phase = "compiling", NEW u \in Upvalues, EndFn(u),
         flow' = IF Len(enclosing) > 1 THEN flow
                 ELSE Point(flow, <<Count(enclosing[1]), Cardinality(LocalsOf(Below))>>)
  PROVE  Onward
<1>1. PICK p : p = <<Count(enclosing[1]), Cardinality(LocalsOf(Below))>>
  OBVIOUS
<1>2. Leading(flow, Point(flow, p), {p})
  BY PointAdds
<1>3. CASE Len(enclosing) > 1
  <2>1. flow' = flow /\ Len(enclosing) # 1
    <3>1. flow' = flow
      BY <1>3
    <3>2. PICK n \in Nat : n = Len(enclosing)
      BY DEF IInv, Typed, Framed
    <3>3. n > 1
      BY <1>3, <3>2
    <3>4. n # 1
      BY <3>3
    <3> QED
      BY <3>1, <3>2, <3>4
  <2>2. Drawing'
    BY <2>1, EndFnDraws
  <2> QED
    BY <2>1, <2>2 DEF Onward, EndFn
<1>4. CASE ~(Len(enclosing) > 1)
  <2>1. flow' = Point(flow, p)
    BY <1>1, <1>4
  <2>2. IsFlow(flow') /\ flow'.points = flow.points \cup {p}
    BY <1>2, <2>1 DEF Leading
  <2>3. \A q \in flow'.points : q \in flow.points \/ q = p
    BY <2>2
  <2>4. Drawing'
    BY <1>1, <1>4, <2>3, EndFnDraws
  <2> QED
    BY <2>2, <2>4 DEF Onward, EndFn
<1> QED
  BY <1>3, <1>4

LEMMA BranchesDraw ==
  ASSUME IInv, Drawing, IsFlow(flow), phase = "compiling",
         \/ \E e \in Conditions : If(e) /\ Note(OpenIf(flow, Here))
         \/ Else /\ Note(ElseIf(flow))
         \/ EndIf /\ Note(CloseIf(flow))
         \/ \E e \in Conditions : While(e) /\ Note(OpenWhile(flow, Here))
  PROVE  Onward
<1>1. PICK p : p = Here
  OBVIOUS
<1>2. /\ Leading(flow, OpenIf(flow, p), {p}) /\ Leading(flow, ElseIf(flow), {})
      /\ Leading(flow, CloseIf(flow), {}) /\ Leading(flow, OpenWhile(flow, p), {p})
  BY IfPoints
<1>3. ASSUME NEW e \in Conditions, If(e), Note(OpenIf(flow, Here)) PROVE Onward
  <2>1. Pointed /\ IsFlow(flow')
    BY <1>1, <1>2, <1>3, NotePoints
  <2> QED
    BY <1>3, <2>1, IfDraws DEF Onward, If
<1>4. ASSUME Else, Note(ElseIf(flow)) PROVE Onward
  <2>1. Pointed /\ IsFlow(flow')
    BY <1>1, <1>2, <1>4, NotePoints
  <2>2. phase' \in {"compiling", "failed"}
    BY <1>4 DEF Else
  <2> QED
    BY <1>4, <2>1, <2>2, ElseDraws DEF Onward
<1>5. ASSUME EndIf, Note(CloseIf(flow)) PROVE Onward
  <2>1. Pointed /\ IsFlow(flow')
    BY <1>1, <1>2, <1>5, NotePoints
  <2>2. phase' \in {"compiling", "failed"}
    BY <1>5 DEF EndIf
  <2> QED
    BY <1>5, <2>1, <2>2, EndIfDraws DEF Onward
<1>6. ASSUME NEW e \in Conditions, While(e), Note(OpenWhile(flow, Here)) PROVE Onward
  <2>1. Pointed /\ IsFlow(flow')
    BY <1>1, <1>2, <1>6, NotePoints
  <2> QED
    BY <1>6, <2>1, WhileDraws DEF Onward, While
<1> QED
  BY <1>3, <1>4, <1>5, <1>6

LEMMA LoopsDraw ==
  ASSUME LexicalJumps, IInv, Drawing, IsFlow(flow), phase = "compiling",
         \/ \E e \in Increments :
               EndWhile(e) /\ Note(CloseWhile(flow, IF e = <<>> THEN {} ELSE {Here}))
         \/ Break /\ Note(BreakOut(flow, Here))
         \/ Skip /\ Note(SkipOn(flow, Here))
  PROVE  Onward
<1>1. PICK p : p = Here
  OBVIOUS
<1>2. /\ Leading(flow, BreakOut(flow, p), {p}) /\ Leading(flow, SkipOn(flow, p), {p})
  BY JumpPoints
<1>3. ASSUME NEW e \in Increments, EndWhile(e),
             Note(CloseWhile(flow, IF e = <<>> THEN {} ELSE {Here}))
      PROVE  Onward
  <2>1. PICK increments : increments = IF e = <<>> THEN {} ELSE {p}
    OBVIOUS
  <2>2. increments \in {{}, {p}} /\ Note(CloseWhile(flow, increments))
    BY <1>1, <1>3, <2>1
  <2>3. Leading(flow, CloseWhile(flow, increments), increments)
    BY <2>2, ClosePoints
  <2>4. Pointed /\ IsFlow(flow')
    BY <1>1, <2>2, <2>3, NotePoints
  <2>5. phase' \in {"compiling", "failed"}
    BY <1>3 DEF EndWhile
  <2> QED
    BY <1>3, <2>4, <2>5, EndWhileDraws DEF Onward
<1>4. ASSUME Break, Note(BreakOut(flow, Here)) PROVE Onward
  <2>1. Pointed /\ IsFlow(flow')
    BY <1>1, <1>2, <1>4, NotePoints
  <2>2. CanJump /\ AddJump("breaks") /\ Done("break") /\ phase' = phase /\ "break" \in Lasts
    BY <1>4 DEF Break, AddJump, Lasts
  <2> QED
    BY <2>1, <2>2, LeaveDraws DEF Onward
<1>5. ASSUME Skip, Note(SkipOn(flow, Here)) PROVE Onward
  <2>1. Pointed /\ IsFlow(flow')
    BY <1>1, <1>2, <1>5, NotePoints
  <2>2. CanJump /\ AddJump("skips") /\ Done("skip") /\ phase' = phase /\ "skip" \in Lasts
    BY <1>5 DEF Skip, AddJump, Lasts
  <2> QED
    BY <2>1, <2>2, LeaveDraws DEF Onward
<1> QED
  BY <1>3, <1>4, <1>5

(* The compiler only acts while it compiles.                               *)
LEMMA Compiling ==
  ASSUME Compile
  PROVE  phase = "compiling"
<1>1. ASSUME Simple PROVE phase = "compiling"
  BY <1>1 DEF Simple, ExprStmt, PrintStmt, VarDecl, Return, CanDeclare, CanBegin
<1>2. ASSUME Nested PROVE phase = "compiling"
  BY <1>2 DEF Nested, Block, EndBlock, FnDecl, CanNest, CanDeclare, CanBegin, CanEnd
<1>3. \A u : EndFn(u) => phase = "compiling"
  BY DEF EndFn, CanEnd
<1>4. \A e : If(e) \/ While(e) \/ EndWhile(e) => phase = "compiling"
  BY DEF If, While, EndWhile, CanNest, CanBegin, CanEnd
<1>5. Else \/ EndIf \/ Break \/ Skip => phase = "compiling"
  BY DEF Else, EndIf, Break, Skip, CanEnd, CanBegin
<1> QED
  BY <1>1, <1>2, <1>3, <1>4, <1>5 DEF Compile

LEMMA CompileDraws ==
  ASSUME LexicalJumps, IInv, Placing, Chosen, Drawing, IsFlow(flow), phase = "compiling", Compile
  PROVE  Onward
BY SimpleDraws, NestedDraws, FunctionDraws, BranchesDraw, LoopsDraw DEF Compile

-----------------------------------------------------------------------------
(* The invariant of compilation and execution.                             *)

Unused == cells = [i \in 0 .. StackBound - 1 |-> Unknown] /\ held = <<>>
RunInv == /\ IInv /\ IsFlow(flow)
          /\ phase = "compiling" => Drawing /\ Placing /\ Chosen /\ Unused
          /\ phase = "compiled" => Covered

LEMMA RunInitInv ==
  ASSUME RunInit
  PROVE  RunInv
<1>1. /\ chunk = EmptyChunk /\ enclosing = <<>> /\ loops = <<>> /\ open = <<Frame("script")>>
      /\ profile \in Profiles /\ symbols \in Nat
      /\ phase = "compiling" /\ flow = EmptyFlow(Origin) /\ IInv
  BY InitInv DEF RunInit, Init
<1>2. IsFlow(flow) /\ flow.points = {}
  BY <1>1 DEF EmptyFlow, IsFlow
<1>3. Len(open) = 1 /\ open[1] = Frame("script")
  BY <1>1
<1>4. open[1].kind = "script" /\ open[1].locals = <<>>
  BY <1>3 DEF Frame
<1>5. Script(open, 1)
  <2>1. \A i \in 1 .. 1 : open[i].kind # "fn"
    BY <1>4
  <2> QED
    BY <1>3, <2>1 DEF Script
<1>6. PICK d : d = [i \in Nat |-> Bare]
  OBVIOUS
<1>7. d \in [Nat -> Floors] /\ d \in [Nat -> Shapes] /\ \A i \in Nat : d[i] = Bare
  BY <1>6, BareFloor, FloorType
<1>8. Whole(chunk) /\ chunk \in Chunks
  BY <1>1, EmptySound DEF Sound
<1>9. Count(chunk) = 0 /\ chunk.meaning = {}
  BY <1>1 DEF EmptyChunk, Count
<1>10. Charts(chunk, d, WaitingTo(open, loops, 1))
  <2>1. Ops(chunk) = {}
    BY <1>9 DEF Ops
  <2>2. d[0] = Shape(0, {}, None)
    BY <1>7 DEF Bare
  <2> QED
    BY <1>7, <1>8, <1>9, <2>1, <2>2 DEF Charts, Anchored
<1>11. Waits(chunk, d, open, loops, d, 1)
  <2>1. HolesOf(open, loops, 1) = {}
    BY <1>4 DEF HolesOf, Branches
  <2>2. d[1] = Over(d[1 - 1], open[1].locals)
    BY <1>4, <1>7, BareFloor, OverNothing
  <2> QED
    BY <1>4, <2>1, <2>2 DEF Waits
<1>12. ChartedBy(chunk, open, loops, 1, flow.points, d, d)
  <2>1. d[Count(chunk)] = d[1] /\ d[0] = Bare
    BY <1>7, <1>9
  <2>2. \A i \in 1 .. 1 : Waits(chunk, d, open, loops, d, i)
    BY <1>11
  <2> QED
    BY <1>2, <1>7, <1>10, <2>1, <2>2 DEF ChartedBy
<1>13. Drawing
  BY <1>1, <1>5, <1>12 DEF Drawing, Charted, ScriptCode
<1>14. Placing /\ Chosen
  BY <1>1, NothingPlaced
<1>15. Unused
  BY DEF RunInit, Unused
<1> QED
  BY <1>1, <1>2, <1>13, <1>14, <1>15 DEF RunInv

(* What compiles and runs is what the code generator does.                 *)
LEMMA CompileIsNext ==
  ASSUME Compile
  PROVE  Next
BY DEF Compile, Simple, Nested, Next

LEMMA RunsNext ==
  ASSUME [RunNext]_vars
  PROVE  [Next]_codeVars
<1>1. ASSUME Compile PROVE [Next]_codeVars
  BY <1>1, CompileIsNext
<1>2. ASSUME Load PROVE [Next]_codeVars
  BY <1>2 DEF Load, Next
<1>3. UNCHANGED <<codeVars, flow>> => [Next]_codeVars
  OBVIOUS
<1>4. UNCHANGED vars => UNCHANGED codeVars
  BY DEF vars, codeVars
<1> QED
  BY <1>1, <1>2, <1>3, <1>4 DEF RunNext

(* The constants of a compiled script are those of its source.             *)
LEMMA CompiledDenotes ==
  ASSUME LexicalJumps, IInv, phase = "compiled", Small
  PROVE  Denotes(chunk)
<1>1. Sound(chunk, {})
  BY AllSound
<1> QED
  BY <1>1, PooledDenotes DEF Small

LEMMA RunInvNext ==
  ASSUME LexicalJumps, RunInv, [RunNext]_vars
  PROVE  RunInv'
<1>1. IInv'
  BY RunsNext, Inductive DEF RunInv
<1>2. ASSUME Compile, UNCHANGED runVars
      PROVE  RunInv'
  <2>1. phase = "compiling" /\ Drawing /\ Placing /\ Chosen /\ Unused /\ IInv /\ IsFlow(flow)
    BY <1>2, Compiling DEF RunInv
  <2>2. Onward
    BY <1>2, <2>1, CompileDraws
  <2>3. Typed /\ Typed'
    BY <1>1, <2>1 DEF IInv
  <2>4. phase' = "compiling" => Placing' /\ Chosen'
    BY <1>2, <2>1, <2>3, CompilePlaces
  <2>5. Unused'
    BY <1>2, <2>1 DEF Unused, runVars
  <2> QED
    BY <1>1, <2>2, <2>4, <2>5 DEF Onward, RunInv
<1>3. ASSUME Load
      PROVE  RunInv'
  <2>1. phase = "compiling" /\ phase' = "compiled"
    BY <1>3 DEF Load, Finish, CanEnd
  <2>2. Covered' /\ IsFlow(flow')
    BY <1>3, <2>1, LoadCovers DEF RunInv, Unused
  <2> QED
    BY <1>1, <2>1, <2>2 DEF RunInv
<1>4. ASSUME Step, UNCHANGED <<codeVars, flow>>
      PROVE  RunInv'
  <2>1. phase = "compiled"
    BY <1>4 DEF Step, Constant, PushNil, LoadGlobal, StoreGlobal, Pop, Add, CallValue, LoadLocal,
                StoreLocal, MakeArray, Collect, JumpIfFalse, JumpAlways, Halt, At, Running
  <2>2. phase' = "compiled" /\ IsFlow(flow')
    BY <1>4, <2>1 DEF codeVars, RunInv
  <2>3. Small => Denotes(chunk)
    BY <2>1, CompiledDenotes DEF RunInv
  <2>4. Covered'
    BY <1>4, <2>1, <2>3, StepCovers DEF RunInv
  <2> QED
    BY <1>1, <2>2, <2>4 DEF RunInv
<1>5. ASSUME UNCHANGED vars
      PROVE  RunInv'
  <2>1. Drawing => Drawing'
    BY <1>5 DEF vars, Drawing, ScriptCode
  <2>2. Covered => Covered'
    BY <1>5 DEF vars, Covered, CoveredBy, On, Keeping, Filling, Partial, Base, Small
  <2>3. (Placing => Placing') /\ (Chosen => Chosen')
    BY <1>5 DEF vars, Placing, Chosen
  <2>4. Unused => Unused'
    BY <1>5 DEF vars, Unused
  <2>5. phase' = phase /\ IsFlow(flow')
    BY <1>5 DEF vars, RunInv
  <2> QED
    BY <1>1, <2>1, <2>2, <2>3, <2>4, <2>5 DEF RunInv
<1> QED
  BY <1>2, <1>3, <1>4, <1>5 DEF RunNext

(* The instruction of a script that runs.                                  *)
LEMMA RunsOn ==
  ASSUME RunInv, NEW op, At(op)
  PROVE  \E d, x, y : Executing(op, d, x, y)
<1>1. PICK d : CoveredBy(d)
  BY DEF RunInv, At, Running, Covered
<1> QED
  BY <1>1, Executed

-----------------------------------------------------------------------------
(* Results.                                                                *)

(* Compiling a script to run it is a behaviour of the code generator: what *)
(* is proved of Codegen holds of the chunks that are run.                  *)
THEOREM RunsCode == RunSpec => Spec
<1>1. RunInit => Init
  BY DEF RunInit
<1>2. [RunNext]_vars => [Next]_codeVars
  BY RunsNext
<1> QED
  BY <1>1, <1>2, PTL DEF RunSpec, Spec

(* While a script runs, however its conditions turn out, the machine comes *)
(* to a statement with a cell on the stack for each local that is alive    *)
(* there: no break, skip, branch or end of a block takes one too many.     *)
THEOREM StackStaysCovered ==
  ASSUME LexicalJumps
  PROVE  RunSpec => []StackCovers
<1>1. RunInit => RunInv
  BY RunInitInv
<1>2. RunInv /\ [RunNext]_vars => RunInv'
  BY RunInvNext
<1>3. RunInv => StackCovers
  <2> SUFFICES ASSUME RunInv, Running, NEW p \in flow.points, pc = p[1]
               PROVE  top >= p[2]
    BY DEF StackCovers
  <2>1. PICK d : CoveredBy(d)
    BY DEF RunInv, Running, Covered
  <2>2. d \in [Nat -> Shapes] /\ pc \in 0 .. Count(chunk) - 1 /\ Count(chunk) \in Nat
    BY <2>1, ChunkType DEF CoveredBy, Charts, Running
  <2>3. pc # Halted /\ d[pc].depth \in Nat
    BY <2>2, ShapesAre DEF Halted
  <2>4. p[2] \in Nat /\ p[2] <= d[pc].depth /\ top \in Int /\ d[pc].depth <= top
    BY <2>1, <2>3 DEF CoveredBy, Reached, On
  <2> QED
    BY <2>3, <2>4
<1> QED
  BY <1>1, <1>2, <1>3, PTL DEF RunSpec

(* resolveScope gives a local its slot and the code generator stores and   *)
(* loads it there: when a script reads a local it finds the value that was *)
(* stored to this local last, in a cell that no other local, no value of   *)
(* an expression and nothing left by earlier lines took from it.  The      *)
(* blocks declare first what they declare (Orderly), and the slots fit the *)
(* byte that an operand is cut to.                                         *)
THEOREM LocalsStayKept ==
  ASSUME LexicalJumps, Orderly, LocalsFit
  PROVE  RunSpec => []LocalsKept
<1>1. RunInit => RunInv
  BY RunInitInv
<1>2. RunInv /\ [RunNext]_vars => RunInv'
  BY RunInvNext
<1>3. RunInv => LocalsKept
  <2> SUFFICES ASSUME RunInv, At("OP_LOAD_LOC")
               PROVE  Meaning[2] \in DOMAIN held /\ cells[Operand(1)] = held[Meaning[2]]
    BY DEF LocalsKept
  <2>1. PICK op : op = "OP_LOAD_LOC"
    OBVIOUS
  <2>2. PICK d, x, y : Executing(op, d, x, y)
    BY <2>1, RunsOn
  <2>3. Tracked
    BY DEF Tracked
  <2> QED
    BY <2>1, <2>2, <2>3, LocalRead
<1> QED
  BY <1>1, <1>2, <1>3, PTL DEF RunSpec

(* The batches that parseArray cuts a literal into are stored one behind   *)
(* the other by OP_COLLECT: an array that is printed has at each index the *)
(* element that the source has there, and none beyond.  The batch and the  *)
(* length of the array fit a byte, and so do the indices of the constants. *)
THEOREM ArraysComeFilled ==
  ASSUME LexicalJumps, Orderly, LocalsFit, ArraysFit
  PROVE  RunSpec => [](Len(chunk.constants) <= ByteSize => ArraysFilled)
<1>1. RunInit => RunInv
  BY RunInitInv
<1>2. RunInv /\ [RunNext]_vars => RunInv'
  BY RunInvNext
<1>3. RunInv => (Len(chunk.constants) <= ByteSize => ArraysFilled)
  <2> SUFFICES ASSUME RunInv, Len(chunk.constants) <= ByteSize, At("OP_PRINT"),
                      Peek(0)[1] = "array"
               PROVE  Peek(0)[3] = [i \in 1 .. Peek(0)[2] |-> Number(i)]
    BY DEF ArraysFilled
  <2>1. PICK op : op = "OP_PRINT"
    OBVIOUS
  <2>2. PICK d, x, y : Executing(op, d, x, y)
    BY <2>1, RunsOn
  <2>3. Small /\ Arrayed
    BY DEF Small, Arrayed, Tracked
  <2>4. Leads(chunk, pc, x, y) /\ OpAt(chunk, pc) = op
    BY <2>1, <2>2 DEF Executing, Passes, Leaving
  <2>5. x.array = None
    BY <2>1, <2>3, <2>4 DEF Leads, FillsArray
  <2>6. \A i \in DOMAIN cells : Sane(cells[i])
    BY <2>2, <2>3, <2>5 DEF Executing, Filling
  <2>7. top - 1 - 0 \in DOMAIN cells
    <3>1. Effect(chunk, pc) = -1
      BY <2>1, <2>2, EffectOf DEF Popping
    <3>2. y.depth <= x.depth + (-1)
      BY <2>4, <3>1 DEF Leads
    <3>3. x.depth \in Nat /\ y.depth \in Nat /\ x.depth <= top /\ top \in Int /\ top <= StackBound
          /\ DOMAIN cells = 0 .. StackBound - 1
      BY <2>2 DEF Executing
    <3> QED
      BY <3>2, <3>3, CodeRunAssumption
  <2>8. Sane(Peek(0))
    BY <2>6, <2>7 DEF Peek
  <2> QED
    BY <2>8 DEF Sane, Numbers
<1> QED
  BY <1>1, <1>2, <1>3, PTL DEF RunSpec
=============================================================================
