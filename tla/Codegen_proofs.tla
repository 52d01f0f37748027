---------------------------- MODULE Codegen_proofs ----------------------------
(***************************************************************************)
(* Proofs about Codegen, for any width of a byte, any size of a batch and  *)
(* programs of any length and depth.                                       *)
(***************************************************************************)
EXTENDS Codegen, Basics, FiniteSetTheorems, SequenceTheorems, TLAPS

-----------------------------------------------------------------------------
(* Cells and chunks.                                                       *)

OpCells == [op : DOMAIN Width]
ByteCells == [byte : 0 .. ByteSize - 1]
Meanings == Nat \X (Constants \cup ({"local"} \X Nat))

LEMMA CellKinds ==
  /\ Cells = OpCells \cup ByteCells
  /\ \A c \in OpCells : IsOp(c) /\ c.op \in DOMAIN Width
  /\ \A c \in ByteCells : ~IsOp(c) /\ c.byte \in 0 .. ByteSize - 1
<1>1. ASSUME NEW c \in OpCells
      PROVE  IsOp(c) /\ c.op \in DOMAIN Width
  <2>1. DOMAIN c = {"op"}
    BY DEF OpCells
  <2> QED
    BY <2>1 DEF OpCells, IsOp
<1>2. ASSUME NEW c \in ByteCells
      PROVE  ~IsOp(c) /\ c.byte \in 0 .. ByteSize - 1
  <2>1. DOMAIN c = {"byte"}
    BY DEF ByteCells
  <2> QED
    BY <2>1 DEF ByteCells, IsOp
<1> QED
  BY <1>1, <1>2 DEF Cells, OpCells, ByteCells

LEMMA Widths ==
  /\ DOMAIN Width = Alone \cup WithOne \cup WithTwo
  /\ \A op \in Alone : Width[op] = 0
  /\ \A op \in WithOne : Width[op] = 1
  /\ \A op \in WithTwo : Width[op] = 2
  /\ \A op \in DOMAIN Width : Width[op] \in 0 .. 2
BY DEF Width, Alone, WithOne, WithTwo

LEMMA ByteType ==
  ASSUME NEW n \in Int
  PROVE  Byte(n) \in 0 .. ByteSize - 1 /\ [byte |-> Byte(n)] \in ByteCells
<1>1. Byte(n) \in 0 .. ByteSize - 1
  BY CodegenAssumption DEF Byte
<1> QED
  BY <1>1 DEF ByteCells

LEMMA SmallByte ==
  ASSUME NEW n \in 0 .. ByteSize - 1
  PROVE  Byte(n) = n
BY CodegenAssumption DEF Byte

LEMMA ChunkType ==
  ASSUME NEW ch \in Chunks
  PROVE  /\ ch.code \in Seq(Cells) /\ Count(ch) \in Nat
         /\ \A i \in 1 .. Count(ch) : ch.code[i] \in Cells
         /\ DOMAIN ch.code = 1 .. Count(ch)
         /\ ch.constants \in Seq(Constants)
         /\ ch.meaning \in SUBSET Meanings
<1>1. ch.code \in Seq(Cells)
  BY DEF Chunks
<1> QED
  BY <1>1 DEF Chunks, Count, Meanings

IsJoin(S, s, t, all) ==
  /\ all \in Seq(S) /\ Len(all) = Len(s) + Len(t)
  /\ \A i \in 1 .. Len(s) : all[i] = s[i]
  /\ \A i \in 1 .. Len(t) : all[Len(s) + i] = t[i]

LEMMA Joined ==
  ASSUME NEW S, NEW s \in Seq(S), NEW t \in Seq(S), NEW all, all = s \o t
  PROVE  IsJoin(S, s, t, all)
<1>1. /\ all \in Seq(S) /\ Len(all) = Len(s) + Len(t)
      /\ \A i \in 1 .. Len(s) + Len(t) :
           all[i] = IF i <= Len(s) THEN s[i] ELSE t[i - Len(s)]
  BY ConcatProperties
<1>2. Len(s) \in Nat /\ Len(t) \in Nat
  OBVIOUS
<1>3. ASSUME NEW i \in 1 .. Len(t)
      PROVE  all[Len(s) + i] = t[i]
  <2>1. Len(s) + i \in 1 .. Len(s) + Len(t) /\ ~(Len(s) + i <= Len(s))
        /\ Len(s) + i - Len(s) = i
    BY <1>2
  <2> QED
    BY <1>1, <2>1
<1>4. ASSUME NEW i \in 1 .. Len(s)
      PROVE  all[i] = s[i]
  <2>1. i \in 1 .. Len(s) + Len(t) /\ i <= Len(s)
    BY <1>2
  <2> QED
    BY <1>1, <2>1
<1> QED
  BY <1>1, <1>3, <1>4 DEF IsJoin

LEMMA Regrouped ==
  ASSUME NEW S, NEW a \in Seq(S), NEW b \in Seq(S), NEW c \in Seq(S)
  PROVE  (a \o b) \o c = a \o (b \o c)
<1>1. PICK ab, bc, left, right :
        ab = a \o b /\ bc = b \o c /\ left = ab \o c /\ right = a \o bc
  OBVIOUS
<1>2. IsJoin(S, a, b, ab) /\ IsJoin(S, b, c, bc)
  BY <1>1, Joined
<1>3. ab \in Seq(S) /\ bc \in Seq(S)
  BY <1>2 DEF IsJoin
<1>4. IsJoin(S, ab, c, left) /\ IsJoin(S, a, bc, right)
  BY <1>1, <1>3, Joined
<1>5. PICK m, n, k : m = Len(a) /\ n = Len(b) /\ k = Len(c)
  OBVIOUS
<1>6. m \in Nat /\ n \in Nat /\ k \in Nat
  BY <1>5
<1>7. /\ Len(ab) = m + n /\ Len(bc) = n + k
      /\ left \in Seq(S) /\ Len(left) = m + n + k
      /\ right \in Seq(S) /\ Len(right) = m + (n + k)
  BY <1>2, <1>4, <1>5 DEF IsJoin
<1>8. ASSUME NEW i \in 1 .. m + n + k
      PROVE  left[i] = right[i]
  <2>1. CASE i \in 1 .. m
    <3>1. i \in 1 .. m + n
      BY <1>6, <2>1
    <3>2. left[i] = ab[i] /\ ab[i] = a[i] /\ right[i] = a[i]
      BY <1>2, <1>4, <1>5, <1>7, <2>1, <3>1 DEF IsJoin
    <3> QED
      BY <3>2
  <2>2. CASE i \in m + 1 .. m + n
    <3>1. PICK j : j = i - m
      OBVIOUS
    <3>2. j \in 1 .. n /\ i = m + j /\ i \in 1 .. m + n /\ j \in 1 .. n + k
      BY <1>6, <2>2, <3>1
    <3>3. left[i] = ab[i] /\ ab[m + j] = b[j] /\ right[m + j] = bc[j] /\ bc[j] = b[j]
      BY <1>2, <1>4, <1>5, <1>7, <3>2 DEF IsJoin
    <3> QED
      BY <3>2, <3>3
  <2>3. CASE i \in m + n + 1 .. m + n + k
    <3>1. PICK j : j = i - m - n
      OBVIOUS
    <3>2. j \in 1 .. k /\ i = m + n + j /\ i = m + (n + j) /\ n + j \in 1 .. n + k
      BY <1>6, <2>3, <3>1
    <3>3. left[m + n + j] = c[j] /\ right[m + (n + j)] = bc[n + j] /\ bc[n + j] = c[j]
      BY <1>2, <1>4, <1>5, <1>7, <3>2 DEF IsJoin
    <3> QED
      BY <3>2, <3>3
  <2> QED
    BY <1>6, <2>1, <2>2, <2>3
<1>9. left = right
  <2>1. m + n + k = m + (n + k)
    BY <1>6
  <2> QED
    BY <1>7, <1>8, <2>1, SeqEqual
<1> QED
  BY <1>1, <1>9

(* What emitBytes does to a chunk.                                         *)
Emitted(ch, to, op, operands) ==
  /\ to \in Chunks
  /\ Count(to) = Count(ch) + 1 + Len(operands)
  /\ \A i \in 1 .. Count(ch) : to.code[i] = ch.code[i]
  /\ to.code[Count(ch) + 1] = [op |-> op]
  /\ \A j \in 1 .. Len(operands) : to.code[Count(ch) + 1 + j] = [byte |-> Byte(operands[j])]

LEMMA EmitType ==
  ASSUME NEW ch \in Chunks, NEW op \in DOMAIN Width, NEW operands \in Seq(Int)
  PROVE  /\ Emitted(ch, Emit(ch, op, operands), op, operands)
         /\ Emit(ch, op, operands).constants = ch.constants
         /\ Emit(ch, op, operands).meaning = ch.meaning
<1>1. Len(operands) \in Nat /\ DOMAIN operands = 1 .. Len(operands)
      /\ \A j \in 1 .. Len(operands) : operands[j] \in Int
  OBVIOUS
<1>2. PICK bytes : bytes = [i \in DOMAIN operands |-> [byte |-> Byte(operands[i])]]
  OBVIOUS
<1>3. bytes \in Seq(Cells) /\ Len(bytes) = Len(operands)
      /\ \A j \in 1 .. Len(operands) : bytes[j] = [byte |-> Byte(operands[j])]
  <2>1. \A j \in 1 .. Len(operands) : bytes[j] = [byte |-> Byte(operands[j])]
    BY <1>1, <1>2
  <2>2. \A j \in 1 .. Len(operands) : [byte |-> Byte(operands[j])] \in Cells
    BY <1>1, ByteType, CellKinds
  <2>3. bytes \in [1 .. Len(operands) -> Cells]
    BY <1>1, <1>2, <2>2
  <2> QED
    BY <1>1, <2>1, <2>3
<1>4. PICK one : one = <<[op |-> op]>>
  OBVIOUS
<1>5. one \in Seq(Cells) /\ Len(one) = 1 /\ one[1] = [op |-> op]
  <2>1. [op |-> op] \in Cells
    BY CellKinds DEF OpCells
  <2> QED
    BY <1>4, <2>1
<1>6. PICK first : first = ch.code \o one
  OBVIOUS
<1>7. first \in Seq(Cells) /\ Len(first) = Count(ch) + 1
      /\ (\A i \in 1 .. Count(ch) : first[i] = ch.code[i])
      /\ first[Count(ch) + 1] = [op |-> op]
  <2>1. PICK code : code = ch.code
    OBVIOUS
  <2>2. code \in Seq(Cells) /\ Len(code) = Count(ch) /\ first = code \o one
    BY <1>6, <2>1, ChunkType DEF Count
  <2>3. /\ first \in Seq(Cells) /\ Len(first) = Len(code) + Len(one)
        /\ \A i \in 1 .. Len(code) : first[i] = code[i]
        /\ \A i \in 1 .. Len(one) : first[Len(code) + i] = one[i]
    <3>1. IsJoin(Cells, code, one, first)
      BY <1>5, <2>2, Joined
    <3> QED
      BY <3>1 DEF IsJoin
  <2>4. 1 \in 1 .. Len(one)
    BY <1>5
  <2> QED
    BY <1>5, <2>1, <2>2, <2>3, <2>4
<1>8. PICK all : all = first \o bytes
  OBVIOUS
<1>9. all \in Seq(Cells) /\ Len(all) = Count(ch) + 1 + Len(operands)
      /\ (\A i \in 1 .. Count(ch) + 1 : all[i] = first[i])
      /\ (\A j \in 1 .. Len(operands) : all[Count(ch) + 1 + j] = bytes[j])
  <2>1. /\ all \in Seq(Cells) /\ Len(all) = Len(first) + Len(bytes)
        /\ \A i \in 1 .. Len(first) : all[i] = first[i]
        /\ \A i \in 1 .. Len(bytes) : all[Len(first) + i] = bytes[i]
    <3>1. IsJoin(Cells, first, bytes, all)
      BY <1>3, <1>7, <1>8, Joined
    <3> QED
      BY <3>1 DEF IsJoin
  <2> QED
    BY <1>3, <1>7, <2>1
<1>10. Emit(ch, op, operands) = [ch EXCEPT !.code = all]
  <2>1. all = ch.code \o one \o bytes
    BY <1>6, <1>8
  <2> QED
    BY <1>2, <1>4, <2>1 DEF Emit
<1>11. PICK to : to = Emit(ch, op, operands)
  OBVIOUS
<1>12. to \in Chunks /\ to.code = all /\ to.constants = ch.constants /\ to.meaning = ch.meaning
  BY <1>9, <1>10, <1>11 DEF Chunks
<1>13. Count(ch) \in Nat /\ Count(to) = Len(all)
  BY <1>12, ChunkType DEF Count
<1>14. \A i \in 1 .. Count(ch) : all[i] = ch.code[i]
  <2>1. \A i \in 1 .. Count(ch) : i \in 1 .. Count(ch) + 1
    BY <1>13
  <2> QED
    BY <1>7, <1>9, <2>1
<1>15. all[Count(ch) + 1] = [op |-> op]
  <2>1. Count(ch) + 1 \in 1 .. Count(ch) + 1
    BY <1>13
  <2> QED
    BY <1>7, <1>9, <2>1
<1>16. \A j \in 1 .. Len(operands) : all[Count(ch) + 1 + j] = [byte |-> Byte(operands[j])]
  BY <1>3, <1>9
<1>17. Emitted(ch, to, op, operands)
  BY <1>9, <1>12, <1>13, <1>14, <1>15, <1>16 DEF Emitted
<1> QED
  BY <1>11, <1>12, <1>17
-----------------------------------------------------------------------------
(* The inductive invariant.                                                *)

(* Where instructions begin: the cells with an opcode, and the end.        *)
Ops(ch) == {o \in 0 .. Count(ch) - 1 : IsOp(ch.code[o + 1])}
Begins(ch) == Ops(ch) \cup {Count(ch)}
OpAt(ch, o) == ch.code[o + 1].op

(* An instruction is followed by the next one, without one in its operands.*)
Whole(ch) ==
  /\ 0 \in Begins(ch)
  /\ \A o \in Ops(ch) :
       /\ OpAt(ch, o) = "OP_CLOSURE" => o + 2 < Count(ch) /\ o + 2 \notin Ops(ch)
       /\ Following(ch, o) \in Begins(ch)
       /\ \A k \in o + 1 .. Following(ch, o) - 1 : k \notin Ops(ch)

(* A jump lands on an instruction, unless its operand is one of holes.     *)
Landed(ch, o) == Target(ch, o) \in Begins(ch) \ {o}
Open(ch, o, holes) == o + 1 \in holes /\ Short(ch, o + 1) = ShortMax
Hole(ch, h) == h - 1 \in Ops(ch) /\ OpAt(ch, h - 1) \in {"OP_JIF", "OP_JMP"}
JumpsLanded(ch, holes) ==
  /\ \A o \in Ops(ch) : OpAt(ch, o) \in Jumps => Landed(ch, o) \/ Open(ch, o, holes)
  /\ \A h \in holes : Hole(ch, h)

(* What has a meaning names its constant, cut to a byte.                   *)
Naming == {"OP_CONST", "OP_LOAD_GLOB", "OP_STORE_GLOB", "OP_DEFINE_GLOB",
           "OP_LOAD_LOC", "OP_STORE_LOC", "OP_CLOSURE"}
Names(ch, m) ==
  /\ m[1] \in Ops(ch) /\ OpAt(ch, m[1]) \in Naming
  /\ m[2][1] # "local" =>
       \E i \in DOMAIN ch.constants : /\ ch.constants[i] = m[2]
                                      /\ ByteAt(ch, m[1] + 1) = Byte(i - 1)
Pooled(ch) == IsInjective(ch.constants) /\ \A m \in ch.meaning : Names(ch, m)

Sound(ch, holes) == ch \in Chunks /\ Whole(ch) /\ JumpsLanded(ch, holes) /\ Pooled(ch)

-----------------------------------------------------------------------------
(* Instructions.                                                           *)

LEMMA OpsAre ==
  ASSUME NEW ch \in Chunks, NEW o \in 0 .. Count(ch) - 1
  PROVE  /\ o \in Nat /\ ch.code[o + 1] \in Cells
         /\ o \in Ops(ch) <=> ch.code[o + 1] \in OpCells
         /\ o \notin Ops(ch) <=> ch.code[o + 1] \in ByteCells
<1>1. Count(ch) \in Nat
  BY ChunkType
<1>2. o \in Nat /\ o + 1 \in 1 .. Count(ch)
  BY <1>1
<1>3. ch.code[o + 1] \in Cells
  BY <1>2, ChunkType
<1> QED
  BY <1>2, <1>3, CellKinds DEF Ops

(* An instruction, where it ends and what its operands are.                *)
Instruction(ch, o) ==
  /\ o \in Nat /\ o < Count(ch) /\ ch.code[o + 1] \in OpCells
  /\ OpAt(ch, o) \in DOMAIN Width /\ OperandsAt(ch, o) \in Nat
  /\ Following(ch, o) \in Nat /\ Following(ch, o) = o + 1 + OperandsAt(ch, o)
  /\ Following(ch, o) <= Count(ch)
  /\ OpAt(ch, o) \in Naming => OperandsAt(ch, o) >= 1
  /\ OpAt(ch, o) = "OP_CLOSURE" => OperandsAt(ch, o) >= 2
  /\ OpAt(ch, o) \in Jumps => OperandsAt(ch, o) = 2
  /\ \A k \in o + 1 .. Following(ch, o) - 1 : ch.code[k + 1] \in ByteCells

LEMMA InstructionIs ==
  ASSUME NEW ch \in Chunks, Whole(ch), NEW o \in Ops(ch)
  PROVE  Instruction(ch, o)
<1>1. Count(ch) \in Nat
  BY ChunkType
<1>2. o \in 0 .. Count(ch) - 1
  BY DEF Ops
<1>3. o \in Nat /\ o < Count(ch)
  BY <1>1, <1>2
<1>4. ch.code[o + 1] \in OpCells
  BY <1>2, OpsAre
<1>5. OpAt(ch, o) \in DOMAIN Width
  BY <1>4, CellKinds DEF OpAt
<1>6. /\ OperandsAt(ch, o) \in Nat
      /\ OpAt(ch, o) \in Naming => OperandsAt(ch, o) >= 1
      /\ OpAt(ch, o) = "OP_CLOSURE" => OperandsAt(ch, o) >= 2
      /\ OpAt(ch, o) \in Jumps => OperandsAt(ch, o) = 2
  <2>1. CASE OpAt(ch, o) = "OP_CLOSURE"
    <3>1. o + 2 < Count(ch) /\ o + 2 \notin Ops(ch)
      BY <2>1 DEF Whole
    <3>2. o + 2 \in 0 .. Count(ch) - 1
      BY <1>1, <1>3, <3>1
    <3>3. ch.code[o + 2 + 1] \in ByteCells
      BY <3>1, <3>2, OpsAre
    <3>4. ByteAt(ch, o + 2) \in Nat
      BY <3>3, CellKinds, CodegenAssumption DEF ByteAt
    <3>5. OperandsAt(ch, o) = 2 + 2 * ByteAt(ch, o + 2)
      BY <2>1 DEF OperandsAt, OpAt
    <3> QED
      BY <2>1, <3>4, <3>5 DEF Jumps
  <2>2. CASE OpAt(ch, o) # "OP_CLOSURE"
    <3>1. OperandsAt(ch, o) = Width[OpAt(ch, o)]
      BY <2>2 DEF OperandsAt, OpAt
    <3>2. OpAt(ch, o) \in Naming => OpAt(ch, o) \in WithOne
      BY <2>2 DEF Naming, WithOne
    <3>3. OpAt(ch, o) \in Jumps => OpAt(ch, o) \in WithTwo
      BY DEF Jumps, WithTwo
    <3> QED
      BY <1>5, <2>2, <3>1, <3>2, <3>3, Widths
  <2> QED
    BY <2>1, <2>2
<1>7. Following(ch, o) = o + 1 + OperandsAt(ch, o) /\ Following(ch, o) \in Begins(ch)
  BY DEF Following, Whole
<1>8. Following(ch, o) \in Nat /\ Following(ch, o) <= Count(ch)
  BY <1>1, <1>3, <1>6, <1>7 DEF Begins, Ops
<1>9. ASSUME NEW k \in o + 1 .. Following(ch, o) - 1
       PROVE  ch.code[k + 1] \in ByteCells
  <2>1. k \in 0 .. Count(ch) - 1
    BY <1>1, <1>3, <1>8
  <2>2. k \notin Ops(ch)
    BY DEF Whole
  <2> QED
    BY <2>1, <2>2, OpsAre
<1> QED
  BY <1>3, <1>4, <1>5, <1>6, <1>7, <1>8, <1>9 DEF Instruction

(* An instruction whose cells stay the same.                               *)
SameOperands(ch, to, o) ==
  /\ OperandsAt(ch, o) >= 1 => ByteAt(to, o + 1) = ByteAt(ch, o + 1)
  /\ OperandsAt(ch, o) >= 2 => ByteAt(to, o + 2) = ByteAt(ch, o + 2)
SameAt(ch, to, o) ==
  /\ o \in Ops(to) /\ OpAt(to, o) = OpAt(ch, o)
  /\ OperandsAt(to, o) = OperandsAt(ch, o) /\ Following(to, o) = Following(ch, o)
  /\ OpAt(ch, o) \in Jumps => /\ Short(to, o + 1) = Short(ch, o + 1)
                              /\ Target(to, o) = Target(ch, o)
  /\ OpAt(ch, o) \in Naming => ByteAt(to, o + 1) = ByteAt(ch, o + 1)
  /\ SameOperands(ch, to, o)

LEMMA InstructionKept ==
  ASSUME NEW ch \in Chunks, NEW to \in Chunks, Whole(ch), NEW o \in Ops(ch),
         Count(ch) <= Count(to),
         \A i \in o + 1 .. Following(ch, o) : to.code[i] = ch.code[i]
  PROVE  SameAt(ch, to, o)
<1>1. Instruction(ch, o)
  BY InstructionIs
<1>2. Count(ch) \in Nat /\ Count(to) \in Nat
  BY ChunkType
<1>3. PICK w, f : w = OperandsAt(ch, o) /\ f = Following(ch, o)
  OBVIOUS
<1>4. o \in Nat /\ w \in Nat /\ f \in Nat /\ f = o + 1 + w /\ f <= Count(ch) /\ o < Count(ch)
  BY <1>1, <1>3 DEF Instruction
<1>5. \A i \in o + 1 .. f : to.code[i] = ch.code[i]
  BY <1>3
<1>6. to.code[o + 1] = ch.code[o + 1]
  BY <1>4, <1>5
<1>7. w >= 1 => to.code[o + 2] = ch.code[o + 2]
  BY <1>4, <1>5
<1>8. w >= 2 => to.code[o + 3] = ch.code[o + 3]
  BY <1>4, <1>5
<1>9. o + 1 + 1 = o + 2 /\ o + 2 + 1 = o + 3 /\ o + 1 + 1 + 1 = o + 3
  BY <1>4
<1>10. OpAt(to, o) = OpAt(ch, o)
  BY <1>6 DEF OpAt
<1>11. o \in Ops(to)
  <2>1. o \in 0 .. Count(to) - 1
    BY <1>2, <1>4
  <2> QED
    BY <1>1, <1>6, <2>1, OpsAre DEF Instruction
<1>12. w >= 1 => ByteAt(to, o + 1) = ByteAt(ch, o + 1)
  BY <1>7, <1>9 DEF ByteAt
<1>13. w >= 2 => ByteAt(to, o + 2) = ByteAt(ch, o + 2) /\ ByteAt(to, o + 1 + 1) = ByteAt(ch, o + 1 + 1)
  BY <1>8, <1>9 DEF ByteAt
<1>14. OperandsAt(to, o) = OperandsAt(ch, o)
  <2>1. OpAt(ch, o) = "OP_CLOSURE" => w >= 2
    BY <1>1, <1>3 DEF Instruction
  <2> QED
    BY <1>10, <1>13, <2>1 DEF OperandsAt, OpAt
<1>15. Following(to, o) = Following(ch, o)
  BY <1>14 DEF Following
<1>16. OpAt(ch, o) \in Jumps => Short(to, o + 1) = Short(ch, o + 1)
  <2>1. OpAt(ch, o) \in Jumps => w = 2
    BY <1>1, <1>3 DEF Instruction
  <2>2. OpAt(ch, o) \in Jumps => w >= 1 /\ w >= 2
    BY <2>1
  <2> QED
    BY <1>12, <1>13, <2>2 DEF Short
<1>17. OpAt(ch, o) \in Jumps => Target(to, o) = Target(ch, o)
  BY <1>10, <1>16 DEF Target, OpAt
<1>18. OpAt(ch, o) \in Naming => ByteAt(to, o + 1) = ByteAt(ch, o + 1)
  BY <1>1, <1>3, <1>12 DEF Instruction
<1>19. SameOperands(ch, to, o)
  BY <1>3, <1>12, <1>13 DEF SameOperands
<1> QED
  BY <1>10, <1>11, <1>14, <1>15, <1>16, <1>17, <1>18, <1>19 DEF SameAt

(* The operands an instruction is emitted with are those the virtual       *)
(* machine will read.                                                      *)
Fitting(op, operands) ==
  IF op = "OP_CLOSURE"
  THEN Len(operands) >= 2 /\ Len(operands) = 2 + 2 * Byte(operands[2])
  ELSE Len(operands) = Width[op]

LEMMA EmittedCells ==
  ASSUME NEW ch \in Chunks, NEW to \in Chunks, NEW op \in DOMAIN Width,
         NEW operands \in Seq(Int), Emitted(ch, to, op, operands)
  PROVE  Ops(to) = Ops(ch) \cup {Count(ch)}
<1>1. PICK c, w : c = Count(ch) /\ w = Len(operands)
  OBVIOUS
<1>2. c \in Nat /\ w \in Nat /\ Count(to) = c + 1 + w
  BY <1>1, ChunkType DEF Emitted
<1>3. ASSUME NEW o \in 0 .. c - 1
      PROVE  o \in Ops(to) <=> o \in Ops(ch)
  <2>1. o + 1 \in 1 .. c /\ o \in 0 .. Count(to) - 1
    BY <1>2
  <2>2. to.code[o + 1] = ch.code[o + 1]
    BY <1>1, <2>1 DEF Emitted
  <2> QED
    BY <1>1, <2>1, <2>2 DEF Ops
<1>4. c \in Ops(to)
  <2>1. c \in 0 .. Count(to) - 1
    BY <1>2
  <2>2. to.code[c + 1] = [op |-> op]
    BY <1>1 DEF Emitted
  <2>3. to.code[c + 1] \in OpCells
    BY <2>2 DEF OpCells
  <2> QED
    BY <2>1, <2>3, OpsAre
<1>5. ASSUME NEW o \in c + 1 .. c + w
      PROVE  o \notin Ops(to)
  <2>1. PICK j : j = o - c
    OBVIOUS
  <2>2. j \in 1 .. w /\ o + 1 = c + 1 + j /\ o \in 0 .. Count(to) - 1
    BY <1>2, <2>1
  <2>3. to.code[c + 1 + j] = [byte |-> Byte(operands[j])]
    BY <1>1, <2>2 DEF Emitted
  <2>4. operands[j] \in Int
    BY <1>1, <2>2
  <2>5. to.code[o + 1] \in ByteCells
    BY <2>2, <2>3, <2>4, ByteType
  <2> QED
    BY <2>2, <2>5, OpsAre
<1>6. \A o \in Ops(ch) : o \in 0 .. c - 1
  BY <1>1 DEF Ops
<1>7. \A o \in Ops(to) : o \in 0 .. c - 1 \/ o = c \/ o \in c + 1 .. c + w
  BY <1>2 DEF Ops
<1> QED
  BY <1>1, <1>3, <1>4, <1>5, <1>6, <1>7

(* An emitted instruction leaves those before it as they are.              *)
Continued(ch, to, op) ==
  /\ Whole(to) /\ Ops(to) = Ops(ch) \cup {Count(ch)}
  /\ OpAt(to, Count(ch)) = op
  /\ \A o \in Ops(ch) : SameAt(ch, to, o)

LEMMA EmittedWhole ==
  ASSUME NEW ch \in Chunks, NEW to \in Chunks, NEW op \in DOMAIN Width,
         NEW operands \in Seq(Int), Emitted(ch, to, op, operands),
         Fitting(op, operands), Whole(ch)
  PROVE  Continued(ch, to, op)
<1>1. PICK c, w : c = Count(ch) /\ w = Len(operands)
  OBVIOUS
<1>2. c \in Nat /\ w \in Nat /\ Count(to) = c + 1 + w
  BY <1>1, ChunkType DEF Emitted
<1>3. Ops(to) = Ops(ch) \cup {c}
  BY <1>1, EmittedCells
<1>4. OpAt(to, c) = op
  BY <1>1 DEF Emitted, OpAt
<1>5. \A o \in Ops(ch) : Instruction(ch, o)
  BY InstructionIs
<1>6. ASSUME NEW o \in Ops(ch)
      PROVE  SameAt(ch, to, o)
  <2>1. PICK f : f = Following(ch, o)
    OBVIOUS
  <2>2. f \in Nat /\ f <= c /\ o \in Nat
    BY <1>1, <1>5, <2>1 DEF Instruction
  <2>3. \A i \in o + 1 .. f : to.code[i] = ch.code[i]
    <3>1. \A i \in o + 1 .. f : i \in 1 .. c
      BY <1>2, <2>2
    <3> QED
      BY <1>1, <3>1 DEF Emitted
  <2>4. Count(ch) <= Count(to)
    BY <1>1, <1>2
  <2> QED
    BY <2>1, <2>3, <2>4, InstructionKept
<1>7. OperandsAt(to, c) = w
  <2>1. CASE op = "OP_CLOSURE"
    <3>1. w >= 2 /\ w = 2 + 2 * Byte(operands[2])
      BY <1>1, <2>1 DEF Fitting
    <3>2. c + 1 + 2 = c + 2 + 1 /\ 2 \in 1 .. w
      BY <1>2, <3>1
    <3>3. to.code[c + 1 + 2] = [byte |-> Byte(operands[2])]
      BY <1>1, <3>2 DEF Emitted
    <3>4. ByteAt(to, c + 2) = Byte(operands[2])
      BY <3>2, <3>3 DEF ByteAt
    <3> QED
      BY <1>4, <2>1, <3>1, <3>4 DEF OperandsAt, OpAt
  <2>2. CASE op # "OP_CLOSURE"
    BY <1>1, <1>4, <2>2 DEF OperandsAt, OpAt, Fitting
  <2> QED
    BY <2>1, <2>2
<1>8. Following(to, c) = Count(to)
  BY <1>2, <1>7 DEF Following
<1>9. ASSUME NEW o \in Ops(ch)
      PROVE  /\ OpAt(to, o) = "OP_CLOSURE" => o + 2 < Count(to) /\ o + 2 \notin Ops(to)
             /\ Following(to, o) \in Begins(to)
             /\ \A k \in o + 1 .. Following(to, o) - 1 : k \notin Ops(to)
  <2>1. PICK f : f = Following(ch, o)
    OBVIOUS
  <2>2. f \in Nat /\ f <= c /\ o \in Nat
    BY <1>1, <1>5, <2>1 DEF Instruction
  <2>3. Following(to, o) = f /\ OpAt(to, o) = OpAt(ch, o)
    BY <1>6, <2>1 DEF SameAt
  <2>4. f \in Begins(ch) /\ \A k \in o + 1 .. f - 1 : k \notin Ops(ch)
    BY <2>1 DEF Whole
  <2>5. f \in Begins(to)
    BY <1>1, <1>3, <2>4 DEF Begins
  <2>6. \A k \in o + 1 .. f - 1 : k # c
    BY <1>2, <2>2
  <2>7. \A k \in o + 1 .. f - 1 : k \notin Ops(to)
    BY <1>3, <2>4, <2>6
  <2>8. OpAt(to, o) = "OP_CLOSURE" => o + 2 < c /\ o + 2 \notin Ops(ch)
    BY <1>1, <2>3 DEF Whole
  <2>9. OpAt(to, o) = "OP_CLOSURE" => o + 2 < Count(to) /\ o + 2 # c
    BY <1>2, <2>2, <2>8
  <2> QED
    BY <1>3, <2>3, <2>5, <2>7, <2>8, <2>9
<1>10. /\ OpAt(to, c) = "OP_CLOSURE" => c + 2 < Count(to) /\ c + 2 \notin Ops(to)
       /\ Following(to, c) \in Begins(to)
       /\ \A k \in c + 1 .. Following(to, c) - 1 : k \notin Ops(to)
  <2>1. \A k \in Ops(ch) : k < c
    BY <1>1, <1>2 DEF Ops
  <2>2. \A k \in c + 1 .. Count(to) - 1 : k \notin Ops(to)
    BY <1>2, <1>3, <2>1
  <2>3. Count(to) \in Begins(to)
    BY DEF Begins
  <2>4. OpAt(to, c) = "OP_CLOSURE" => w >= 2
    BY <1>1, <1>4 DEF Fitting
  <2>5. OpAt(to, c) = "OP_CLOSURE" => c + 2 < Count(to)
    BY <1>2, <2>4
  <2>6. OpAt(to, c) = "OP_CLOSURE" => c + 2 \in c + 1 .. Count(to) - 1
    BY <1>2, <2>5
  <2> QED
    BY <1>8, <2>2, <2>3, <2>5, <2>6
<1>11. 0 \in Begins(to)
  <2>1. 0 \in Ops(ch) \/ 0 = c
    BY <1>1 DEF Whole, Begins
  <2> QED
    BY <1>3, <2>1 DEF Begins
<1>12. Whole(to)
  BY <1>3, <1>9, <1>10, <1>11 DEF Whole
<1> QED
  BY <1>1, <1>3, <1>4, <1>6, <1>12 DEF Continued

-----------------------------------------------------------------------------
(* Steps: what emission does to a chunk, well formed or not.               *)

(* What instructions begin where is not forgotten.                         *)
Kept(ch, to) == /\ Begins(ch) \subseteq Begins(to) /\ Ops(ch) \subseteq Ops(to)
                /\ \A o \in Ops(ch) : OpAt(to, o) = OpAt(ch, o)
Builds(ch, to, more) ==
  /\ to \in Chunks /\ Count(ch) <= Count(to)
  /\ \A H \in SUBSET Nat : Sound(ch, H) => Sound(to, H \cup more) /\ Kept(ch, to)

LEMMA StepTwice ==
  ASSUME NEW a \in Chunks, NEW b, NEW c, NEW P \in SUBSET Nat, NEW Q \in SUBSET Nat,
         Builds(a, b, P), Builds(b, c, Q)
  PROVE  Builds(a, c, P \cup Q)
<1>1. b \in Chunks /\ c \in Chunks /\ Count(a) <= Count(b) /\ Count(b) <= Count(c)
  BY DEF Builds
<1>2. Count(a) <= Count(c)
  <2>1. Count(a) \in Nat /\ Count(b) \in Nat /\ Count(c) \in Nat
    BY <1>1, ChunkType
  <2> QED
    BY <1>1, <2>1
<1>3. ASSUME NEW H \in SUBSET Nat, Sound(a, H)
      PROVE  Sound(c, H \cup (P \cup Q)) /\ Kept(a, c)
  <2>1. Sound(b, H \cup P) /\ Kept(a, b)
    BY <1>3 DEF Builds
  <2>2. H \cup P \in SUBSET Nat
    OBVIOUS
  <2>3. Sound(c, (H \cup P) \cup Q) /\ Kept(b, c)
    BY <2>1, <2>2 DEF Builds
  <2>4. (H \cup P) \cup Q = H \cup (P \cup Q)
    OBVIOUS
  <2>5. Kept(a, c)
    BY <2>1, <2>3 DEF Kept
  <2> QED
    BY <2>3, <2>4, <2>5
<1> QED
  BY <1>1, <1>2, <1>3 DEF Builds

LEMMA StepNone ==
  ASSUME NEW ch \in Chunks
  PROVE  Builds(ch, ch, {})
<1>1. Count(ch) \in Nat
  BY ChunkType
<1>2. Kept(ch, ch)
  BY DEF Kept
<1>3. \A H \in SUBSET Nat : H \cup {} = H
  OBVIOUS
<1> QED
  BY <1>1, <1>2, <1>3 DEF Builds

(* Two plain steps.                                                        *)
LEMMA StepTrans ==
  ASSUME NEW a \in Chunks, NEW b, NEW c, Builds(a, b, {}), Builds(b, c, {})
  PROVE  Builds(a, c, {})
<1>1. {} \in SUBSET Nat /\ {} \cup {} = {}
  OBVIOUS
<1> QED
  BY <1>1, StepTwice

(* The constants of a chunk after an emission, and what is newly named.    *)
Extended(pool, longer) ==
  /\ \A i \in DOMAIN pool : i \in DOMAIN longer /\ longer[i] = pool[i]
  /\ IsInjective(pool) => IsInjective(longer)
NewName(ch, to, op, operands, m) ==
  /\ m[1] = Count(ch) /\ op \in Naming
  /\ m[2][1] # "local" =>
       \E i \in DOMAIN to.constants : /\ to.constants[i] = m[2]
                                      /\ Byte(operands[1]) = Byte(i - 1)
Noted(ch, to, op, operands) ==
  /\ Extended(ch.constants, to.constants)
  /\ \A m \in to.meaning : m \in ch.meaning \/ NewName(ch, to, op, operands, m)
(* A jump that is emitted has a hole for operand, or lands.                *)
Jumping(ch, to, op, more) ==
  /\ op \in Jumps => Landed(to, Count(ch)) \/ Open(to, Count(ch), more)
  /\ \A h \in more : h = Count(ch) + 1 /\ op \in {"OP_JIF", "OP_JMP"}

LEMMA NamesKept ==
  ASSUME NEW ch \in Chunks, NEW to \in Chunks, NEW op \in DOMAIN Width,
         NEW operands \in Seq(Int), Emitted(ch, to, op, operands),
         Fitting(op, operands), Whole(ch), Pooled(ch), Noted(ch, to, op, operands)
  PROVE  Pooled(to)
<1>1. Continued(ch, to, op)
  BY EmittedWhole
<1>2. IsInjective(to.constants)
  BY DEF Pooled, Noted, Extended
<1>3. ASSUME NEW m \in ch.meaning
      PROVE  Names(to, m)
  <2>1. Names(ch, m)
    BY DEF Pooled
  <2>2. m[1] \in Ops(ch) /\ OpAt(ch, m[1]) \in Naming
    BY <2>1 DEF Names
  <2>3. SameAt(ch, to, m[1])
    BY <1>1, <2>2 DEF Continued
  <2>4. m[1] \in Ops(to) /\ OpAt(to, m[1]) \in Naming
        /\ ByteAt(to, m[1] + 1) = ByteAt(ch, m[1] + 1)
    BY <2>2, <2>3 DEF SameAt
  <2>5. ASSUME m[2][1] # "local"
        PROVE  \E i \in DOMAIN to.constants : /\ to.constants[i] = m[2]
                                              /\ ByteAt(to, m[1] + 1) = Byte(i - 1)
    <3>1. PICK i \in DOMAIN ch.constants : /\ ch.constants[i] = m[2]
                                           /\ ByteAt(ch, m[1] + 1) = Byte(i - 1)
      BY <2>1, <2>5 DEF Names
    <3>2. i \in DOMAIN to.constants /\ to.constants[i] = ch.constants[i]
      BY DEF Noted, Extended
    <3> QED
      BY <2>4, <3>1, <3>2
  <2> QED
    BY <2>4, <2>5 DEF Names
<1>4. ASSUME NEW m \in to.meaning, NewName(ch, to, op, operands, m)
      PROVE  Names(to, m)
  <2>1. m[1] = Count(ch) /\ op \in Naming
    BY <1>4 DEF NewName
  <2>2. m[1] \in Ops(to) /\ OpAt(to, m[1]) \in Naming
    BY <1>1, <2>1 DEF Continued
  <2>3. ByteAt(to, m[1] + 1) = Byte(operands[1])
    <3>1. Len(operands) >= 1 /\ Len(operands) \in Nat
      <4>1. op = "OP_CLOSURE" \/ op \in WithOne
        BY <2>1 DEF Naming, WithOne
      <4> QED
        BY <4>1, Widths DEF Fitting
    <3>2. 1 \in 1 .. Len(operands)
      BY <3>1
    <3>3. to.code[Count(ch) + 1 + 1] = [byte |-> Byte(operands[1])]
      BY <3>2 DEF Emitted
    <3> QED
      BY <2>1, <3>3 DEF ByteAt
  <2> QED
    BY <1>4, <2>2, <2>3 DEF Names, NewName
<1>5. \A m \in to.meaning : Names(to, m)
  BY <1>3, <1>4 DEF Noted
<1> QED
  BY <1>2, <1>5 DEF Pooled

LEMMA JumpsKept ==
  ASSUME NEW ch \in Chunks, NEW to \in Chunks, NEW op \in DOMAIN Width,
         Continued(ch, to, op), Begins(ch) \subseteq Begins(to),
         NEW H \in SUBSET Nat, JumpsLanded(ch, H),
         NEW more \in SUBSET Nat, Jumping(ch, to, op, more)
  PROVE  JumpsLanded(to, H \cup more)
<1>1. ASSUME NEW o \in Ops(ch), OpAt(to, o) \in Jumps
      PROVE  Landed(to, o) \/ Open(to, o, H \cup more)
  <2>1. SameAt(ch, to, o)
    BY DEF Continued
  <2>2. OpAt(ch, o) \in Jumps
    BY <1>1, <2>1 DEF SameAt
  <2>3. Short(to, o + 1) = Short(ch, o + 1) /\ Target(to, o) = Target(ch, o)
    BY <2>1, <2>2 DEF SameAt
  <2>4. Landed(ch, o) \/ Open(ch, o, H)
    BY <2>2 DEF JumpsLanded
  <2> QED
    BY <2>3, <2>4 DEF Landed, Open
<1>2. ASSUME op \in Jumps
      PROVE  Landed(to, Count(ch)) \/ Open(to, Count(ch), H \cup more)
  BY <1>2 DEF Jumping, Open
<1>3. ASSUME NEW h \in H
      PROVE  Hole(to, h)
  <2>1. h - 1 \in Ops(ch) /\ OpAt(ch, h - 1) \in {"OP_JIF", "OP_JMP"}
    BY DEF JumpsLanded, Hole
  <2>2. SameAt(ch, to, h - 1)
    BY <2>1 DEF Continued
  <2> QED
    BY <2>1, <2>2 DEF Hole, SameAt
<1>4. ASSUME NEW h \in more
      PROVE  Hole(to, h)
  <2>1. h = Count(ch) + 1 /\ op \in {"OP_JIF", "OP_JMP"}
    BY DEF Jumping
  <2>2. Count(ch) \in Nat
    BY ChunkType
  <2>3. h - 1 = Count(ch)
    BY <2>1, <2>2
  <2> QED
    BY <2>1, <2>3 DEF Hole, Continued
<1>5. \A o \in Ops(to) : OpAt(to, o) \in Jumps => Landed(to, o) \/ Open(to, o, H \cup more)
  BY <1>1, <1>2 DEF Continued
<1> QED
  BY <1>3, <1>4, <1>5 DEF JumpsLanded

LEMMA EmissionSteps ==
  ASSUME NEW ch \in Chunks, NEW to \in Chunks, NEW op \in DOMAIN Width,
         NEW operands \in Seq(Int), Emitted(ch, to, op, operands),
         Fitting(op, operands), Noted(ch, to, op, operands),
         NEW more \in SUBSET Nat, Whole(ch) => Jumping(ch, to, op, more)
  PROVE  Builds(ch, to, more)
<1>1. Count(ch) <= Count(to)
  <2>1. Count(ch) \in Nat /\ Len(operands) \in Nat
    BY ChunkType
  <2> QED
    BY <2>1 DEF Emitted
<1>2. ASSUME NEW H \in SUBSET Nat, Sound(ch, H)
      PROVE  Sound(to, H \cup more) /\ Kept(ch, to)
  <2>1. Whole(ch) /\ JumpsLanded(ch, H) /\ Pooled(ch)
    BY <1>2 DEF Sound
  <2>2. Continued(ch, to, op)
    BY <2>1, EmittedWhole
  <2>3. Ops(ch) \subseteq Ops(to) /\ Begins(ch) \subseteq Begins(to)
    BY <2>2 DEF Continued, Begins
  <2>4. Kept(ch, to)
    BY <2>2, <2>3 DEF Kept, Continued, SameAt
  <2>5. JumpsLanded(to, H \cup more)
    BY <2>1, <2>2, <2>3, JumpsKept
  <2>6. Pooled(to)
    BY <2>1, NamesKept
  <2> QED
    BY <2>2, <2>4, <2>5, <2>6 DEF Sound, Continued
<1> QED
  BY <1>1, <1>2 DEF Builds

-----------------------------------------------------------------------------
(* What each function of the code generator emits.                         *)

LEMMA EmitSteps ==
  ASSUME NEW ch \in Chunks, NEW op \in DOMAIN Width \ Jumps,
         NEW operands \in Seq(Int), Fitting(op, operands)
  PROVE  Builds(ch, Emit(ch, op, operands), {})
<1>1. PICK to : to = Emit(ch, op, operands)
  OBVIOUS
<1>2. Emitted(ch, to, op, operands) /\ to.constants = ch.constants /\ to.meaning = ch.meaning
  BY <1>1, EmitType
<1>3. to \in Chunks
  BY <1>2 DEF Emitted
<1>4. Noted(ch, to, op, operands)
  BY <1>2 DEF Noted, Extended
<1>5. Jumping(ch, to, op, {}) /\ {} \in SUBSET Nat
  BY DEF Jumping
<1> QED
  BY <1>1, <1>2, <1>3, <1>4, <1>5, EmissionSteps

(* An instruction without operands, as most of those emitted are.          *)
LEMMA EmitAlone ==
  ASSUME NEW ch \in Chunks, NEW op \in Alone
  PROVE  Builds(ch, Emit(ch, op, <<>>), {})
<1>1. op \in DOMAIN Width \ Jumps /\ op # "OP_CLOSURE" /\ Width[op] = 0
  BY Widths DEF Alone, Jumps
<1>2. <<>> \in Seq(Int) /\ Len(<<>>) = 0
  OBVIOUS
<1>3. Fitting(op, <<>>)
  BY <1>1, <1>2 DEF Fitting
<1> QED
  BY <1>1, <1>2, <1>3, EmitSteps

LEMMA EmitOne ==
  ASSUME NEW ch \in Chunks, NEW op \in WithOne, NEW n \in Int
  PROVE  Builds(ch, Emit(ch, op, <<n>>), {})
<1>1. op \in DOMAIN Width \ Jumps /\ op # "OP_CLOSURE" /\ Width[op] = 1
  BY Widths DEF WithOne, Jumps
<1>2. <<n>> \in Seq(Int) /\ Len(<<n>>) = 1
  OBVIOUS
<1>3. Fitting(op, <<n>>)
  BY <1>1, <1>2 DEF Fitting
<1> QED
  BY <1>1, <1>2, <1>3, EmitSteps

(* Where addConstant finds or puts a value.                                *)
LEMMA PlaceIs ==
  ASSUME NEW ch \in Chunks, NEW value \in Constants
  PROVE  /\ Place(ch, value) \in Nat
         /\ Pool(ch, value) \in Seq(Constants)
         /\ Extended(ch.constants, Pool(ch, value))
         /\ Place(ch, value) + 1 \in DOMAIN Pool(ch, value)
         /\ Pool(ch, value)[Place(ch, value) + 1] = value
<1>1. PICK pool : pool = ch.constants
  OBVIOUS
<1>2. PICK n : n = Len(pool)
  OBVIOUS
<1>3. pool \in Seq(Constants) /\ n \in Nat /\ DOMAIN pool = 1 .. n
  BY <1>1, <1>2, ChunkType
<1>4. CASE Contains(pool, value)
  <2>1. PICK I : I = {i \in 1 .. Len(pool) : pool[i] = value}
    OBVIOUS
  <2>2. I # {} /\ I \subseteq Nat
    BY <1>2, <1>4, <2>1 DEF Contains
  <2>3. \E d \in I : \A e \in I : d <= e
    BY <2>2, LeastExists
  <2>4. PICK d : d = Min(I)
    OBVIOUS
  <2>5. d \in I
    BY <2>3, <2>4 DEF Min
  <2>6. Place(ch, value) = d - 1
    BY <1>1, <1>4, <2>1, <2>2, <2>4 DEF Place, SelectInSeq
  <2>7. d \in 1 .. n /\ pool[d] = value
    BY <1>2, <2>1, <2>5
  <2>8. d - 1 # n /\ d - 1 \in Nat /\ d - 1 + 1 = d
    BY <1>3, <2>7
  <2>9. Pool(ch, value) = pool
    BY <1>1, <1>2, <2>6, <2>8 DEF Pool
  <2> QED
    BY <1>1, <1>3, <2>6, <2>7, <2>8, <2>9 DEF Extended
<1>5. CASE ~Contains(pool, value)
  <2>1. Place(ch, value) = n
    BY <1>1, <1>2, <1>5 DEF Place
  <2>2. PICK longer : longer = Append(pool, value)
    OBVIOUS
  <2>3. Pool(ch, value) = longer
    BY <1>1, <1>2, <2>1, <2>2 DEF Pool
  <2>4. /\ longer \in Seq(Constants) /\ Len(longer) = n + 1
        /\ \A i \in 1 .. n : longer[i] = pool[i]
        /\ longer[n + 1] = value
    BY <1>2, <1>3, <2>2, AppendProperties
  <2>5. DOMAIN longer = 1 .. n + 1
    BY <2>4
  <2>6. \A i \in 1 .. n : pool[i] # value
    BY <1>2, <1>5 DEF Contains
  <2>7. ASSUME IsInjective(pool), NEW a \in 1 .. n + 1, NEW b \in 1 .. n + 1, longer[a] = longer[b]
        PROVE  a = b
    <3>1. CASE a \in 1 .. n /\ b \in 1 .. n
      BY <1>3, <2>4, <2>7, <3>1 DEF IsInjective
    <3>2. CASE a = n + 1 /\ b \in 1 .. n
      BY <2>4, <2>6, <2>7, <3>2
    <3>3. CASE a \in 1 .. n /\ b = n + 1
      BY <2>4, <2>6, <2>7, <3>3
    <3> QED
      BY <1>3, <3>1, <3>2, <3>3
  <2>8. IsInjective(pool) => IsInjective(longer)
    BY <2>5, <2>7 DEF IsInjective
  <2>9. n + 1 \in 1 .. n + 1 /\ \A i \in 1 .. n : i \in 1 .. n + 1
    BY <1>3
  <2> QED
    BY <1>1, <1>3, <2>1, <2>3, <2>4, <2>5, <2>8, <2>9 DEF Extended
<1> QED
  BY <1>4, <1>5

(* The instructions that hold the index of a constant.                     *)
NamedOps == {"OP_CONST", "OP_LOAD_GLOB", "OP_STORE_GLOB", "OP_DEFINE_GLOB", "OP_CLOSURE"}

LEMMA NamedSteps ==
  ASSUME NEW ch \in Chunks, NEW op \in NamedOps, NEW value \in Constants,
         NEW operands \in Seq(Int), Fitting(op, operands),
         operands[1] = Place(ch, value),
         NEW to, to = [Means(Emit(ch, op, operands), Count(ch), value)
                         EXCEPT !.constants = Pool(ch, value)]
  PROVE  Builds(ch, to, {})
<1>1. op \in DOMAIN Width /\ op \notin Jumps /\ op \in Naming
  BY Widths DEF NamedOps, Jumps, Naming, WithOne, WithTwo
<1>2. PICK raw : raw = Emit(ch, op, operands)
  OBVIOUS
<1>3. /\ Emitted(ch, raw, op, operands)
      /\ raw.constants = ch.constants /\ raw.meaning = ch.meaning
  BY <1>1, <1>2, EmitType
<1>4. raw \in Chunks
  BY <1>3 DEF Emitted
<1>5. Count(ch) \in Nat
  BY ChunkType
<1>6. <<Count(ch), value>> \in Meanings
  BY <1>5 DEF Meanings
<1>7. raw.meaning \cup {<<Count(ch), value>>} \in SUBSET Meanings
  BY <1>4, <1>6, ChunkType
<1>8. /\ to \in Chunks /\ to.code = raw.code /\ to.constants = Pool(ch, value)
      /\ to.meaning = raw.meaning \cup {<<Count(ch), value>>}
  <2>1. Pool(ch, value) \in Seq(Constants)
    BY PlaceIs
  <2> QED
    BY <1>2, <1>4, <1>7, <2>1 DEF Means, Chunks, Meanings
<1>9. Emitted(ch, to, op, operands)
  BY <1>3, <1>8 DEF Emitted, Count
<1>10. ASSUME NEW m \in to.meaning
       PROVE  m \in ch.meaning \/ NewName(ch, to, op, operands, m)
  <2>1. CASE m = <<Count(ch), value>>
    <3>1. m[1] = Count(ch) /\ m[2] = value
      BY <2>1
    <3>2. PICK i : i = Place(ch, value) + 1
      OBVIOUS
    <3>3. i \in DOMAIN to.constants /\ to.constants[i] = value
      BY <1>8, <3>2, PlaceIs
    <3>4. i - 1 = operands[1]
      BY <3>2, PlaceIs
    <3> QED
      BY <1>1, <3>1, <3>3, <3>4 DEF NewName
  <2> QED
    BY <1>3, <1>8, <2>1
<1>11. Noted(ch, to, op, operands)
  <2>1. Extended(ch.constants, to.constants)
    BY <1>8, PlaceIs
  <2> QED
    BY <1>10, <2>1 DEF Noted
<1>12. Jumping(ch, to, op, {}) /\ {} \in SUBSET Nat
  BY <1>1 DEF Jumping
<1> QED
  BY <1>1, <1>8, <1>9, <1>11, <1>12, EmissionSteps

LEMMA ConstantSteps ==
  ASSUME NEW ch \in Chunks, NEW op \in NamedOps, op # "OP_CLOSURE", NEW value \in Constants
  PROVE  Builds(ch, EmitConstant(ch, op, value), {})
<1>1. PICK operands : operands = <<Place(ch, value)>>
  OBVIOUS
<1>2. operands \in Seq(Int) /\ Len(operands) = 1 /\ operands[1] = Place(ch, value)
  <2>1. Place(ch, value) \in Int
    BY PlaceIs
  <2> QED
    BY <1>1, <2>1
<1>3. Width[op] = 1
  BY Widths DEF NamedOps, WithOne
<1>4. Fitting(op, operands)
  BY <1>2, <1>3 DEF Fitting
<1> QED
  BY <1>1, <1>2, <1>4, NamedSteps DEF EmitConstant

LEMMA SlotSteps ==
  ASSUME NEW ch \in Chunks, NEW op \in {"OP_LOAD_LOC", "OP_STORE_LOC"}, NEW s \in Symbols
  PROVE  Builds(ch, EmitSlot(ch, op, s), {})
<1>1. op \in DOMAIN Width /\ op \notin Jumps /\ op \in Naming /\ op # "OP_CLOSURE"
      /\ Width[op] = 1
  BY Widths DEF Jumps, Naming, WithOne
<1>2. s.slot \in Nat /\ s.id \in Nat
  BY DEF Symbols
<1>3. PICK operands : operands = <<s.slot>>
  OBVIOUS
<1>4. operands \in Seq(Int) /\ Len(operands) = 1
  BY <1>2, <1>3
<1>5. PICK raw : raw = Emit(ch, op, operands)
  OBVIOUS
<1>6. /\ Emitted(ch, raw, op, operands)
      /\ raw.constants = ch.constants /\ raw.meaning = ch.meaning
  BY <1>1, <1>4, <1>5, EmitType
<1>7. raw \in Chunks
  BY <1>6 DEF Emitted
<1>8. PICK what : what = <<Count(ch), <<"local", s.id>>>>
  OBVIOUS
<1>9. what \in Meanings
  <2>1. Count(ch) \in Nat
    BY ChunkType
  <2>2. <<"local", s.id>> \in {"local"} \X Nat
    BY <1>2
  <2> QED
    BY <1>8, <2>1, <2>2 DEF Meanings
<1>10. raw.meaning \cup {what} \in SUBSET Meanings
  BY <1>7, <1>9, ChunkType
<1>11. PICK to : to = EmitSlot(ch, op, s)
  OBVIOUS
<1>12. /\ to \in Chunks /\ to.code = raw.code /\ to.constants = raw.constants
       /\ to.meaning = raw.meaning \cup {what}
  BY <1>3, <1>5, <1>7, <1>8, <1>10, <1>11 DEF EmitSlot, Means, Chunks, Meanings
<1>13. Emitted(ch, to, op, operands)
  BY <1>6, <1>12 DEF Emitted, Count
<1>14. ASSUME NEW m \in to.meaning
       PROVE  m \in ch.meaning \/ NewName(ch, to, op, operands, m)
  <2>1. what[1] = Count(ch) /\ what[2][1] = "local"
    BY <1>8
  <2>2. NewName(ch, to, op, operands, what)
    BY <1>1, <2>1 DEF NewName
  <2> QED
    BY <1>6, <1>12, <2>2
<1>15. Noted(ch, to, op, operands)
  <2>1. to.constants = ch.constants
    BY <1>6, <1>12
  <2> QED
    BY <1>14, <2>1 DEF Noted, Extended
<1>16. Jumping(ch, to, op, {}) /\ {} \in SUBSET Nat
  BY <1>1 DEF Jumping
<1>17. Fitting(op, operands)
  BY <1>1, <1>4 DEF Fitting
<1> QED
  BY <1>1, <1>4, <1>11, <1>12, <1>13, <1>15, <1>16, <1>17, EmissionSteps


(* A distance below 2^16 fits two bytes.                                   *)
LEMMA TwoBytes ==
  ASSUME NEW d \in Nat, d <= ShortMax
  PROVE  Byte(d \div ByteSize) * ByteSize + Byte(d) = d
<1>1. PICK b, q, r : b = ByteSize /\ q = d \div b /\ r = d % b
  OBVIOUS
<1>2. b \in Nat /\ b > 1 /\ d <= b * b - 1
  BY <1>1, CodegenAssumption DEF ShortMax
<1>3. q \in Int /\ r \in 0 .. b - 1 /\ d = b * q + r
  BY <1>1, <1>2
<1>4. q \in 0 .. b - 1
  <2>1. ASSUME q >= b
        PROVE  FALSE
    <3>1. b * q >= b * b
      BY <1>2, <1>3, <2>1
    <3>2. b * q \in Int /\ b * b \in Int
      BY <1>2, <1>3
    <3> QED
      BY <1>2, <1>3, <3>1, <3>2
  <2>2. ASSUME q < 0
        PROVE  FALSE
    <3>1. q <= 0 - 1 /\ 0 - 1 \in Int
      BY <1>3, <2>2
    <3>2. b * q <= b * (0 - 1)
      BY <1>2, <1>3, <3>1
    <3>3. b * q \in Int /\ b * (0 - 1) = 0 - b
      BY <1>2, <1>3
    <3> QED
      BY <1>2, <1>3, <3>2, <3>3
  <2> QED
    BY <1>2, <1>3, <2>1, <2>2
<1>5. q % b = q
  BY <1>2, <1>4
<1>6. q * b = b * q
  BY <1>2, <1>3
<1> QED
  BY <1>1, <1>3, <1>5, <1>6 DEF Byte

LEMMA JumpSteps ==
  ASSUME NEW ch \in Chunks, NEW op \in {"OP_JIF", "OP_JMP"}, NEW to, to = EmitJump(ch, op)
  PROVE  /\ Builds(ch, to, {LastJump(to)})
         /\ LastJump(to) = Count(ch) + 1 /\ LastJump(to) \in Nat
<1>1. op \in DOMAIN Width /\ op \notin Naming /\ op # "OP_CLOSURE" /\ Width[op] = 2
  BY Widths DEF Naming, WithTwo
<1>2. PICK b : b = ByteSize - 1
  OBVIOUS
<1>3. b \in 0 .. ByteSize - 1 /\ b \in Int /\ Byte(b) = b
  BY <1>2, SmallByte, CodegenAssumption
<1>4. PICK operands : operands = <<b, b>>
  OBVIOUS
<1>5. operands \in Seq(Int) /\ Len(operands) = 2 /\ operands[1] = b /\ operands[2] = b
  BY <1>3, <1>4
<1>6. /\ Emitted(ch, to, op, operands)
      /\ to.constants = ch.constants /\ to.meaning = ch.meaning
  BY <1>1, <1>2, <1>4, <1>5, EmitType DEF EmitJump
<1>7. to \in Chunks
  BY <1>6 DEF Emitted
<1>8. PICK c : c = Count(ch)
  OBVIOUS
<1>9. c \in Nat /\ Count(to) = c + 3
  <2>1. c \in Nat
    BY <1>8, ChunkType
  <2>2. Count(to) = c + 1 + 2
    BY <1>5, <1>6, <1>8 DEF Emitted
  <2> QED
    BY <2>1, <2>2
<1>10. LastJump(to) = c + 1 /\ LastJump(to) \in Nat
  BY <1>9 DEF LastJump
<1>11. Fitting(op, operands)
  BY <1>1, <1>5 DEF Fitting
<1>12. Noted(ch, to, op, operands)
  BY <1>6 DEF Noted, Extended
<1>13. Short(to, c + 1) = ShortMax
  <2>1. 1 \in 1 .. Len(operands) /\ 2 \in 1 .. Len(operands)
    BY <1>5
  <2>2. to.code[c + 1 + 1] = [byte |-> b] /\ to.code[c + 1 + 2] = [byte |-> b]
    BY <1>3, <1>5, <1>6, <1>8, <2>1 DEF Emitted
  <2>3. c + 1 + 2 = c + 1 + 1 + 1
    BY <1>9
  <2>4. ByteAt(to, c + 1) = b /\ ByteAt(to, c + 1 + 1) = b
    BY <2>2, <2>3 DEF ByteAt
  <2>5. b * ByteSize + b = ByteSize * ByteSize - 1
    BY <1>2, CodegenAssumption
  <2> QED
    BY <2>4, <2>5 DEF Short, ShortMax
<1>14. Jumping(ch, to, op, {c + 1})
  BY <1>8, <1>13 DEF Jumping, Open
<1>15. {c + 1} \in SUBSET Nat
  BY <1>9
<1> QED
  BY <1>1, <1>5, <1>6, <1>7, <1>8, <1>10, <1>11, <1>12, <1>14, <1>15, EmissionSteps

(* OP_LOOP leads back to where the loop starts.                            *)
LoopEmitted(ch, to, start) ==
  \E operands \in Seq(Int) :
     /\ Emitted(ch, to, "OP_LOOP", operands) /\ Fitting("OP_LOOP", operands)
     /\ to.constants = ch.constants /\ to.meaning = ch.meaning
     /\ start \in Ops(ch) /\ LoopDistance(ch, start) <= ShortMax
          => Target(to, Count(ch)) = start

LEMMA LoopIsEmitted ==
  ASSUME NEW ch \in Chunks, NEW start \in Nat, NEW to, to = EmitLoop(ch, start)
  PROVE  LoopEmitted(ch, to, start)
<1>1. PICK op : op = "OP_LOOP"
  OBVIOUS
<1>2. op \in DOMAIN Width /\ op # "OP_CLOSURE" /\ Width[op] = 2
  BY <1>1, Widths DEF WithTwo
<1>3. PICK c, d : c = Count(ch) /\ d = LoopDistance(ch, start)
  OBVIOUS
<1>4. c \in Nat /\ d \in Int /\ d = c + 3 - start
  <2>1. c \in Nat
    BY <1>3, ChunkType
  <2>2. d = c + 1 - start + 2
    BY <1>3 DEF LoopDistance
  <2> QED
    BY <2>1, <2>2
<1>5. PICK operands : operands = <<d \div ByteSize, d>>
  OBVIOUS
<1>6. operands \in Seq(Int) /\ Len(operands) = 2 /\ operands[1] = d \div ByteSize /\ operands[2] = d
  <2>1. d \div ByteSize \in Int
    BY <1>4, CodegenAssumption
  <2> QED
    BY <1>4, <1>5, <2>1
<1>7. /\ Emitted(ch, to, op, operands)
      /\ to.constants = ch.constants /\ to.meaning = ch.meaning
  <2>1. to = Emit(ch, op, operands)
    BY <1>1, <1>3, <1>5 DEF EmitLoop
  <2> QED
    BY <1>2, <1>6, <2>1, EmitType
<1>8. Fitting(op, operands)
  BY <1>2, <1>6 DEF Fitting
<1>9. ASSUME start \in Ops(ch), d <= ShortMax
      PROVE  Target(to, c) = start
  <2>1. start \in 0 .. c - 1
    BY <1>3, <1>9 DEF Ops
  <2>2. d \in Nat
    BY <1>4, <2>1
  <2>3. Short(to, c + 1) = d
    <3>1. 1 \in 1 .. Len(operands) /\ 2 \in 1 .. Len(operands)
      BY <1>6
    <3>2. /\ to.code[c + 1 + 1] = [byte |-> Byte(d \div ByteSize)]
          /\ to.code[c + 1 + 2] = [byte |-> Byte(d)]
      BY <1>3, <1>6, <1>7, <3>1 DEF Emitted
    <3>3. c + 1 + 2 = c + 1 + 1 + 1
      BY <1>4
    <3>4. ByteAt(to, c + 1) = Byte(d \div ByteSize) /\ ByteAt(to, c + 1 + 1) = Byte(d)
      BY <3>2, <3>3 DEF ByteAt
    <3> QED
      BY <1>9, <2>2, <3>4, TwoBytes DEF Short
  <2>4. to.code[c + 1].op = "OP_LOOP"
    BY <1>1, <1>3, <1>7 DEF Emitted
  <2>5. Target(to, c) = c + 3 - d
    BY <2>3, <2>4 DEF Target
  <2> QED
    BY <1>4, <2>1, <2>5
<1> QED
  BY <1>1, <1>3, <1>6, <1>7, <1>8, <1>9 DEF LoopEmitted

LEMMA LoopSteps ==
  ASSUME NEW ch \in Chunks, NEW start \in Nat
  PROVE  /\ EmitLoop(ch, start) \in Chunks
         /\ start \in Ops(ch) /\ LoopDistance(ch, start) <= ShortMax
              => Builds(ch, EmitLoop(ch, start), {})
<1>1. PICK op, to, c : op = "OP_LOOP" /\ to = EmitLoop(ch, start) /\ c = Count(ch)
  OBVIOUS
<1>2. op \in DOMAIN Width /\ op \notin Naming /\ op \in Jumps
  BY <1>1, Widths DEF Naming, WithTwo, Jumps
<1>3. LoopEmitted(ch, to, start)
  BY <1>1, LoopIsEmitted
<1>4. PICK operands \in Seq(Int) :
             /\ Emitted(ch, to, op, operands) /\ Fitting(op, operands)
             /\ to.constants = ch.constants /\ to.meaning = ch.meaning
             /\ start \in Ops(ch) /\ LoopDistance(ch, start) <= ShortMax
                  => Target(to, c) = start
  BY <1>1, <1>3 DEF LoopEmitted
<1>5. to \in Chunks
  BY <1>4 DEF Emitted
<1>6. ASSUME start \in Ops(ch), LoopDistance(ch, start) <= ShortMax
      PROVE  Builds(ch, to, {})
  <2>1. Noted(ch, to, op, operands)
    BY <1>4 DEF Noted, Extended
  <2>2. Target(to, c) = start
    BY <1>4, <1>6
  <2>3. start \in Begins(to) /\ start # c
    <3>1. start \in Ops(to)
      BY <1>2, <1>4, <1>5, <1>6, EmittedCells
    <3>2. c \in Nat /\ start \in 0 .. c - 1
      BY <1>1, <1>6, ChunkType DEF Ops
    <3> QED
      BY <3>1, <3>2 DEF Begins
  <2>4. Jumping(ch, to, op, {}) /\ {} \in SUBSET Nat
    BY <1>1, <2>2, <2>3 DEF Jumping, Landed
  <2> QED
    BY <1>2, <1>4, <1>5, <2>1, <2>4, EmissionSteps
<1> QED
  BY <1>1, <1>5, <1>6


(* The instructions at the end of a block, one after the other.            *)
OnePop == [op |-> "OP_POP"]
Pops(k) == [i \in 1 .. k |-> OnePop]
Popped(ch, k) == [ch EXCEPT !.code = @ \o Pops(k)]

LEMMA OnePopType == OnePop \in Cells /\ <<OnePop>> \in Seq(Cells)
<1>1. OnePop \in Cells
  <2>1. "OP_POP" \in DOMAIN Width
    BY Widths DEF Alone
  <2> QED
    BY <2>1 DEF OnePop, Cells
<1> QED
  BY <1>1

LEMMA PopsAre ==
  ASSUME NEW k \in Nat
  PROVE  Pops(k) \in Seq(Cells) /\ Len(Pops(k)) = k /\ \A i \in 1 .. k : Pops(k)[i] = OnePop
<1>1. OnePop \in Cells
  BY OnePopType
<1>2. Pops(k) \in [1 .. k -> Cells]
  BY <1>1 DEF Pops
<1> QED
  BY <1>2 DEF Pops

LEMMA PopsFollow ==
  ASSUME NEW k \in Nat \ {0}
  PROVE  Pops(k) = Pops(k - 1) \o <<OnePop>>
<1>1. PICK s, t, o, j : s = Pops(k) /\ t = Pops(k - 1) /\ o = <<OnePop>> /\ j = k - 1
  OBVIOUS
<1>2. j \in Nat /\ k = j + 1 /\ k \in Nat
  BY <1>1
<1>3. /\ s \in Seq(Cells) /\ Len(s) = k /\ \A i \in 1 .. k : s[i] = OnePop
      /\ t \in Seq(Cells) /\ Len(t) = j /\ \A i \in 1 .. j : t[i] = OnePop
  BY <1>1, <1>2, PopsAre
<1>4. o \in Seq(Cells) /\ Len(o) = 1 /\ o[1] = OnePop
  <2>1. 1 \in 1 .. k
    BY <1>2
  <2>2. OnePop \in Cells
    BY <1>3, <2>1
  <2> QED
    BY <1>1, <2>2
<1>5. PICK all : all = t \o o
  OBVIOUS
<1>6. all \in Seq(Cells) /\ Len(all) = k /\ \A i \in 1 .. k : all[i] = OnePop
  <2>1. IsJoin(Cells, t, o, all)
    BY <1>3, <1>4, <1>5, Joined
  <2>2. /\ all \in Seq(Cells) /\ Len(all) = j + 1
        /\ \A i \in 1 .. j : all[i] = t[i]
        /\ \A i \in 1 .. 1 : all[j + i] = o[i]
    BY <1>3, <1>4, <2>1 DEF IsJoin
  <2>3. all[k] = OnePop
    BY <1>2, <1>4, <2>2
  <2> QED
    BY <1>2, <1>3, <2>2, <2>3
<1>7. s = all
  BY <1>3, <1>6, SeqEqual
<1> QED
  BY <1>1, <1>5, <1>7

LEMMA PoppedNone ==
  ASSUME NEW ch \in Chunks
  PROVE  Popped(ch, 0) = ch
<1>1. Pops(0) = <<>>
  BY DEF Pops
<1>2. ch.code \o <<>> = ch.code
  BY ChunkType, ConcatEmptySeq
<1> QED
  BY <1>1, <1>2 DEF Popped, Chunks

LEMMA PoppedNext ==
  ASSUME NEW ch \in Chunks, NEW n \in Nat \ {0}, NEW to \in Chunks, to = Popped(ch, n - 1)
  PROVE  Popped(ch, n) = Emit(to, "OP_POP", <<>>)
<1>1. Emit(to, "OP_POP", <<>>) = [to EXCEPT !.code = to.code \o <<OnePop>>]
  <2>1. [i \in DOMAIN <<>> |-> [byte |-> Byte(<<>>[i])]] = <<>>
    OBVIOUS
  <2>2. PICK cat : cat = to.code \o <<OnePop>>
    OBVIOUS
  <2>3. cat \in Seq(Cells)
    <3>1. <<OnePop>> \in Seq(Cells)
      BY OnePopType
    <3> QED
      BY <2>2, <3>1, ChunkType, ConcatProperties
  <2>4. cat \o <<>> = cat
    BY <2>3, ConcatEmptySeq
  <2> QED
    BY <2>1, <2>2, <2>4 DEF Emit, OnePop
<1>2. to.code = ch.code \o Pops(n - 1)
  BY DEF Popped, Chunks
<1>3. to.code \o <<OnePop>> = ch.code \o Pops(n)
  <2>1. ch.code \in Seq(Cells) /\ Pops(n - 1) \in Seq(Cells)
    BY ChunkType, PopsAre
  <2>2. <<OnePop>> \in Seq(Cells)
    BY OnePopType
  <2>3. (ch.code \o Pops(n - 1)) \o <<OnePop>> = ch.code \o (Pops(n - 1) \o <<OnePop>>)
    <3>1. PICK a, b, c : a = ch.code /\ b = Pops(n - 1) /\ c = <<OnePop>>
      OBVIOUS
    <3>2. a \in Seq(Cells) /\ b \in Seq(Cells) /\ c \in Seq(Cells)
      BY <2>1, <2>2, <3>1
    <3>3. (a \o b) \o c = a \o (b \o c)
      BY <3>2, Regrouped
    <3> QED
      BY <3>1, <3>3
  <2> QED
    BY <1>2, <2>3, PopsFollow
<1>4. [to EXCEPT !.code = to.code \o <<OnePop>>] = Popped(ch, n)
  BY <1>3 DEF Popped, Chunks
<1> QED
  BY <1>1, <1>4

LEMMA PopsStep ==
  ASSUME NEW ch \in Chunks, NEW k \in Nat
  PROVE  Builds(ch, Popped(ch, k), {})
<1> DEFINE good == {n \in Nat : Builds(ch, Popped(ch, n), {})}
<1>1. 0 \in good
  BY PoppedNone, StepNone
<1>2. ASSUME NEW n \in 1 .. k, n - 1 \in good
      PROVE  n \in good
  <2>1. PICK to : to = Popped(ch, n - 1)
    OBVIOUS
  <2>2. Builds(ch, to, {}) /\ n \in Nat \ {0} /\ n - 1 \in Nat
    BY <1>2, <2>1
  <2>3. to \in Chunks
    BY <2>2 DEF Builds
  <2>4. Builds(to, Emit(to, "OP_POP", <<>>), {})
    BY <2>3, EmitAlone DEF Alone
  <2>5. Emit(to, "OP_POP", <<>>) = Popped(ch, n)
    BY <2>1, <2>2, <2>3, PoppedNext
  <2> QED
    BY <2>2, <2>4, <2>5, StepTrans
<1> HIDE DEF good
<1>3. \A n \in 0 .. k : n \in good
  BY <1>1, <1>2, Upward
<1>4. k \in good
  BY <1>3
<1> QED
  BY <1>4 DEF good

LEMMA PopSteps ==
  ASSUME NEW ch \in Chunks, NEW frame \in Frames
  PROVE  Builds(ch, EmitPops(ch, frame), {})
<1>1. frame.locals \in Seq(Symbols)
  BY DEF Frames
<1>2. PICK k : k = Len(frame.locals)
  OBVIOUS
<1>3. k \in Nat /\ DOMAIN frame.locals = 1 .. k
  BY <1>1, <1>2
<1>4. EmitPops(ch, frame) = Popped(ch, k)
  BY <1>3 DEF EmitPops, Popped, Pops, OnePop
<1> QED
  BY <1>3, <1>4, PopsStep
-----------------------------------------------------------------------------
(* Expressions.                                                            *)

Nodes == [type : {"LITERAL_EXPR", "VAR_EXPR", "ASSIGN_GLOBAL"}, arg : Constants]
   \cup [type : {"LOCAL_EXPR", "ASSIGN_LOCAL"}, arg : Symbols]
   \cup [type : {"BINARY_EXPR"}, arg : {0}]
   \cup [type : {"CALL_EXPR", "ARR_EXPR"}, arg : Nat]
   \cup [type : {"COLLECT"}, arg : {s \in Seq(Nat) : Len(s) = 2}]

LEMMA NodeSteps ==
  ASSUME NEW ch \in Chunks, NEW n \in Nodes
  PROVE  Builds(ch, EmitNode(ch, n), {})
<1>1. CASE n \in [type : {"LITERAL_EXPR", "VAR_EXPR", "ASSIGN_GLOBAL"}, arg : Constants]
  <2>1. n.arg \in Constants
    BY <1>1
  <2>2. PICK op \in NamedOps : op # "OP_CLOSURE" /\ EmitNode(ch, n) = EmitConstant(ch, op, n.arg)
    <3>1. CASE n.type = "LITERAL_EXPR"
      BY <3>1 DEF EmitNode, NamedOps
    <3>2. CASE n.type = "VAR_EXPR"
      BY <3>2 DEF EmitNode, NamedOps
    <3>3. CASE n.type = "ASSIGN_GLOBAL"
      BY <3>3 DEF EmitNode, NamedOps
    <3> QED
      BY <1>1, <3>1, <3>2, <3>3
  <2> QED
    BY <2>1, <2>2, ConstantSteps
<1>2. CASE n \in [type : {"LOCAL_EXPR", "ASSIGN_LOCAL"}, arg : Symbols]
  <2>1. n.arg \in Symbols
    BY <1>2
  <2>2. PICK op \in {"OP_LOAD_LOC", "OP_STORE_LOC"} : EmitNode(ch, n) = EmitSlot(ch, op, n.arg)
    <3>1. CASE n.type = "LOCAL_EXPR"
      BY <3>1 DEF EmitNode
    <3>2. CASE n.type = "ASSIGN_LOCAL"
      BY <3>2 DEF EmitNode
    <3> QED
      BY <1>2, <3>1, <3>2
  <2> QED
    BY <2>1, <2>2, SlotSteps
<1>3. CASE n \in [type : {"BINARY_EXPR"}, arg : {0}]
  <2>1. n.type = "BINARY_EXPR"
    BY <1>3
  <2>2. EmitNode(ch, n) = Emit(ch, "OP_ADD", <<>>)
    BY <2>1 DEF EmitNode
  <2> QED
    BY <2>2, EmitAlone DEF Alone
<1>4. CASE n \in [type : {"CALL_EXPR", "ARR_EXPR"}, arg : Nat]
  <2>1. n.arg \in Int
    BY <1>4
  <2>2. PICK op \in WithOne : EmitNode(ch, n) = Emit(ch, op, <<n.arg>>)
    <3>1. CASE n.type = "CALL_EXPR"
      BY <3>1 DEF EmitNode, WithOne
    <3>2. CASE n.type = "ARR_EXPR"
      BY <3>2 DEF EmitNode, WithOne
    <3> QED
      BY <1>4, <3>1, <3>2
  <2> QED
    BY <2>1, <2>2, EmitOne
<1>5. CASE n \in [type : {"COLLECT"}, arg : {s \in Seq(Nat) : Len(s) = 2}]
  <2>1. n.type = "COLLECT" /\ n.arg \in Seq(Nat) /\ Len(n.arg) = 2
    BY <1>5
  <2>2. EmitNode(ch, n) = Emit(ch, "OP_COLLECT", n.arg)
    BY <2>1 DEF EmitNode
  <2>3. "OP_COLLECT" \in DOMAIN Width \ Jumps /\ Width["OP_COLLECT"] = 2
    BY Widths DEF WithTwo, Jumps
  <2>4. Fitting("OP_COLLECT", n.arg)
    BY <2>1, <2>3 DEF Fitting
  <2>5. n.arg \in Seq(Int)
    <3>1. Nat \subseteq Int
      OBVIOUS
    <3> QED
      BY <2>1, <3>1, SeqMonotonic
  <2> QED
    BY <2>2, <2>3, <2>4, <2>5, EmitSteps
<1> QED
  BY <1>1, <1>2, <1>3, <1>4, <1>5 DEF Nodes

(* The chunk after each node of an expression.                             *)
Walks(ch, e, f) ==
  /\ f[0] = ch /\ \A n \in 1 .. Len(e) : f[n] = EmitNode(f[n - 1], e[n])
  /\ EmitExpr(ch, e) = f[Len(e)]

LEMMA WalkExists ==
  ASSUME NEW ch \in Chunks, NEW e \in Seq(Nodes)
  PROVE  \E f \in [0 .. Len(e) -> Chunks] : Walks(ch, e, f)
<1> DEFINE m == Len(e)
           step == [n \in 1 .. m |-> [c \in Chunks |-> EmitNode(c, e[n])]]
           Body(f) == [n \in 0 .. m |-> IF n = 0 THEN ch ELSE EmitNode(f[n - 1], e[n])]
<1>1. m \in Nat /\ \A n \in 1 .. m : e[n] \in Nodes
  OBVIOUS
<1>2. \A n \in 1 .. m : \A c \in Chunks : EmitNode(c, e[n]) \in Chunks
  BY <1>1, NodeSteps DEF Builds
<1>3. step \in [1 .. m -> [Chunks -> Chunks]]
  BY <1>2
<1>4. \A n \in 1 .. m : \A c \in Chunks : step[n][c] = EmitNode(c, e[n])
  OBVIOUS
<1> HIDE DEF step, m
<1>5. PICK f \in [0 .. m -> Chunks] :
        f[0] = ch /\ \A n \in 1 .. m : f[n] = step[n][f[n - 1]]
  <2>1. PICK f \in [0 .. m -> Chunks] : IsIteration(f, ch, m, step)
    BY <1>1, <1>3, Iterates
  <2> QED
    BY <2>1 DEF IsIteration
<1>6. \A n \in 1 .. m : f[n] = EmitNode(f[n - 1], e[n])
  <2>1. \A n \in 1 .. m : n - 1 \in 0 .. m
    BY <1>1
  <2> QED
    BY <1>4, <1>5, <2>1
<1>7. f = Body(f)
  BY <1>1, <1>5, <1>6
<1>8. ASSUME NEW g, g = Body(g)
      PROVE  g[m] = f[m]
  <2>1. 0 \in 0 .. m /\ \A n \in 1 .. m : n \in 0 .. m /\ n # 0
    BY <1>1
  <2>2. g[0] = ch /\ \A n \in 1 .. m : g[n] = EmitNode(g[n - 1], e[n])
    BY <1>8, <2>1
  <2> DEFINE same == {n \in 0 .. m : g[n] = f[n]}
  <2>3. 0 \in same
    BY <1>5, <2>1, <2>2
  <2>4. \A n \in 1 .. m : n - 1 \in same => n \in same
    BY <1>6, <2>1, <2>2
  <2> HIDE DEF same
  <2>5. \A n \in 0 .. m : n \in same
    BY <1>1, <2>3, <2>4, Upward
  <2> QED
    BY <1>1, <2>5 DEF same
<1>9. PICK g : g = CHOOSE x : x = Body(x)
  OBVIOUS
<1>10. g = Body(g)
  BY <1>7, <1>9
<1>11. EmitExpr(ch, e) = g[m]
  BY <1>9 DEF EmitExpr, m
<1> QED
  BY <1>5, <1>6, <1>8, <1>10, <1>11 DEF Walks, m

LEMMA ExprSteps ==
  ASSUME NEW ch \in Chunks, NEW e \in Seq(Nodes)
  PROVE  Builds(ch, EmitExpr(ch, e), {})
<1>1. PICK f \in [0 .. Len(e) -> Chunks] : Walks(ch, e, f)
  BY WalkExists
<1>2. PICK m : m = Len(e)
  OBVIOUS
<1>3. m \in Nat /\ (\A n \in 1 .. m : e[n] \in Nodes) /\ (\A n \in 0 .. m : f[n] \in Chunks)
  BY <1>2
<1>4. f[0] = ch /\ (\A n \in 1 .. m : f[n] = EmitNode(f[n - 1], e[n])) /\ EmitExpr(ch, e) = f[m]
  BY <1>1, <1>2 DEF Walks
<1> DEFINE good == {n \in 0 .. m : Builds(ch, f[n], {})}
<1>5. 0 \in good
  BY <1>3, <1>4, StepNone
<1>6. ASSUME NEW n \in 1 .. m, n - 1 \in good
      PROVE  n \in good
  <2>1. n \in 0 .. m /\ n - 1 \in 0 .. m
    BY <1>3
  <2>2. Builds(ch, f[n - 1], {})
    BY <1>6
  <2>3. Builds(f[n - 1], f[n], {})
    BY <1>3, <1>4, <2>1, NodeSteps
  <2> QED
    BY <2>1, <2>2, <2>3, StepTrans
<1> HIDE DEF good
<1>7. \A n \in 0 .. m : n \in good
  BY <1>3, <1>5, <1>6, Upward
<1>8. Builds(ch, f[m], {})
  BY <1>3, <1>7 DEF good
<1> QED
  BY <1>4, <1>8


LEMMA LiteralType ==
  ASSUME NEW n \in Nat
  PROVE  Literal(n) \in Nodes
<1>1. <<"num", n>> \in Constants
  BY DEF Constants
<1> QED
  BY <1>1 DEF Literal, Node, Number, Nodes

LEMMA NameType == Name \in Constants /\ GlobalVar \in Nodes /\ SetGlobal \in Nodes
<1>1. Name \in Constants
  BY DEF Name, Constants
<1> QED
  BY <1>1 DEF GlobalVar, SetGlobal, Node, Nodes

LEMMA LocalType ==
  ASSUME NEW s \in Symbols
  PROVE  LocalVar(s) \in Nodes /\ SetLocal(s) \in Nodes
BY DEF LocalVar, SetLocal, Node, Nodes

(* The batches of an array literal.                                        *)
Elements(count, b) == [i \in 1 .. Batch(count, b) |-> Literal((b - 1) * SlotSize + i)]
CollectNode(count, b) == <<Node("COLLECT", <<b - 1, Batch(count, b)>>)>>
Batches(count) == (count + SlotSize - 1) \div SlotSize
FirstNode(count) == <<Node("ARR_EXPR", count)>>

LEMMA BatchType ==
  ASSUME NEW count \in Nat, NEW b \in Nat \ {0}
  PROVE  /\ Elements(count, b) \in Seq(Nodes) /\ CollectNode(count, b) \in Seq(Nodes)
         /\ FirstNode(count) \in Seq(Nodes) /\ Batches(count) \in Nat
<1>1. SlotSize \in Nat \ {0}
  BY CodegenAssumption
<1>2. PICK n : n = Batch(count, b)
  OBVIOUS
<1>3. n \in Nat
  <2>1. count % SlotSize \in Nat
    BY <1>1
  <2> QED
    BY <1>1, <1>2, <2>1 DEF Batch
<1>4. Elements(count, b) \in Seq(Nodes)
  <2>1. PICK base : base = (b - 1) * SlotSize
    OBVIOUS
  <2>2. base \in Nat
    BY <1>1, <2>1
  <2>3. \A i \in 1 .. n : Literal(base + i) \in Nodes
    BY <1>3, <2>2, LiteralType
  <2>4. Elements(count, b) = [i \in 1 .. n |-> Literal(base + i)]
    BY <1>2, <2>1 DEF Elements
  <2>5. Elements(count, b) \in [1 .. n -> Nodes]
    BY <2>3, <2>4
  <2> QED
    BY <1>3, <2>5
<1>5. CollectNode(count, b) \in Seq(Nodes)
  <2>1. <<b - 1, n>> \in {s \in Seq(Nat) : Len(s) = 2}
    BY <1>3
  <2>2. Node("COLLECT", <<b - 1, n>>) \in Nodes
    BY <2>1 DEF Node, Nodes
  <2> QED
    BY <1>2, <2>2 DEF CollectNode
<1>6. FirstNode(count) \in Seq(Nodes)
  <2>1. Node("ARR_EXPR", count) \in Nodes
    BY DEF Node, Nodes
  <2> QED
    BY <2>1 DEF FirstNode
<1>7. Batches(count) \in Nat
  <2>1. PICK n0 : n0 = count + SlotSize - 1
    OBVIOUS
  <2>2. n0 \in Nat
    BY <1>1, <2>1
  <2>3. n0 \div SlotSize \in Nat
    BY <1>1, <2>2
  <2> QED
    BY <2>1, <2>3 DEF Batches
<1> QED
  BY <1>4, <1>5, <1>6, <1>7

ArrayWalk(count, f) ==
  /\ f[0] = FirstNode(count)
  /\ \A b \in 1 .. Batches(count) :
       f[b] = f[b - 1] \o Elements(count, b) \o CollectNode(count, b)
  /\ ArrayOf(count) = f[Batches(count)]

LEMMA ArrayWalkExists ==
  ASSUME NEW count \in Nat
  PROVE  \E f \in [0 .. Batches(count) -> Seq(Nodes)] : ArrayWalk(count, f)
<1> DEFINE Longer(s, b) == s \o Elements(count, b) \o CollectNode(count, b)
           step == [b \in 1 .. Batches(count) |-> [s \in Seq(Nodes) |-> Longer(s, b)]]
           Body(f) == [b \in 0 .. Batches(count) |-> IF b = 0 THEN FirstNode(count)
                                        ELSE Longer(f[b - 1], b)]
<1>1. PICK m : m = Batches(count)
  OBVIOUS
<1>2. m \in Nat
  BY <1>1, BatchType
<1>3. \A b \in 1 .. m : \A s \in Seq(Nodes) : Longer(s, b) \in Seq(Nodes)
  <2>1. ASSUME NEW b \in 1 .. m, NEW s \in Seq(Nodes)
        PROVE  Longer(s, b) \in Seq(Nodes)
    <3>1. b \in Nat \ {0}
      BY <1>2
    <3>2. Elements(count, b) \in Seq(Nodes) /\ CollectNode(count, b) \in Seq(Nodes)
      BY <3>1, BatchType
    <3>3. PICK part : part = s \o Elements(count, b)
      OBVIOUS
    <3>4. part \in Seq(Nodes)
      BY <3>2, <3>3, ConcatProperties
    <3>5. part \o CollectNode(count, b) \in Seq(Nodes)
      BY <3>2, <3>4, ConcatProperties
    <3> QED
      BY <3>3, <3>5
  <2> QED
    BY <2>1
<1> HIDE DEF Longer
<1>4. step \in [1 .. m -> [Seq(Nodes) -> Seq(Nodes)]]
  BY <1>1, <1>3
<1>5. \A b \in 1 .. m : \A s \in Seq(Nodes) : step[b][s] = Longer(s, b)
  BY <1>1
<1> HIDE DEF step
<1>6. PICK f \in [0 .. m -> Seq(Nodes)] :
        f[0] = FirstNode(count) /\ \A b \in 1 .. m : f[b] = step[b][f[b - 1]]
  <2>1. PICK X : X = Seq(Nodes)
    OBVIOUS
  <2>2. FirstNode(count) \in X /\ step \in [1 .. m -> [X -> X]]
    <3>1. FirstNode(count) \in Seq(Nodes)
      <4>1. 1 \in Nat \ {0}
        OBVIOUS
      <4> QED
        BY <4>1, BatchType
    <3> QED
      BY <1>4, <2>1, <3>1
  <2>3. PICK f \in [0 .. m -> X] : IsIteration(f, FirstNode(count), m, step)
    BY <1>2, <2>2, Iterates
  <2> QED
    BY <2>1, <2>3 DEF IsIteration
<1>7. \A b \in 1 .. m : f[b] = Longer(f[b - 1], b)
  <2>1. \A b \in 1 .. m : b - 1 \in 0 .. m
    BY <1>2
  <2> QED
    BY <1>5, <1>6, <2>1
<1>8. f = Body(f)
  BY <1>1, <1>2, <1>6, <1>7
<1>9. ASSUME NEW g, g = Body(g)
      PROVE  g[m] = f[m]
  <2>1. 0 \in 0 .. m /\ \A b \in 1 .. m : b \in 0 .. m /\ b # 0
    BY <1>2
  <2>2. g[0] = FirstNode(count) /\ \A b \in 1 .. m : g[b] = Longer(g[b - 1], b)
    BY <1>1, <1>9, <2>1
  <2> DEFINE same == {b \in 0 .. m : g[b] = f[b]}
  <2>3. 0 \in same
    BY <1>6, <2>1, <2>2
  <2>4. \A b \in 1 .. m : b - 1 \in same => b \in same
    BY <1>7, <2>1, <2>2
  <2> HIDE DEF same
  <2>5. \A b \in 0 .. m : b \in same
    BY <1>2, <2>3, <2>4, Upward
  <2> QED
    BY <1>2, <2>5 DEF same
<1>10. PICK g : g = CHOOSE x : x = Body(x)
  OBVIOUS
<1>11. g = Body(g)
  BY <1>8, <1>10
<1>12. ArrayOf(count) = g[m]
  BY <1>1, <1>10 DEF ArrayOf, Longer, Elements, CollectNode, Batches, FirstNode
<1>13. ArrayOf(count) = f[m]
  BY <1>9, <1>11, <1>12
<1>14. \A b \in 1 .. m : f[b] = f[b - 1] \o Elements(count, b) \o CollectNode(count, b)
  BY <1>7 DEF Longer
<1>15. ArrayWalk(count, f)
  BY <1>1, <1>6, <1>13, <1>14 DEF ArrayWalk
<1> QED
  BY <1>1, <1>15

LEMMA ArrayType ==
  ASSUME NEW count \in Nat
  PROVE  ArrayOf(count) \in Seq(Nodes)
<1>1. PICK f \in [0 .. Batches(count) -> Seq(Nodes)] : ArrayWalk(count, f)
  BY ArrayWalkExists
<1>2. Batches(count) \in Nat
  <2>1. 1 \in Nat \ {0}
    OBVIOUS
  <2> QED
    BY <2>1, BatchType
<1>3. PICK m : m = Batches(count)
  OBVIOUS
<1> QED
  BY <1>1, <1>2, <1>3 DEF ArrayWalk
-----------------------------------------------------------------------------
(* Declarations and functions.                                             *)

LEMMA DeclareSteps ==
  ASSUME NEW ch \in Chunks, NEW frame \in Frames, symbols \in Nat
  PROVE  /\ Builds(ch, EmitDeclare(ch, frame), {})
         /\ NewSymbol(frame) \in Symbols
<1>1. NewSymbol(frame) \in Symbols
  <2>1. frame.base \in Nat /\ Len(frame.locals) \in Nat
    BY DEF Frames
  <2> QED
    BY <2>1 DEF NewSymbol, Symbols
<1>2. CASE frame.kind = "script"
  BY <1>1, <1>2, NameType, ConstantSteps DEF EmitDeclare, NamedOps
<1>3. CASE frame.kind # "script"
  BY <1>1, <1>3, SlotSteps DEF EmitDeclare, EmitStore
<1> QED
  BY <1>1, <1>2, <1>3

LEMMA FunctionSteps ==
  ASSUME NEW ch \in Chunks, functions \in Seq(Chunks), NEW upvalues \in {<<>>, <<0, 0>>}
  PROVE  Builds(ch, EmitFunction(ch, upvalues), {})
<1>1. PICK fn : fn = <<"fn", Len(functions) + 1>>
  OBVIOUS
<1>2. fn \in Constants
  <2>1. Len(functions) + 1 \in Nat
    OBVIOUS
  <2> QED
    BY <1>1, <2>1 DEF Constants
<1>3. CASE upvalues = <<>>
  <2>1. EmitFunction(ch, upvalues) = EmitConstant(ch, "OP_CONST", fn)
    BY <1>1, <1>3 DEF EmitFunction
  <2> QED
    BY <1>2, <2>1, ConstantSteps DEF NamedOps
<1>4. CASE upvalues = <<0, 0>>
  <2>1. PICK p : p = Place(ch, fn)
    OBVIOUS
  <2>2. p \in Int
    BY <1>2, <2>1, PlaceIs
  <2>3. PICK head, tail, operands :
          head = <<p, 1>> /\ tail = <<0, 0>> /\ operands = head \o tail
    OBVIOUS
  <2>4. operands \in Seq(Int) /\ Len(operands) = 4 /\ operands[1] = p /\ operands[2] = 1
    <3>1. /\ head \in Seq(Int) /\ Len(head) = 2 /\ head[1] = p /\ head[2] = 1
          /\ tail \in Seq(Int) /\ Len(tail) = 2
      BY <2>2, <2>3
    <3>2. IsJoin(Int, head, tail, operands)
      BY <2>3, <3>1, Joined
    <3> QED
      BY <3>1, <3>2 DEF IsJoin
  <2>5. Byte(operands[2]) = 1
    <3>1. 1 \in 0 .. ByteSize - 1
      BY CodegenAssumption
    <3> QED
      BY <2>4, <3>1, SmallByte
  <2>6. Fitting("OP_CLOSURE", operands)
    BY <2>4, <2>5 DEF Fitting
  <2>7. <<p, Len(upvalues) \div 2>> \o upvalues = operands
    <3>1. Len(upvalues) \div 2 = 1
      BY <1>4
    <3> QED
      BY <1>4, <2>3, <3>1
  <2>8. upvalues # <<>>
    BY <1>4
  <2>9. PICK to : to = [Means(Emit(ch, "OP_CLOSURE", operands), Count(ch), fn)
                         EXCEPT !.constants = Pool(ch, fn)]
    OBVIOUS
  <2>10. EmitFunction(ch, upvalues) = to
    <3>1. PICK raw : raw = Emit(ch, "OP_CLOSURE", operands)
      OBVIOUS
    <3>2. raw \in Chunks
      <4>1. "OP_CLOSURE" \in DOMAIN Width
        BY Widths DEF WithTwo
      <4> QED
        BY <2>4, <3>1, <4>1, EmitType DEF Emitted
    <3>3. EmitFunction(ch, upvalues)
            = Means([raw EXCEPT !.constants = Pool(ch, fn)], Count(ch), fn)
      BY <1>1, <2>1, <2>7, <2>8, <3>1 DEF EmitFunction
    <3>4. to = [Means(raw, Count(ch), fn) EXCEPT !.constants = Pool(ch, fn)]
      BY <2>9, <3>1
    <3> QED
      BY <3>2, <3>3, <3>4 DEF Means, Chunks
  <2>11. Builds(ch, to, {})
    BY <1>2, <2>1, <2>4, <2>6, <2>9, NamedSteps DEF NamedOps
  <2> QED
    BY <2>10, <2>11
<1> QED
  BY <1>3, <1>4


LEMMA ClosingSteps ==
  ASSUME NEW ch \in Chunks, Top \in Frames
  PROVE  Builds(ch, EmitClosing(ch), {})
<1>1. PICK pops : pops = EmitPops(ch, Top)
  OBVIOUS
<1>2. Builds(ch, pops, {}) /\ pops \in Chunks
  BY <1>1, PopSteps DEF Builds
<1>3. PICK nil : nil = Emit(pops, "OP_NIL", <<>>)
  OBVIOUS
<1>4. Builds(pops, nil, {}) /\ nil \in Chunks
  BY <1>2, <1>3, EmitAlone DEF Alone, Builds
<1>5. Builds(ch, nil, {})
  BY <1>2, <1>4, StepTrans
<1>6. Builds(nil, Emit(nil, "OP_RETURN", <<>>), {})
  BY <1>4, EmitAlone DEF Alone
<1>7. Builds(ch, Emit(nil, "OP_RETURN", <<>>), {})
  BY <1>5, <1>6, StepTrans
<1> QED
  BY <1>1, <1>2, <1>3, <1>7 DEF EmitClosing
-----------------------------------------------------------------------------
(* patchJump.                                                              *)

LEMMA PatchType ==
  ASSUME NEW ch \in Chunks, NEW P \in SUBSET Nat, NEW to, to = PatchJumps(ch, P)
  PROVE  /\ to \in Chunks /\ Count(to) = Count(ch)
         /\ to.constants = ch.constants /\ to.meaning = ch.meaning
         /\ \A i \in 1 .. Count(ch) :
              to.code[i] = IF i - 1 \in P THEN [byte |-> Byte(Distance(ch, i - 1) \div ByteSize)]
                           ELSE IF i - 2 \in P THEN [byte |-> Byte(Distance(ch, i - 2))]
                           ELSE ch.code[i]
         /\ \A i \in 1 .. Count(ch) : i - 1 \in P \/ i - 2 \in P => to.code[i] \in ByteCells
<1> DEFINE Cell(i) == IF i - 1 \in P THEN [byte |-> Byte(Distance(ch, i - 1) \div ByteSize)]
                      ELSE IF i - 2 \in P THEN [byte |-> Byte(Distance(ch, i - 2))]
                      ELSE ch.code[i]
<1>1. PICK n, code : n = Count(ch) /\ code = [i \in 1 .. n |-> Cell(i)]
  OBVIOUS
<1>2. n \in Nat /\ DOMAIN ch.code = 1 .. n
  BY <1>1, ChunkType
<1>3. ASSUME NEW i \in 1 .. n
      PROVE  /\ Distance(ch, i - 1) \div ByteSize \in Int
             /\ Distance(ch, i - 2) \in Int
  <2>1. Distance(ch, i - 1) \in Int /\ Distance(ch, i - 2) \in Int
    BY <1>1, <1>2 DEF Distance
  <2> QED
    BY <2>1, CodegenAssumption
<1>4. \A i \in 1 .. n : i - 1 \in P \/ i - 2 \in P => Cell(i) \in ByteCells
  BY <1>3, ByteType
<1>5. \A i \in 1 .. n : Cell(i) \in Cells
  <2>1. \A i \in 1 .. n : ch.code[i] \in Cells
    BY <1>1, ChunkType
  <2> QED
    BY <1>4, <2>1, CellKinds
<1>6. \A i \in 1 .. n : code[i] = Cell(i)
  BY <1>1
<1>7. to = [ch EXCEPT !.code = code]
  BY <1>1, <1>2 DEF PatchJumps
<1>8. code \in Seq(Cells) /\ Len(code) = n
  <2>1. code \in [1 .. n -> Cells]
    BY <1>1, <1>5
  <2> QED
    BY <1>2, <2>1
<1>9. to \in Chunks /\ to.code = code /\ to.constants = ch.constants /\ to.meaning = ch.meaning
  BY <1>7, <1>8 DEF Chunks
<1>10. Count(to) = Count(ch)
  BY <1>1, <1>8, <1>9 DEF Count
<1> QED
  BY <1>1, <1>4, <1>6, <1>9, <1>10

LEMMA PatchElsewhere ==
  ASSUME NEW ch \in Chunks, NEW P \in SUBSET Nat, NEW to, to = PatchJumps(ch, P),
         NEW i \in 1 .. Count(ch), ~(i - 1 \in P \/ i - 2 \in P)
  PROVE  to.code[i] = ch.code[i]
<1> DEFINE Cell(j) == IF j - 1 \in P THEN [byte |-> Byte(Distance(ch, j - 1) \div ByteSize)]
                      ELSE IF j - 2 \in P THEN [byte |-> Byte(Distance(ch, j - 2))]
                      ELSE ch.code[j]
<1>1. \A j \in 1 .. Count(ch) : to.code[j] = Cell(j)
  BY PatchType
<1>2. Cell(i) = ch.code[i]
  OBVIOUS
<1> HIDE DEF Cell
<1> QED
  BY <1>1, <1>2

(* Instructions do not overlap.                                            *)
LEMMA Apart ==
  ASSUME NEW ch \in Chunks, Whole(ch), NEW o \in Ops(ch), NEW p \in Ops(ch), o < p
  PROVE  Following(ch, o) <= p
<1>1. PICK f : f = Following(ch, o)
  OBVIOUS
<1>2. f \in Nat /\ o \in Nat
  BY <1>1, InstructionIs DEF Instruction
<1>3. p \in Nat
  BY InstructionIs DEF Instruction
<1>4. p \notin o + 1 .. f - 1
  BY <1>1 DEF Whole
<1> QED
  BY <1>1, <1>2, <1>3, <1>4

(* The jump before a hole: it ends two bytes after it.                     *)
HoleEnds(ch, h) ==
  /\ h \in Nat /\ h - 1 \in Nat /\ h - 1 \in Ops(ch) /\ OpAt(ch, h - 1) \in {"OP_JIF", "OP_JMP"}
  /\ Following(ch, h - 1) = h + 2 /\ h + 2 <= Count(ch)

LEMMA HoleIs ==
  ASSUME NEW ch \in Chunks, Whole(ch), NEW h \in Nat, Hole(ch, h)
  PROVE  HoleEnds(ch, h)
<1>1. PICK o : o = h - 1
  OBVIOUS
<1>2. o \in Ops(ch) /\ OpAt(ch, o) \in {"OP_JIF", "OP_JMP"}
  BY <1>1 DEF Hole
<1>3. Instruction(ch, o)
  BY <1>2, InstructionIs
<1>4. o \in Nat /\ Following(ch, o) = o + 1 + 2 /\ Following(ch, o) <= Count(ch)
  BY <1>2, <1>3 DEF Instruction, Jumps
<1>5. o + 1 + 2 = h + 2
  BY <1>1
<1> QED
  BY <1>1, <1>2, <1>4, <1>5 DEF HoleEnds

(* No hole is in an instruction but its own.                               *)
LEMMA HolesApart ==
  ASSUME NEW ch \in Chunks, Whole(ch), NEW o \in Ops(ch), NEW h \in Nat, Hole(ch, h),
         h # o + 1
  PROVE  /\ o \in Nat /\ Following(ch, o) \in Nat
         /\ h + 2 <= o \/ Following(ch, o) <= h - 1
<1>1. PICK p : p = h - 1
  OBVIOUS
<1>2. p \in Nat /\ p \in Ops(ch) /\ Following(ch, p) = h + 2
  BY <1>1, HoleIs DEF HoleEnds
<1>3. o \in Nat /\ Following(ch, o) \in Nat
  BY InstructionIs DEF Instruction
<1>4. p # o
  BY <1>1, <1>3
<1>5. p < o \/ o < p
  BY <1>2, <1>3, <1>4
<1>6. p < o => h + 2 <= o
  BY <1>2, Apart
<1>7. o < p => Following(ch, o) <= p
  BY <1>2, Apart
<1> QED
  BY <1>1, <1>3, <1>5, <1>6, <1>7

(* A patched jump lands at the end of the code.                            *)
PatchedAt(ch, to, P, o) ==
  /\ o \in Ops(to) /\ OpAt(to, o) = OpAt(ch, o) /\ Following(to, o) = Following(ch, o)
  /\ o + 1 \notin P => SameAt(ch, to, o)
  /\ o + 1 \in P => Target(to, o) = Count(ch)

LEMMA PatchAt ==
  ASSUME NEW ch \in Chunks, Whole(ch), NEW P \in SUBSET Nat,
         \A h \in P : Hole(ch, h), Reachable(ch, P),
         NEW to, to = PatchJumps(ch, P), NEW o \in Ops(ch)
  PROVE  PatchedAt(ch, to, P, o)
<1>1. PICK n, f : n = Count(ch) /\ f = Following(ch, o)
  OBVIOUS
<1>2. n \in Nat /\ o \in Nat /\ f \in Nat /\ f <= n /\ o < f
  <2>1. Instruction(ch, o)
    BY InstructionIs
  <2>2. n \in Nat
    BY <1>1, ChunkType
  <2> QED
    BY <1>1, <2>1, <2>2 DEF Instruction
<1>3. to \in Chunks /\ Count(to) = n
  BY <1>1, PatchType
<1>4. \A i \in 1 .. n :
        to.code[i] = IF i - 1 \in P THEN [byte |-> Byte(Distance(ch, i - 1) \div ByteSize)]
                     ELSE IF i - 2 \in P THEN [byte |-> Byte(Distance(ch, i - 2))]
                     ELSE ch.code[i]
  BY <1>1, PatchType
<1>5. \A h \in P : h # o + 1 => h + 2 <= o \/ f <= h - 1
  BY <1>1, HolesApart
<1>6. CASE o + 1 \notin P
  <2>1. ASSUME NEW i \in o + 1 .. f
        PROVE  to.code[i] = ch.code[i]
    <3>1. i \in 1 .. n /\ i \in Nat
      BY <1>2
    <3>2. i - 1 \notin P
      <4>1. ~(i - 1 + 2 <= o \/ f <= i - 1 - 1)
        BY <1>2, <3>1
      <4> QED
        BY <1>5, <1>6, <4>1
    <3>3. i - 2 \notin P
      <4>1. ~(i - 2 + 2 <= o \/ f <= i - 2 - 1)
        BY <1>2, <3>1
      <4> QED
        BY <1>5, <1>6, <4>1
    <3> QED
      BY <1>4, <3>1, <3>2, <3>3
  <2>2. SameAt(ch, to, o)
    <3>1. Count(ch) <= Count(to)
      BY <1>1, <1>2, <1>3
    <3> QED
      BY <1>1, <1>3, <2>1, <3>1, InstructionKept
  <2> QED
    BY <1>6, <2>2 DEF PatchedAt, SameAt
<1>7. CASE o + 1 \in P
  <2>1. PICK h, d : h = o + 1 /\ d = Distance(ch, h)
    OBVIOUS
  <2>2. h \in P /\ h \in Nat /\ h - 1 = o
    BY <1>2, <1>7, <2>1
  <2>3. f = h + 2 /\ h + 2 <= n /\ OpAt(ch, o) \in {"OP_JIF", "OP_JMP"}
    <3>1. HoleEnds(ch, h)
      BY <2>2, HoleIs
    <3> QED
      BY <1>1, <2>2, <3>1 DEF HoleEnds
  <2>4. d = n - h - 2 /\ d \in Nat /\ d <= ShortMax
    <3>1. d = n - h - 2
      BY <1>1, <2>1 DEF Distance
    <3>2. d <= ShortMax
      BY <2>1, <2>2 DEF Reachable
    <3> QED
      BY <1>2, <2>2, <2>3, <3>1, <3>2
  <2>5. o \notin P /\ o - 1 \notin P /\ h + 1 \notin P
    <3>1. ASSUME o \in P
          PROVE  FALSE
      <4>1. o # o + 1 /\ ~(o + 2 <= o) /\ ~(f <= o - 1)
        BY <1>2
      <4> QED
        BY <1>5, <3>1, <4>1
    <3>2. ASSUME o - 1 \in P
          PROVE  FALSE
      <4>1. o - 1 # o + 1 /\ ~(o - 1 + 2 <= o) /\ ~(f <= o - 1 - 1)
        BY <1>2
      <4> QED
        BY <1>5, <3>2, <4>1
    <3>3. ASSUME h + 1 \in P
          PROVE  FALSE
      <4>1. PICK g : g = h + 1
        OBVIOUS
      <4>2. g # o + 1 /\ ~(g + 2 <= o) /\ ~(f <= g - 1)
        BY <1>2, <2>1, <2>3, <4>1
      <4>3. g \in P
        BY <3>3, <4>1
      <4> QED
        BY <1>5, <4>2, <4>3
    <3> QED
      BY <3>1, <3>2, <3>3
  <2>6. PICK i, j, k : i = o + 1 /\ j = h + 1 /\ k = h + 2
    OBVIOUS
  <2>7. to.code[o + 1] = ch.code[o + 1]
    <3>1. i \in 1 .. n /\ i - 1 = o /\ i - 2 = o - 1
      BY <1>2, <2>6
    <3> QED
      BY <1>4, <2>5, <2>6, <3>1
  <2>8. to.code[h + 1] = [byte |-> Byte(d \div ByteSize)] /\ to.code[h + 2] = [byte |-> Byte(d)]
    <3>1. j \in 1 .. n /\ j - 1 = h /\ k \in 1 .. n /\ k - 1 = h + 1 /\ k - 2 = h
      BY <1>2, <2>1, <2>3, <2>6
    <3>2. to.code[j] = [byte |-> Byte(d \div ByteSize)]
      BY <1>4, <2>1, <2>2, <3>1
    <3>3. to.code[k] = [byte |-> Byte(d)]
      BY <1>4, <2>1, <2>2, <2>5, <3>1
    <3> QED
      BY <2>6, <3>2, <3>3
  <2>9. o \in Ops(to) /\ OpAt(to, o) = OpAt(ch, o)
    <3>1. ch.code[o + 1] \in OpCells
      BY InstructionIs DEF Instruction
    <3>2. o \in 0 .. Count(to) - 1
      BY <1>2, <1>3
    <3> QED
      BY <1>3, <2>7, <3>1, <3>2, OpsAre DEF OpAt
  <2>10. Following(to, o) = Following(ch, o)
    <3>1. OpAt(ch, o) # "OP_CLOSURE"
      BY <2>3
    <3> QED
      BY <2>9, <3>1 DEF Following, OperandsAt, OpAt
  <2>11. Short(to, h) = d
    <3>1. h + 2 = h + 1 + 1
      BY <2>2
    <3>2. ByteAt(to, h) = Byte(d \div ByteSize) /\ ByteAt(to, h + 1) = Byte(d)
      BY <2>8, <3>1 DEF ByteAt
    <3> QED
      BY <2>4, <3>2, TwoBytes DEF Short
  <2>12. Target(to, o) = n
    <3>1. OpAt(to, o) # "OP_LOOP"
      BY <2>3, <2>9
    <3>2. Target(to, o) = o + 3 + d
      BY <2>1, <2>11, <3>1 DEF Target, OpAt
    <3> QED
      BY <1>2, <2>1, <2>4, <3>2
  <2> QED
    BY <1>1, <1>7, <2>9, <2>10, <2>12 DEF PatchedAt
<1> QED
  BY <1>6, <1>7

(* Patches change no instruction but the jumps they are for.               *)
Patched(ch, to, P) ==
  /\ to \in Chunks /\ Count(to) = Count(ch)
  /\ to.constants = ch.constants /\ to.meaning = ch.meaning
  /\ \A o \in Ops(ch) : PatchedAt(ch, to, P, o)
  /\ Ops(to) = Ops(ch) /\ Begins(to) = Begins(ch) /\ Kept(ch, to) /\ Whole(to)

LEMMA PatchWhole ==
  ASSUME NEW ch \in Chunks, Whole(ch), NEW P \in SUBSET Nat,
         \A h \in P : Hole(ch, h), Reachable(ch, P),
         NEW to, to = PatchJumps(ch, P)
  PROVE  Patched(ch, to, P)
<1>2. /\ to \in Chunks /\ Count(to) = Count(ch)
      /\ to.constants = ch.constants /\ to.meaning = ch.meaning
  BY PatchType
<1>3. \A o \in Ops(ch) : PatchedAt(ch, to, P, o)
  BY PatchAt
<1>4. Ops(to) = Ops(ch)
  <2>1. Ops(ch) \subseteq Ops(to)
    BY <1>3 DEF PatchedAt
  <2>2. ASSUME NEW o \in Ops(to)
        PROVE  o \in Ops(ch)
    <3>1. o \in 0 .. Count(to) - 1 /\ to.code[o + 1] \in OpCells
      <4>1. o \in 0 .. Count(to) - 1
        BY DEF Ops
      <4> QED
        BY <1>2, <4>1, OpsAre
    <3>2. Count(ch) \in Nat
      BY ChunkType
    <3>3. o + 1 \in 1 .. Count(ch) /\ o \in 0 .. Count(ch) - 1
      BY <1>2, <3>1, <3>2
    <3>4. to.code[o + 1] \notin ByteCells
      BY <3>1, CellKinds
    <3>5. PICK i : i = o + 1
      OBVIOUS
    <3>6. i \in 1 .. Count(ch) /\ to.code[i] \notin ByteCells
      BY <3>3, <3>4, <3>5
    <3>7. ~(i - 1 \in P \/ i - 2 \in P)
      BY <3>6, PatchType
    <3>8. to.code[i] = ch.code[i]
      BY <3>6, <3>7, PatchElsewhere
    <3> QED
      BY <3>1, <3>3, <3>5, <3>8, OpsAre
  <2> QED
    BY <2>1, <2>2
<1>5. Begins(to) = Begins(ch)
  BY <1>2, <1>4 DEF Begins
<1>6. Kept(ch, to)
  BY <1>3, <1>4, <1>5 DEF Kept, PatchedAt
<1>7. Whole(to)
  <2>1. ASSUME NEW o \in Ops(to)
        PROVE  /\ OpAt(to, o) = "OP_CLOSURE" => o + 2 < Count(to) /\ o + 2 \notin Ops(to)
               /\ Following(to, o) \in Begins(to)
               /\ \A k \in o + 1 .. Following(to, o) - 1 : k \notin Ops(to)
    <3>1. o \in Ops(ch)
      BY <1>4
    <3>2. OpAt(to, o) = OpAt(ch, o) /\ Following(to, o) = Following(ch, o)
      BY <1>3, <3>1 DEF PatchedAt
    <3> QED
      BY <1>2, <1>4, <1>5, <3>1, <3>2 DEF Whole
  <2>2. 0 \in Begins(to)
    BY <1>5 DEF Whole
  <2> QED
    BY <2>1, <2>2 DEF Whole
<1> QED
  BY <1>2, <1>3, <1>4, <1>5, <1>6, <1>7 DEF Patched

LEMMA PatchSound ==
  ASSUME NEW ch \in Chunks, NEW H \in SUBSET Nat, Sound(ch, H), NEW P \in SUBSET Nat,
         \A h \in P : Hole(ch, h), Reachable(ch, P),
         NEW rest \in SUBSET Nat, H \ P \subseteq rest, \A h \in rest : Hole(ch, h),
         NEW to, to = PatchJumps(ch, P)
  PROVE  Sound(to, rest) /\ Kept(ch, to)
<1>1. Whole(ch) /\ JumpsLanded(ch, H) /\ Pooled(ch)
  BY DEF Sound
<1>2. /\ to \in Chunks /\ Count(to) = Count(ch)
      /\ to.constants = ch.constants /\ to.meaning = ch.meaning
      /\ \A o \in Ops(ch) : PatchedAt(ch, to, P, o)
      /\ Ops(to) = Ops(ch) /\ Begins(to) = Begins(ch) /\ Kept(ch, to) /\ Whole(to)
  BY <1>1, PatchWhole DEF Patched
<1>3. \A o \in Ops(ch) : PatchedAt(ch, to, P, o)
  BY <1>2
<1>4. Ops(to) = Ops(ch)
  BY <1>2
<1>5. Begins(to) = Begins(ch)
  BY <1>2
<1>6. Kept(ch, to)
  BY <1>2
<1>7. Whole(to)
  BY <1>2
<1>8. JumpsLanded(to, rest)
  <2>1. ASSUME NEW o \in Ops(to), OpAt(to, o) \in Jumps
        PROVE  Landed(to, o) \/ Open(to, o, rest)
    <3>1. o \in Ops(ch) /\ PatchedAt(ch, to, P, o)
      BY <1>3, <1>4
    <3>2. OpAt(ch, o) \in Jumps
      BY <2>1, <3>1 DEF PatchedAt
    <3>3. CASE o + 1 \notin P
      <4>1. SameAt(ch, to, o)
        BY <3>1, <3>3 DEF PatchedAt
      <4>2. Short(to, o + 1) = Short(ch, o + 1) /\ Target(to, o) = Target(ch, o)
        BY <3>2, <4>1 DEF SameAt
      <4>3. Landed(ch, o) \/ Open(ch, o, H)
        BY <1>1, <3>1, <3>2 DEF JumpsLanded
      <4>4. Landed(ch, o) => Landed(to, o)
        BY <1>5, <4>2 DEF Landed
      <4>5. Open(ch, o, H) => Open(to, o, rest)
        BY <3>3, <4>2 DEF Open
      <4> QED
        BY <4>3, <4>4, <4>5
    <3>4. CASE o + 1 \in P
      <4>1. Target(to, o) = Count(ch)
        BY <3>1, <3>4 DEF PatchedAt
      <4>2. Count(ch) # o
        BY <1>1, <3>1, InstructionIs DEF Instruction
      <4> QED
        BY <1>2, <4>1, <4>2 DEF Landed, Begins
    <3> QED
      BY <3>3, <3>4
  <2>2. ASSUME NEW h \in rest
        PROVE  Hole(to, h)
    <3>1. h - 1 \in Ops(ch) /\ OpAt(ch, h - 1) \in {"OP_JIF", "OP_JMP"}
      BY DEF Hole
    <3>2. PatchedAt(ch, to, P, h - 1)
      BY <1>3, <3>1
    <3> QED
      BY <3>1, <3>2 DEF Hole, PatchedAt
  <2> QED
    BY <2>1, <2>2 DEF JumpsLanded
<1>9. Pooled(to)
  <2>1. ASSUME NEW m \in to.meaning
        PROVE  Names(to, m)
    <3>1. Names(ch, m)
      BY <1>1, <1>2 DEF Pooled
    <3>2. m[1] \in Ops(ch) /\ OpAt(ch, m[1]) \in Naming
      BY <3>1 DEF Names
    <3>3. PICK o : o = m[1]
      OBVIOUS
    <3>4. o + 1 \notin P
      <4>1. o \in Nat
        BY <1>1, <3>2, <3>3, InstructionIs DEF Instruction
      <4>2. PICK h : h = o + 1
        OBVIOUS
      <4>3. h - 1 = o
        BY <4>1, <4>2
      <4>4. OpAt(ch, o) \notin {"OP_JIF", "OP_JMP"}
        BY <3>2, <3>3 DEF Naming
      <4>5. ~Hole(ch, h)
        BY <4>3, <4>4 DEF Hole
      <4> QED
        BY <4>2, <4>5
    <3>5. SameAt(ch, to, o)
      BY <1>3, <3>2, <3>3, <3>4 DEF PatchedAt
    <3>6. o \in Ops(to) /\ OpAt(to, o) \in Naming /\ ByteAt(to, o + 1) = ByteAt(ch, o + 1)
      BY <3>2, <3>3, <3>5 DEF SameAt
    <3> QED
      BY <1>2, <3>1, <3>3, <3>6 DEF Names
  <2> QED
    BY <1>1, <1>2, <2>1 DEF Pooled
<1> QED
  BY <1>2, <1>6, <1>7, <1>8, <1>9 DEF Sound

-----------------------------------------------------------------------------
(* Counting the statements in progress.                                    *)

CountOf(frames, kind, n) == Cardinality({i \in 1 .. n : frames[i].kind = kind})
Level(frames, n) == CountOf(frames, "fn", n)
LoopOf(frames, n) == CountOf(frames, "body", n)

LEMMA CountType ==
  ASSUME NEW f, NEW kind, NEW n \in Nat
  PROVE  /\ CountOf(f, kind, n) \in Nat
         /\ IsFiniteSet({i \in 1 .. n : f[i].kind = kind})
         /\ n = 0 => CountOf(f, kind, n) = 0
<1>1. PICK S : S = {i \in 1 .. n : f[i].kind = kind}
  OBVIOUS
<1>2. IsFiniteSet(1 .. n) /\ S \in SUBSET (1 .. n)
  BY <1>1, FS_Interval
<1>3. IsFiniteSet(S)
  BY <1>2, FS_Subset
<1>4. n = 0 => S = {}
  BY <1>1
<1> QED
  BY <1>1, <1>3, <1>4, FS_CardinalityType, FS_EmptySet DEF CountOf

LEMMA CountStep ==
  ASSUME NEW f, NEW kind, NEW n \in Nat \ {0}
  PROVE  CountOf(f, kind, n) = CountOf(f, kind, n - 1) + IF f[n].kind = kind THEN 1 ELSE 0
<1>1. PICK S, T : S = {i \in 1 .. n - 1 : f[i].kind = kind} /\ T = {i \in 1 .. n : f[i].kind = kind}
  OBVIOUS
<1>2. n - 1 \in Nat
  OBVIOUS
<1>3. IsFiniteSet(S) /\ Cardinality(S) \in Nat
  BY <1>1, <1>2, CountType, FS_CardinalityType
<1>4. n \notin S
  BY <1>1
<1>5. CASE f[n].kind = kind
  <2>1. T = S \cup {n}
    BY <1>1, <1>5
  <2>2. Cardinality(T) = Cardinality(S) + 1
    BY <1>3, <1>4, <2>1, FS_AddElement
  <2> QED
    BY <1>1, <1>5, <2>2 DEF CountOf
<1>6. CASE f[n].kind # kind
  <2>1. T = S
    BY <1>1, <1>6
  <2>2. Cardinality(T) = Cardinality(S) + 0
    BY <1>3, <2>1
  <2> QED
    BY <1>1, <1>6, <2>2 DEF CountOf
<1> QED
  BY <1>5, <1>6

LEMMA CountUp ==
  ASSUME NEW f, NEW kind, NEW n \in Nat, NEW m \in 0 .. n
  PROVE  CountOf(f, kind, m) <= CountOf(f, kind, n)
<1>1. PICK S, T : S = {i \in 1 .. m : f[i].kind = kind} /\ T = {i \in 1 .. n : f[i].kind = kind}
  OBVIOUS
<1>2. S \in SUBSET T
  BY <1>1
<1>3. IsFiniteSet(T)
  BY <1>1, CountType
<1>4. Cardinality(S) <= Cardinality(T)
  BY <1>2, <1>3, FS_Subset
<1> QED
  BY <1>1, <1>4 DEF CountOf

(* The loop of a body is one of those in progress.                         *)
LEMMA LoopIs ==
  ASSUME NEW f, NEW n \in Nat, NEW i \in 1 .. n
  PROVE  /\ LoopOf(f, i) \in 0 .. LoopOf(f, n)
         /\ f[i].kind = "body" => LoopOf(f, i) \in 1 .. LoopOf(f, n)
<1>1. i \in Nat \ {0} /\ i - 1 \in Nat /\ i \in 0 .. n
  OBVIOUS
<1>2. LoopOf(f, i) \in Nat /\ LoopOf(f, i - 1) \in Nat /\ LoopOf(f, n) \in Nat
  BY <1>1, CountType DEF LoopOf
<1>3. LoopOf(f, i) <= LoopOf(f, n)
  BY <1>1, CountUp DEF LoopOf
<1>4. f[i].kind = "body" => LoopOf(f, i) = LoopOf(f, i - 1) + 1
  BY <1>1, CountStep DEF LoopOf
<1> QED
  BY <1>2, <1>3, <1>4
-----------------------------------------------------------------------------
(* The holes of a function: the jumps its statements in progress wait to   *)
(* patch.                                                                  *)

Loops == [breaks : SUBSET Nat, skips : SUBSET Nat]
Branches == {"then", "else", "body"}
HolesOf(f, lps, i) ==
  (IF f[i].kind \in Branches THEN {f[i].at} ELSE {})
  \cup (IF f[i].kind = "body" THEN lps[LoopOf(f, i)].breaks \cup lps[LoopOf(f, i)].skips ELSE {})
HolesAt(f, lps, level, n) == UNION {HolesOf(f, lps, i) : i \in {j \in 1 .. n : Level(f, j) = level}}
StartsAt(f, level, n) == {f[i].start : i \in {j \in 1 .. n : f[j].kind = "body" /\ Level(f, j) = level}}

(* Two stacks of statements, and of loops, that agree up to n.             *)
Agree(f, lps, g, mps, n) ==
  /\ \A i \in 1 .. n : g[i].kind = f[i].kind /\ g[i].at = f[i].at /\ g[i].start = f[i].start
  /\ \A j \in 1 .. LoopOf(f, n) : mps[j] = lps[j]

LEMMA CountAgrees ==
  ASSUME NEW f, NEW g, NEW kind, NEW n \in Nat, \A i \in 1 .. n : g[i].kind = f[i].kind
  PROVE  CountOf(g, kind, n) = CountOf(f, kind, n)
<1>1. {i \in 1 .. n : g[i].kind = kind} = {i \in 1 .. n : f[i].kind = kind}
  OBVIOUS
<1> QED
  BY <1>1 DEF CountOf

LEMMA Agreement ==
  ASSUME NEW f, NEW lps, NEW g, NEW mps, NEW n \in Nat, Agree(f, lps, g, mps, n)
  PROVE  /\ Level(g, n) = Level(f, n) /\ LoopOf(g, n) = LoopOf(f, n)
         /\ \A level : /\ HolesAt(g, mps, level, n) = HolesAt(f, lps, level, n)
                       /\ StartsAt(g, level, n) = StartsAt(f, level, n)
<1>1. ASSUME NEW i \in 1 .. n
      PROVE  /\ Level(g, i) = Level(f, i) /\ HolesOf(g, mps, i) = HolesOf(f, lps, i)
             /\ g[i].kind = f[i].kind /\ g[i].start = f[i].start
  <2>1. i \in Nat /\ \A j \in 1 .. i : j \in 1 .. n
    OBVIOUS
  <2>2. \A j \in 1 .. i : g[j].kind = f[j].kind
    BY <2>1 DEF Agree
  <2>3. Level(g, i) = Level(f, i) /\ LoopOf(g, i) = LoopOf(f, i)
    BY <2>1, <2>2, CountAgrees DEF Level, LoopOf
  <2>4. g[i].kind = f[i].kind /\ g[i].at = f[i].at /\ g[i].start = f[i].start
    BY DEF Agree
  <2>5. f[i].kind = "body" => mps[LoopOf(f, i)] = lps[LoopOf(f, i)]
    BY LoopIs DEF Agree
  <2> QED
    BY <2>3, <2>4, <2>5 DEF HolesOf
<1>2. \A i \in 1 .. n : g[i].kind = f[i].kind
  BY DEF Agree
<1>3. Level(g, n) = Level(f, n) /\ LoopOf(g, n) = LoopOf(f, n)
  BY <1>2, CountAgrees DEF Level, LoopOf
<1>4. ASSUME NEW level
      PROVE  HolesAt(g, mps, level, n) = HolesAt(f, lps, level, n)
  <2>1. {j \in 1 .. n : Level(g, j) = level} = {j \in 1 .. n : Level(f, j) = level}
    BY <1>1
  <2> QED
    BY <1>1, <2>1 DEF HolesAt
<1>5. ASSUME NEW level
      PROVE  StartsAt(g, level, n) = StartsAt(f, level, n)
  <2>1. {j \in 1 .. n : g[j].kind = "body" /\ Level(g, j) = level}
          = {j \in 1 .. n : f[j].kind = "body" /\ Level(f, j) = level}
    BY <1>1
  <2> QED
    BY <1>1, <2>1 DEF StartsAt
<1> QED
  BY <1>3, <1>4, <1>5

(* The part of the innermost statement.                                    *)
LEMMA LastPart ==
  ASSUME NEW f, NEW lps, NEW level, NEW n \in Nat \ {0}
  PROVE  /\ HolesAt(f, lps, level, n)
              = HolesAt(f, lps, level, n - 1)
                  \cup IF Level(f, n) = level THEN HolesOf(f, lps, n) ELSE {}
         /\ StartsAt(f, level, n)
              = StartsAt(f, level, n - 1)
                  \cup IF Level(f, n) = level /\ f[n].kind = "body" THEN {f[n].start} ELSE {}
<1>1. 1 .. n = (1 .. n - 1) \cup {n}
  OBVIOUS
<1>2. HolesAt(f, lps, level, n)
        = HolesAt(f, lps, level, n - 1) \cup IF Level(f, n) = level THEN HolesOf(f, lps, n) ELSE {}
  BY <1>1 DEF HolesAt
<1>3. StartsAt(f, level, n)
        = StartsAt(f, level, n - 1)
            \cup IF Level(f, n) = level /\ f[n].kind = "body" THEN {f[n].start} ELSE {}
  BY <1>1 DEF StartsAt
<1> QED
  BY <1>2, <1>3

(* A function that is not being compiled yet has no holes.                 *)
LEMMA NoPart ==
  ASSUME NEW f, NEW lps, NEW n \in Nat, NEW level \in Nat, level > Level(f, n)
  PROVE  HolesAt(f, lps, level, n) = {} /\ StartsAt(f, level, n) = {}
<1>1. \A j \in 1 .. n : Level(f, j) <= Level(f, n)
  BY CountUp DEF Level
<1>2. \A j \in 1 .. n : Level(f, j) # level
  <2>1. Level(f, n) \in Nat
    BY CountType DEF Level
  <2>2. ASSUME NEW j \in 1 .. n
        PROVE  Level(f, j) \in Nat
    <3>1. j \in Nat
      OBVIOUS
    <3> QED
      BY <3>1, CountType DEF Level
  <2> QED
    BY <1>1, <2>1, <2>2
<1> QED
  BY <1>2 DEF HolesAt, StartsAt

LEMMA HolesType ==
  ASSUME NEW f \in Seq(Frames), NEW lps \in Seq(Loops), NEW n \in 0 .. Len(f),
         LoopOf(f, n) <= Len(lps), NEW level
  PROVE  HolesAt(f, lps, level, n) \in SUBSET Nat
<1>1. ASSUME NEW i \in 1 .. n
      PROVE  HolesOf(f, lps, i) \subseteq Nat
  <2>1. f[i] \in Frames
    <3>1. i \in 1 .. Len(f)
      OBVIOUS
    <3> QED
      BY <3>1
  <2>2. f[i].at \in Nat
    BY <2>1 DEF Frames
  <2>3. ASSUME f[i].kind = "body"
        PROVE  lps[LoopOf(f, i)] \in Loops
    <3>1. n \in Nat
      OBVIOUS
    <3>2. LoopOf(f, i) \in 1 .. LoopOf(f, n)
      BY <2>3, <3>1, LoopIs
    <3>3. LoopOf(f, i) \in 1 .. Len(lps)
      <4>1. LoopOf(f, n) \in Nat
        BY <3>1, CountType DEF LoopOf
      <4>2. Len(lps) \in Nat
        OBVIOUS
      <4> QED
        BY <3>2, <4>1, <4>2
    <3> QED
      BY <3>3
  <2> QED
    BY <2>2, <2>3 DEF HolesOf, Loops
<1> QED
  BY <1>1 DEF HolesAt

-----------------------------------------------------------------------------
(* The chunks and the statements in progress.                              *)

(* There is a saved chunk for every function in progress, and a loop for   *)
(* every body.                                                             *)
Framed(encl, f) == /\ encl \in Seq(Chunks)
                   /\ f \in Seq(Frames) /\ f # <<>> /\ f[1].kind = "script"
                   /\ \A i \in 2 .. Len(f) : f[i].kind # "script"
                   /\ Len(encl) = Level(f, Len(f))
Looped(lps, f) == lps \in Seq(Loops) /\ Len(lps) = LoopOf(f, Len(f))

(* A chunk is sound but for the jumps that its statements in progress will *)
(* patch, and the loops of these begin at an instruction.                  *)
SoundAt(ch, lps, f, level) == /\ Sound(ch, HolesAt(f, lps, level, Len(f)))
                              /\ StartsAt(f, level, Len(f)) \subseteq Ops(ch)
Upper(ch, lps, f) == SoundAt(ch, lps, f, Level(f, Len(f)))
Lower(encl, lps, f) == \A level \in 0 .. Len(encl) - 1 : SoundAt(encl[level + 1], lps, f, level)

LEMMA FrameOf ==
  ASSUME NEW f \in Seq(Frames), f # <<>>
  PROVE  /\ Len(f) \in Nat \ {0} /\ f[Len(f)] \in Frames /\ DOMAIN f = 1 .. Len(f)
         /\ \A i \in 1 .. Len(f) : f[i] \in Frames
         /\ Level(f, Len(f)) \in Nat /\ LoopOf(f, Len(f)) \in Nat
<1>1. Len(f) \in Nat \ {0} /\ DOMAIN f = 1 .. Len(f) /\ \A i \in 1 .. Len(f) : f[i] \in Frames
  OBVIOUS
<1>2. Len(f) \in 1 .. Len(f) /\ Len(f) \in Nat
  BY <1>1
<1>3. Level(f, Len(f)) \in Nat /\ LoopOf(f, Len(f)) \in Nat
  BY <1>2, CountType DEF Level, LoopOf
<1> QED
  BY <1>1, <1>2, <1>3

(* Statements in progress that differ in what was compiled in them.        *)
Alike(f, g) ==
  /\ f \in Seq(Frames) /\ f # <<>> /\ g \in Seq(Frames) /\ Len(g) = Len(f)
  /\ \A i \in 1 .. Len(f) : g[i].kind = f[i].kind /\ g[i].at = f[i].at /\ g[i].start = f[i].start

LEMMA AlikeKeeps ==
  ASSUME NEW f, NEW g, Alike(f, g), NEW ch, NEW encl, NEW lps
  PROVE  /\ Framed(encl, f) => Framed(encl, g)
         /\ Looped(lps, f) => Looped(lps, g)
         /\ Upper(ch, lps, f) => Upper(ch, lps, g)
         /\ Lower(encl, lps, f) => Lower(encl, lps, g)
<1>1. PICK n : n = Len(f)
  OBVIOUS
<1>2. /\ n \in Nat \ {0} /\ Len(g) = n /\ f \in Seq(Frames) /\ g \in Seq(Frames) /\ g # <<>>
      /\ f # <<>>
  <2>1. f \in Seq(Frames) /\ f # <<>> /\ g \in Seq(Frames) /\ Len(g) = n
    BY <1>1 DEF Alike
  <2>2. n \in Nat \ {0}
    BY <1>1, <2>1, FrameOf
  <2> QED
    BY <2>1, <2>2
<1>3. Agree(f, lps, g, lps, n)
  BY <1>1 DEF Alike, Agree
<1>4. Level(g, n) = Level(f, n) /\ LoopOf(g, n) = LoopOf(f, n)
  BY <1>2, <1>3, Agreement
<1>5. ASSUME NEW level
      PROVE  /\ HolesAt(g, lps, level, n) = HolesAt(f, lps, level, n)
             /\ StartsAt(g, level, n) = StartsAt(f, level, n)
  BY <1>2, <1>3, Agreement
<1>6. Framed(encl, f) => Framed(encl, g)
  <2>1. g[1].kind = f[1].kind /\ \A i \in 2 .. n : g[i].kind = f[i].kind
    BY <1>1, <1>2 DEF Alike
  <2> QED
    BY <1>1, <1>2, <1>4, <2>1 DEF Framed
<1>7. Looped(lps, f) => Looped(lps, g)
  BY <1>1, <1>2, <1>4 DEF Looped
<1>8. ASSUME NEW c, NEW level
      PROVE  SoundAt(c, lps, g, level) <=> SoundAt(c, lps, f, level)
  BY <1>1, <1>2, <1>5 DEF SoundAt
<1>9. Upper(ch, lps, f) => Upper(ch, lps, g)
  BY <1>1, <1>2, <1>4, <1>8 DEF Upper
<1>10. Lower(encl, lps, f) => Lower(encl, lps, g)
  BY <1>8 DEF Lower
<1> QED
  BY <1>6, <1>7, <1>9, <1>10

(* g has one statement in progress more than f.                            *)
Grows(f, lps, g, mps) ==
  /\ f \in Seq(Frames) /\ f # <<>> /\ g \in Seq(Frames) /\ Len(g) = Len(f) + 1
  /\ Agree(f, lps, g, mps, Len(f))

Grown(f, lps, g, mps, kind) ==
  /\ Level(g, Len(g)) = Level(f, Len(f)) + (IF kind = "fn" THEN 1 ELSE 0)
  /\ LoopOf(g, Len(g)) = LoopOf(f, Len(f)) + (IF kind = "body" THEN 1 ELSE 0)
  /\ \A level :
       /\ HolesAt(g, mps, level, Len(g))
            = HolesAt(f, lps, level, Len(f))
                \cup IF Level(g, Len(g)) = level THEN HolesOf(g, mps, Len(g)) ELSE {}
       /\ StartsAt(g, level, Len(g))
            = StartsAt(f, level, Len(f))
                \cup IF Level(g, Len(g)) = level /\ kind = "body" THEN {g[Len(g)].start} ELSE {}

LEMMA GrownIs ==
  ASSUME NEW f, NEW lps, NEW g, NEW mps, Grows(f, lps, g, mps)
  PROVE  Grown(f, lps, g, mps, g[Len(g)].kind)
<1>1. PICK n, k, kind : n = Len(f) /\ k = Len(g) /\ kind = g[Len(g)].kind
  OBVIOUS
<1>2. n \in Nat \ {0} /\ n \in Nat /\ k = n + 1
  <2>1. f \in Seq(Frames) /\ f # <<>>
    BY DEF Grows
  <2> QED
    BY <1>1, <2>1, FrameOf DEF Grows
<1>3. k \in Nat \ {0} /\ k - 1 = n
  BY <1>2
<1>4. Agree(f, lps, g, mps, n)
  BY <1>1 DEF Grows
<1>5. Level(g, n) = Level(f, n) /\ LoopOf(g, n) = LoopOf(f, n)
  BY <1>2, <1>4, Agreement
<1>6. Level(g, k) = Level(f, n) + IF kind = "fn" THEN 1 ELSE 0
  <2>1. Level(g, k) = Level(g, k - 1) + IF g[k].kind = "fn" THEN 1 ELSE 0
    BY <1>3, CountStep DEF Level
  <2> QED
    BY <1>1, <1>3, <1>5, <2>1
<1>7. LoopOf(g, k) = LoopOf(f, n) + IF kind = "body" THEN 1 ELSE 0
  <2>1. LoopOf(g, k) = LoopOf(g, k - 1) + IF g[k].kind = "body" THEN 1 ELSE 0
    BY <1>3, CountStep DEF LoopOf
  <2> QED
    BY <1>1, <1>3, <1>5, <2>1
<1>8. ASSUME NEW level
      PROVE  /\ HolesAt(g, mps, level, k)
                  = HolesAt(f, lps, level, n)
                      \cup IF Level(g, k) = level THEN HolesOf(g, mps, k) ELSE {}
             /\ StartsAt(g, level, k)
                  = StartsAt(f, level, n)
                      \cup IF Level(g, k) = level /\ kind = "body" THEN {g[k].start} ELSE {}
  <2>1. HolesAt(g, mps, level, n) = HolesAt(f, lps, level, n)
        /\ StartsAt(g, level, n) = StartsAt(f, level, n)
    BY <1>2, <1>4, Agreement
  <2>2. HolesAt(g, mps, level, k)
          = HolesAt(g, mps, level, k - 1) \cup IF Level(g, k) = level THEN HolesOf(g, mps, k) ELSE {}
    BY <1>3, LastPart
  <2>3. StartsAt(g, level, k)
          = StartsAt(g, level, k - 1)
              \cup IF Level(g, k) = level /\ g[k].kind = "body" THEN {g[k].start} ELSE {}
    BY <1>3, LastPart
  <2> QED
    BY <1>1, <1>3, <2>1, <2>2, <2>3
<1> QED
  BY <1>1, <1>6, <1>7, <1>8 DEF Grown

SameLoops(lps, mps, n) == \A j \in 1 .. n : mps[j] = lps[j]

IsPushed(f, lps, g, mps, frame) ==
  /\ Grows(f, lps, g, mps) /\ g[Len(g)] = frame
  /\ g \in Seq(Frames) /\ g # <<>> /\ g[1] = f[1]

LEMMA Pushed ==
  ASSUME NEW f \in Seq(Frames), f # <<>>, NEW frame \in Frames, NEW lps, NEW mps,
         SameLoops(lps, mps, LoopOf(f, Len(f))),
         NEW g, g = Append(f, frame)
  PROVE  IsPushed(f, lps, g, mps, frame)
<1>1. /\ g \in Seq(Frames) /\ g # <<>> /\ Len(g) = Len(f) + 1
      /\ \A i \in 1 .. Len(f) : g[i] = f[i]
      /\ g[Len(f) + 1] = frame
  BY AppendProperties
<1>2. 1 \in 1 .. Len(f)
  BY FrameOf
<1> QED
  BY <1>1, <1>2 DEF Grows, Agree, SameLoops, IsPushed

IsPopped(f, lps, g, mps) ==
  Grows(g, mps, f, lps) /\ g \in Seq(Frames) /\ g # <<>> /\ g[1] = f[1]

LEMMA PoppedFrame ==
  ASSUME NEW f \in Seq(Frames), f # <<>>, f[1].kind = "script", f[Len(f)].kind # "script",
         NEW lps, NEW mps, SameLoops(lps, mps, LoopOf(f, Len(f) - 1)),
         NEW g, g = Front(f)
  PROVE  IsPopped(f, lps, g, mps)
<1>1. PICK n, m : n = Len(f) /\ m = n - 1
  OBVIOUS
<1>2. n \in Nat \ {0} /\ n # 1
  BY <1>1, FrameOf
<1>3. m \in Nat \ {0} /\ m \in 0 .. n /\ n = m + 1
  BY <1>1, <1>2
<1>4. g = SubSeq(f, 1, m)
  BY <1>1 DEF Front
<1>5. g \in Seq(Frames) /\ Len(g) = m /\ \A i \in 1 .. m : g[i] = f[i]
  BY <1>1, <1>3, <1>4, Shorter
<1>6. 1 \in 1 .. m
  BY <1>3
<1>7. g # <<>> /\ g[1] = f[1]
  BY <1>3, <1>5, <1>6
<1>8. Agree(g, mps, f, lps, m)
  <2>1. LoopOf(g, m) = LoopOf(f, m)
    <3>1. \A i \in 1 .. m : f[i].kind = g[i].kind
      BY <1>5
    <3>2. m \in Nat
      BY <1>3
    <3> QED
      BY <3>1, <3>2, CountAgrees DEF LoopOf
  <2>2. \A j \in 1 .. LoopOf(f, m) : lps[j] = mps[j]
    BY <1>1 DEF SameLoops
  <2> QED
    BY <1>5, <2>1, <2>2 DEF Agree
<1> QED
  BY <1>1, <1>3, <1>5, <1>7, <1>8 DEF Grows, IsPopped

(* A statement of the same function leaves the saved chunks alone.         *)
LEMMA LowerSame ==
  ASSUME NEW f, NEW lps, NEW g, NEW mps, Grows(f, lps, g, mps), g[Len(g)].kind # "fn",
         NEW encl \in Seq(Chunks), Len(encl) = Level(f, Len(f))
  PROVE  /\ Len(encl) = Level(g, Len(g))
         /\ Lower(encl, lps, f) <=> Lower(encl, mps, g)
<1>1. Grown(f, lps, g, mps, g[Len(g)].kind)
  BY GrownIs
<1>2. Len(encl) \in Nat
  OBVIOUS
<1>3. Level(g, Len(g)) = Len(encl)
  BY <1>1, <1>2 DEF Grown
<1>4. ASSUME NEW level \in 0 .. Len(encl) - 1, NEW c
      PROVE  SoundAt(c, lps, f, level) <=> SoundAt(c, mps, g, level)
  <2>1. Level(g, Len(g)) # level
    BY <1>2, <1>3
  <2>2. HolesAt(g, mps, level, Len(g)) = HolesAt(f, lps, level, Len(f))
        /\ StartsAt(g, level, Len(g)) = StartsAt(f, level, Len(f))
    BY <1>1, <2>1 DEF Grown
  <2> QED
    BY <2>2 DEF SoundAt
<1>5. Lower(encl, lps, f) <=> Lower(encl, mps, g)
  BY <1>4 DEF Lower
<1> QED
  BY <1>3, <1>5

(* What the innermost statement adds to the function that is compiled.     *)
StartOf(frame) == IF frame.kind = "body" THEN {frame.start} ELSE {}
AddsPart(f, lps, g, mps) ==
  /\ Level(g, Len(g)) = Level(f, Len(f))
  /\ HolesAt(g, mps, Level(g, Len(g)), Len(g))
       = HolesAt(f, lps, Level(f, Len(f)), Len(f)) \cup HolesOf(g, mps, Len(g))
  /\ StartsAt(g, Level(g, Len(g)), Len(g))
       = StartsAt(f, Level(f, Len(f)), Len(f)) \cup StartOf(g[Len(g)])

LEMMA UpperSame ==
  ASSUME NEW f, NEW lps, NEW g, NEW mps, Grows(f, lps, g, mps), g[Len(g)].kind # "fn"
  PROVE  AddsPart(f, lps, g, mps)
<1>1. Grown(f, lps, g, mps, g[Len(g)].kind)
  BY GrownIs
<1>2. f \in Seq(Frames) /\ f # <<>>
  BY DEF Grows
<1>3. Level(f, Len(f)) \in Nat
  BY <1>2, FrameOf
<1>4. Level(g, Len(g)) = Level(f, Len(f))
  BY <1>1, <1>3 DEF Grown
<1> QED
  BY <1>1, <1>4 DEF Grown, AddsPart, StartOf

(* The body of a function begins or ends.                                  *)
FunctionPart(f, lps, g, mps, encl, ch, more) ==
  /\ more \in Seq(Chunks) /\ Len(more) = Level(g, Len(g))
  /\ HolesAt(g, mps, Level(g, Len(g)), Len(g)) = {}
  /\ StartsAt(g, Level(g, Len(g)), Len(g)) = {}
  /\ Lower(encl, lps, f) /\ Upper(ch, lps, f) <=> Lower(more, mps, g)

LEMMA FunctionGrows ==
  ASSUME NEW f, NEW lps, NEW g, NEW mps, Grows(f, lps, g, mps), g[Len(g)].kind = "fn",
         NEW encl \in Seq(Chunks), Len(encl) = Level(f, Len(f)), NEW ch \in Chunks,
         NEW more, more = Append(encl, ch)
  PROVE  FunctionPart(f, lps, g, mps, encl, ch, more)
<1>1. Grown(f, lps, g, mps, "fn")
  BY GrownIs
<1>2. PICK n, level : n = Len(f) /\ level = Len(encl)
  OBVIOUS
<1>3. n \in Nat \ {0} /\ n \in Nat /\ level \in Nat /\ level = Level(f, n)
  <2>1. f \in Seq(Frames) /\ f # <<>>
    BY DEF Grows
  <2> QED
    BY <1>2, <2>1, FrameOf
<1>4. Level(g, Len(g)) = level + 1
  BY <1>1, <1>2 DEF Grown
<1>5. /\ more \in Seq(Chunks) /\ Len(more) = level + 1
      /\ \A i \in 1 .. level : more[i] = encl[i]
      /\ more[level + 1] = ch
  BY <1>2, AppendProperties
<1>6. HolesAt(f, lps, level + 1, n) = {} /\ StartsAt(f, level + 1, n) = {}
  <2>1. level + 1 \in Nat /\ level + 1 > Level(f, n)
    BY <1>3
  <2> QED
    BY <1>3, <2>1, NoPart
<1>7. HolesOf(g, mps, Len(g)) = {}
  BY DEF HolesOf, Branches
<1>8. /\ HolesAt(g, mps, level + 1, Len(g)) = {}
      /\ StartsAt(g, level + 1, Len(g)) = {}
  BY <1>1, <1>2, <1>6, <1>7 DEF Grown
<1>9. ASSUME NEW i \in 0 .. level, NEW c
      PROVE  SoundAt(c, lps, f, i) <=> SoundAt(c, mps, g, i)
  <2>1. Level(g, Len(g)) # i
    BY <1>3, <1>4
  <2>2. HolesAt(g, mps, i, Len(g)) = HolesAt(f, lps, i, Len(f))
        /\ StartsAt(g, i, Len(g)) = StartsAt(f, i, Len(f))
    BY <1>1, <2>1 DEF Grown
  <2> QED
    BY <2>2 DEF SoundAt
<1>10. ASSUME Lower(encl, lps, f), Upper(ch, lps, f)
       PROVE  Lower(more, mps, g)
  <2>1. ASSUME NEW i \in 0 .. Len(more) - 1
        PROVE  SoundAt(more[i + 1], mps, g, i)
    <3>1. i \in 0 .. level
      BY <1>3, <1>5
    <3>2. CASE i = level
      <4>1. SoundAt(ch, lps, f, level)
        BY <1>2, <1>3, <1>10 DEF Upper
      <4> QED
        BY <1>5, <1>9, <3>1, <3>2, <4>1
    <3>3. CASE i # level
      <4>1. i \in 0 .. Len(encl) - 1 /\ i + 1 \in 1 .. level
        BY <1>2, <1>3, <3>1, <3>3
      <4>2. SoundAt(encl[i + 1], lps, f, i)
        BY <1>10, <4>1 DEF Lower
      <4> QED
        BY <1>5, <1>9, <3>1, <4>1, <4>2
    <3> QED
      BY <3>2, <3>3
  <2> QED
    BY <2>1 DEF Lower
<1>11. ASSUME Lower(more, mps, g)
       PROVE  Lower(encl, lps, f) /\ Upper(ch, lps, f)
  <2>1. ASSUME NEW i \in 0 .. level
        PROVE  SoundAt(more[i + 1], lps, f, i)
    <3>1. i \in 0 .. Len(more) - 1
      BY <1>3, <1>5
    <3> QED
      BY <1>9, <1>11, <3>1 DEF Lower
  <2>2. level \in 0 .. level
    BY <1>3
  <2>3. Upper(ch, lps, f)
    BY <1>2, <1>3, <1>5, <2>1, <2>2 DEF Upper
  <2>4. ASSUME NEW i \in 0 .. Len(encl) - 1
        PROVE  SoundAt(encl[i + 1], lps, f, i)
    <3>1. i \in 0 .. level /\ i + 1 \in 1 .. level
      BY <1>2, <1>3
    <3> QED
      BY <1>5, <2>1, <3>1
  <2> QED
    BY <2>3, <2>4 DEF Lower
<1> QED
  BY <1>4, <1>5, <1>8, <1>10, <1>11 DEF FunctionPart

-----------------------------------------------------------------------------
(* The invariant.                                                          *)

Programs == [kinds : SUBSET STRING, numbers : SUBSET Nat, arrays : SUBSET Nat,
             locals : Nat, depth : Nat, left : Nat]
Typed ==
  /\ chunk \in Chunks /\ functions \in Seq(Chunks) /\ loops \in Seq(Loops)
  /\ symbols \in Nat /\ phase \in {"compiling", "compiled", "failed"}
  /\ profile \in Programs
  /\ Framed(enclosing, open)
  /\ phase # "failed" => Looped(loops, open)
  /\ phase = "compiled" => Len(open) = 1

(* Every chunk is sound: those of compiled functions without holes, the    *)
(* others but for the jumps that wait, until an error ends the walk.       *)
SomehowSound(ch) == \E H \in SUBSET Nat : Sound(ch, H)
Structured ==
  /\ \A i \in DOMAIN functions : Sound(functions[i], {})
  /\ phase # "failed" => Upper(chunk, loops, open) /\ Lower(enclosing, loops, open)
  /\ phase = "failed" => /\ SomehowSound(chunk)
                         /\ \A i \in DOMAIN enclosing : SomehowSound(enclosing[i])
IInv == Typed /\ (LexicalJumps => Structured)

LEMMA UpperKept ==
  ASSUME NEW ch \in Chunks, NEW to, Builds(ch, to, {}), NEW lps, NEW f,
         f \in Seq(Frames), f # <<>>, Looped(lps, f), Upper(ch, lps, f)
  PROVE  Upper(to, lps, f)
<1>1. PICK n, level, H : n = Len(f) /\ level = Level(f, n) /\ H = HolesAt(f, lps, level, n)
  OBVIOUS
<1>2. H \in SUBSET Nat
  <2>1. n \in 0 .. Len(f) /\ LoopOf(f, n) <= Len(lps) /\ lps \in Seq(Loops)
    BY <1>1, FrameOf DEF Looped
  <2> QED
    BY <1>1, <2>1, HolesType
<1>3. Sound(ch, H) /\ StartsAt(f, level, n) \subseteq Ops(ch)
  BY <1>1 DEF Upper, SoundAt
<1>4. Sound(to, H \cup {}) /\ Kept(ch, to)
  BY <1>2, <1>3 DEF Builds
<1>5. H \cup {} = H
  OBVIOUS
<1> QED
  BY <1>1, <1>3, <1>4, <1>5 DEF Upper, SoundAt, Kept

LEMMA TopIs ==
  ASSUME Typed
  PROVE  /\ Top \in Frames /\ open \in Seq(Frames) /\ open # <<>>
         /\ Len(open) \in Nat \ {0} /\ Top = open[Len(open)]
BY FrameOf DEF Typed, Framed, Top

LEMMA ProfileNext ==
  ASSUME Typed, NEW kind, CanBegin(kind)
  PROVE  profile' \in Programs /\ phase = "compiling"
<1>1. profile.left \in Nat /\ profile.left > 0
  BY DEF Typed, Programs, CanBegin
<1>2. profile.left - 1 \in Nat
  BY <1>1
<1> QED
  BY <1>2 DEF Typed, Programs, CanBegin

Lasts == {"none", "expression", "print", "declaration", "block", "if",
          "while", "break", "skip", "return"}

LEMMA CompletedAlike ==
  ASSUME NEW f \in Seq(Frames), f # <<>>, NEW statement \in Lasts
  PROVE  Alike(f, Completed(f, statement))
<1>1. PICK n, g : n = Len(f) /\ g = Completed(f, statement)
  OBVIOUS
<1>2. n \in Nat \ {0} /\ DOMAIN f = 1 .. n /\ \A i \in 1 .. n : f[i] \in Frames
  BY <1>1, FrameOf
<1>3. PICK frame : frame = [f[n] EXCEPT !.last = statement]
  OBVIOUS
<1>4. /\ frame \in Frames
      /\ frame.kind = f[n].kind /\ frame.at = f[n].at /\ frame.start = f[n].start
  <2>1. PICK old : old = f[n]
    OBVIOUS
  <2>2. old \in Frames
    BY <1>2, <2>1
  <2>3. frame = [old EXCEPT !.last = statement]
    BY <1>3, <2>1
  <2> QED
    BY <2>1, <2>2, <2>3 DEF Frames, Lasts
<1>5. g = [f EXCEPT ![n] = frame]
  BY <1>1, <1>3 DEF Completed
<1>6. g \in Seq(Frames) /\ Len(g) = n
      /\ \A i \in 1 .. n : g[i] = IF i = n THEN frame ELSE f[i]
  BY <1>1, <1>2, <1>4, <1>5, ExceptSeq
<1> QED
  BY <1>1, <1>4, <1>6 DEF Alike

LEMMA DeclaredAlike ==
  ASSUME NEW f \in Seq(Frames), f # <<>>, symbols \in Nat
  PROVE  Alike(f, Declared(f)) /\ SymbolsAfter(f[Len(f)]) \in Nat
<1>1. PICK n, done : n = Len(f) /\ done = Completed(f, "declaration")
  OBVIOUS
<1>2. n \in Nat \ {0} /\ DOMAIN f = 1 .. n /\ \A i \in 1 .. n : f[i] \in Frames
  BY <1>1, FrameOf
<1>3. Alike(f, done)
  BY <1>1, CompletedAlike DEF Lasts
<1>4. ASSUME f[n].kind = "script"
      PROVE  Alike(f, Declared(f))
  BY <1>1, <1>3, <1>4 DEF Declared
<1>5. ASSUME f[n].kind # "script"
      PROVE  Alike(f, Declared(f))
  <2>1. done \in Seq(Frames) /\ Len(done) = n /\ \A i \in 1 .. n : done[i] \in Frames
    <3>1. done \in Seq(Frames) /\ Len(done) = n
      BY <1>1, <1>3 DEF Alike
    <3> QED
      BY <3>1
  <2>2. PICK frame : frame = [done[n] EXCEPT !.locals = Append(@, NewSymbol(f[n]))]
    OBVIOUS
  <2>3. NewSymbol(f[n]) \in Symbols
    <3>1. f[n].base \in Nat /\ Len(f[n].locals) \in Nat
      BY <1>2 DEF Frames
    <3> QED
      BY <3>1 DEF NewSymbol, Symbols
  <2>4. done[n] \in Frames
    BY <1>2, <2>1
  <2>5. Append(done[n].locals, NewSymbol(f[n])) \in Seq(Symbols)
    BY <2>3, <2>4, AppendProperties DEF Frames
  <2>6. /\ frame \in Frames /\ frame.kind = done[n].kind /\ frame.at = done[n].at
        /\ frame.start = done[n].start
    BY <2>2, <2>4, <2>5 DEF Frames
  <2>7. PICK g : g = [done EXCEPT ![n] = frame]
    OBVIOUS
  <2>8. g \in Seq(Frames) /\ Len(g) = n
        /\ \A i \in 1 .. n : g[i] = IF i = n THEN frame ELSE done[i]
    BY <1>2, <2>1, <2>6, <2>7, ExceptSeq
  <2>9. Declared(f) = g
    BY <1>1, <1>5, <2>2, <2>7 DEF Declared
  <2>10. \A i \in 1 .. n : /\ g[i].kind = done[i].kind /\ g[i].at = done[i].at
                           /\ g[i].start = done[i].start
    BY <2>6, <2>8
  <2> QED
    BY <1>1, <1>3, <2>8, <2>9, <2>10 DEF Alike
<1>6. SymbolsAfter(f[n]) \in Nat
  BY DEF SymbolsAfter
<1> QED
  BY <1>1, <1>4, <1>5, <1>6

(* The statements in progress of the function that is compiled.            *)
OwnFrom(f, own, c) ==
  /\ c \in 1 .. Len(f)
  /\ own \in Seq(Frames) /\ Len(own) = Len(f) - c + 1 /\ own # <<>>
  /\ \A j \in 1 .. Len(f) - c + 1 : own[j] = f[c + j - 1]
  /\ f[c].kind \in {"script", "fn"}
  /\ \A j \in c + 1 .. Len(f) : f[j].kind \notin {"script", "fn"}

LEMMA OwnIs ==
  ASSUME NEW f \in Seq(Frames), f # <<>>, f[1].kind = "script"
  PROVE  \E c \in 1 .. Len(f) : OwnFrom(f, OwnOf(f), c)
<1>1. PICK n, S : n = Len(f) /\ S = {i \in DOMAIN f : f[i].kind \in {"script", "fn"}}
  OBVIOUS
<1>2. n \in Nat \ {0} /\ n \in Nat /\ DOMAIN f = 1 .. n /\ \A i \in 1 .. n : f[i] \in Frames
  BY <1>1, FrameOf
<1>3. S \subseteq 0 .. n /\ 1 \in S /\ S # {}
  BY <1>1, <1>2
<1>4. PICK c : c = CHOOSE i \in S : \A j \in S : j <= i
  OBVIOUS
<1>5. c \in S /\ \A j \in S : j <= c
  <2>1. \E i \in S : \A j \in S : j <= i
    BY <1>2, <1>3, GreatestExists
  <2> QED
    BY <1>4, <2>1
<1>6. c \in 1 .. n /\ f[c].kind \in {"script", "fn"}
  BY <1>1, <1>2, <1>5
<1>7. \A j \in c + 1 .. n : f[j].kind \notin {"script", "fn"}
  <2>1. \A j \in c + 1 .. n : j \in 1 .. n /\ ~(j <= c)
    BY <1>2, <1>6
  <2> QED
    BY <1>1, <1>2, <1>5, <2>1
<1>8. PICK own : own = OwnOf(f)
  OBVIOUS
<1>9. own = SubSeq(f, c, n)
  BY <1>1, <1>4, <1>8 DEF OwnOf
<1>10. /\ own \in Seq(Frames) /\ Len(own) = n - c + 1
       /\ \A j \in 1 .. n - c + 1 : own[j] = f[c + j - 1]
  <2>1. c \in Int /\ n \in Int /\ c <= n /\ \A i \in c .. n : f[i] \in Frames
    BY <1>2, <1>6
  <2> QED
    BY <1>9, <2>1, SubSeqProperties
<1>11. own # <<>>
  BY <1>2, <1>6, <1>10
<1> QED
  BY <1>1, <1>6, <1>7, <1>8, <1>10, <1>11 DEF OwnFrom

LEMMA VisibleType ==
  ASSUME Typed
  PROVE  Visible \subseteq Symbols /\ FreeSlot \in Nat
<1>1. PICK own : own = OwnOf(open)
  OBVIOUS
<1>2. own \in Seq(Frames) /\ own # <<>> /\ own[1].kind \in {"script", "fn"}
  <2>1. PICK c \in 1 .. Len(open) : OwnFrom(open, own, c)
    BY <1>1, OwnIs DEF Typed, Framed
  <2>2. Len(open) \in Nat /\ c + 1 - 1 = c /\ 1 \in 1 .. Len(open) - c + 1
    BY TopIs
  <2> QED
    BY <2>1, <2>2 DEF OwnFrom
<1>3. DOMAIN own = 1 .. Len(own) /\ Len(own) \in Nat \ {0} /\ \A i \in 1 .. Len(own) : own[i] \in Frames
  BY <1>2, FrameOf
<1>4. Visible \subseteq Symbols
  <2>1. ASSUME NEW i \in DOMAIN own
        PROVE  ToSet(own[i].locals) \subseteq Symbols
    <3>1. own[i].locals \in Seq(Symbols)
      BY <1>3 DEF Frames
    <3> QED
      BY <3>1 DEF ToSet
  <2> QED
    BY <1>1, <2>1 DEF Visible, LocalsOf
<1>5. FreeSlot \in Nat
  <2>1. PICK S : S = {i \in DOMAIN own : own[i].kind \in Lists}
    OBVIOUS
  <2>2. 1 \in S /\ S \subseteq 0 .. Len(own) /\ S # {}
    BY <1>2, <1>3, <2>1 DEF Lists
  <2>3. PICK c : c = CHOOSE i \in S : \A j \in S : j <= i
    OBVIOUS
  <2>4. c \in S
    <3>1. \E i \in S : \A j \in S : j <= i
      BY <1>3, <2>2, GreatestExists
    <3> QED
      BY <2>3, <3>1
  <2>5. own[c] \in Frames
    BY <1>3, <2>1, <2>4
  <2>6. FreeSlot = own[c].base + own[c].size
    BY <1>1, <2>1, <2>3 DEF FreeSlot, Own
  <2> QED
    BY <2>5, <2>6 DEF Frames
<1> QED
  BY <1>4, <1>5

-----------------------------------------------------------------------------
(* The expressions of the instance.                                        *)

LEMMA WithNode ==
  ASSUME NEW v \in Seq(Nodes), NEW a \in Nodes
  PROVE  v \o <<a>> \in Seq(Nodes)
<1>1. <<a>> \in Seq(Nodes)
  OBVIOUS
<1> QED
  BY <1>1, ConcatProperties

LEMMA LiteralsType ==
  ASSUME Typed
  PROVE  /\ Literals \subseteq Seq(Nodes) /\ Optional \subseteq Seq(Nodes)
         /\ Conditions \subseteq Seq(Nodes)
<1>1. ASSUME NEW n \in profile.numbers
      PROVE  <<Literal(n)>> \in Seq(Nodes)
  <2>1. n \in Nat
    BY DEF Typed, Programs
  <2>2. Literal(n) \in Nodes
    BY <2>1, LiteralType
  <2> QED
    BY <2>2
<1>2. Literals \subseteq Seq(Nodes)
  BY <1>1 DEF Literals
<1>3. <<>> \in Seq(Nodes) /\ <<GlobalVar>> \in Seq(Nodes)
  BY NameType
<1> QED
  BY <1>2, <1>3 DEF Optional, Conditions

LEMMA EffectsType ==
  ASSUME Typed
  PROVE  Effects \subseteq Seq(Nodes) /\ Increments \subseteq Seq(Nodes)
<1>1. ASSUME NEW v \in Literals
      PROVE  v \o <<SetGlobal>> \in Seq(Nodes)
  BY LiteralsType, NameType, WithNode
<1>2. ASSUME NEW v \in Literals, NEW s \in Visible
      PROVE  v \o <<SetLocal(s)>> \in Seq(Nodes)
  BY LiteralsType, VisibleType, LocalType, WithNode
<1>3. ASSUME NEW v \in Literals
      PROVE  <<GlobalVar>> \o v \o <<Node("CALL_EXPR", 1)>> \in Seq(Nodes)
  <2>1. Node("CALL_EXPR", 1) \in Nodes
    BY DEF Node, Nodes
  <2>2. <<GlobalVar>> \in Seq(Nodes) /\ v \in Seq(Nodes)
    BY NameType, LiteralsType
  <2>3. <<GlobalVar>> \o v \in Seq(Nodes)
    BY <2>2, ConcatProperties
  <2> QED
    BY <2>1, <2>3, WithNode
<1>4. {v \o <<SetGlobal>> : v \in Literals} \subseteq Seq(Nodes)
  BY <1>1
<1>5. UNION {{v \o <<SetLocal(s)>> : v \in Literals} : s \in Visible} \subseteq Seq(Nodes)
  <2>1. ASSUME NEW s \in Visible
        PROVE  {v \o <<SetLocal(s)>> : v \in Literals} \subseteq Seq(Nodes)
    BY <1>2
  <2> QED
    BY <2>1
<1>6. {<<GlobalVar>> \o v \o <<Node("CALL_EXPR", 1)>> : v \in Literals} \subseteq Seq(Nodes)
  BY <1>3
<1>7. \A kind, S : S \subseteq Seq(Nodes) => Of(kind, S) \subseteq Seq(Nodes)
  BY DEF Of
<1>8. Effects \subseteq Seq(Nodes)
  <2> DEFINE A == {v \o <<SetGlobal>> : v \in Literals}
             B == UNION {{v \o <<SetLocal(s)>> : v \in Literals} : s \in Visible}
             C == {<<GlobalVar>> \o v \o <<Node("CALL_EXPR", 1)>> : v \in Literals}
  <2>1. Effects = Of("set global", A) \cup Of("set local", B) \cup Of("call", C)
    BY Zenon DEF Effects
  <2>2. A \subseteq Seq(Nodes) /\ B \subseteq Seq(Nodes) /\ C \subseteq Seq(Nodes)
    BY <1>4, <1>5, <1>6
  <2> HIDE DEF A, B, C
  <2> QED
    BY <1>7, <2>1, <2>2
<1>9. Increments \subseteq Seq(Nodes)
  <2>1. PICK A : A = {v \o <<SetGlobal>> : v \in Literals}
    OBVIOUS
  <2>2. Increments = {<<>>} \cup Of("for", A)
    BY <2>1 DEF Increments
  <2>3. Of("for", A) \subseteq Seq(Nodes)
    BY <1>4, <1>7, <2>1
  <2>4. <<>> \in Seq(Nodes)
    OBVIOUS
  <2> QED
    BY <2>2, <2>3, <2>4
<1> QED
  BY <1>8, <1>9

LEMMA PrintedType ==
  ASSUME Typed
  PROVE  Printed \subseteq Seq(Nodes)
<1>1. ASSUME NEW v \in Literals, NEW s \in Visible
      PROVE  v \o <<LocalVar(s), Plus>> \in Seq(Nodes)
  <2>1. Plus \in Nodes
    BY DEF Plus, Node, Nodes
  <2>2. LocalVar(s) \in Nodes /\ v \in Seq(Nodes)
    BY LiteralsType, VisibleType, LocalType
  <2>3. <<LocalVar(s), Plus>> \in Seq(Nodes)
    BY <2>1, <2>2
  <2> QED
    BY <2>2, <2>3, ConcatProperties
<1>2. UNION {{v \o <<LocalVar(s), Plus>> : v \in Literals} : s \in Visible} \subseteq Seq(Nodes)
  <2>1. ASSUME NEW s \in Visible
        PROVE  {v \o <<LocalVar(s), Plus>> : v \in Literals} \subseteq Seq(Nodes)
    BY <1>1
  <2> QED
    BY <2>1
<1>3. \A kind, S : S \subseteq Seq(Nodes) => Of(kind, S) \subseteq Seq(Nodes)
  BY DEF Of
<1>4. {ArrayOf(n) : n \in profile.arrays} \subseteq Seq(Nodes)
  <2>1. \A n \in profile.arrays : n \in Nat
    BY DEF Typed, Programs
  <2>2. \A n \in profile.arrays : ArrayOf(n) \in Seq(Nodes)
    BY <2>1, ArrayType
  <2> QED
    BY <2>2
<1> QED
  <2> DEFINE A == UNION {{v \o <<LocalVar(s), Plus>> : v \in Literals} : s \in Visible}
             B == {ArrayOf(n) : n \in profile.arrays}
  <2>1. Printed = Of("sum", A) \cup B
    BY Zenon DEF Printed
  <2>2. A \subseteq Seq(Nodes) /\ B \subseteq Seq(Nodes)
    BY <1>2, <1>4
  <2> HIDE DEF A, B
  <2> QED
    BY <1>3, <2>1, <2>2
-----------------------------------------------------------------------------
(* Every action preserves the invariant.                                   *)

LEMMA EmptySound == Sound(EmptyChunk, {})
<1>1. PICK ch : ch = EmptyChunk
  OBVIOUS
<1>2. ch \in Chunks /\ ch.code = <<>> /\ ch.constants = <<>> /\ ch.meaning = {} /\ Count(ch) = 0
  BY <1>1 DEF EmptyChunk, Chunks, Count
<1>3. Ops(ch) = {} /\ Begins(ch) = {0}
  <2>1. 0 .. 0 - 1 = {}
    OBVIOUS
  <2> QED
    BY <1>2, <2>1 DEF Ops, Begins
<1>4. Whole(ch) /\ JumpsLanded(ch, {})
  BY <1>3 DEF Whole, JumpsLanded
<1>5. IsInjective(<<>>)
  BY DEF IsInjective
<1>6. Pooled(ch)
  BY <1>2, <1>5 DEF Pooled
<1> QED
  BY <1>1, <1>2, <1>4, <1>6 DEF Sound

LEMMA InitInv == Init => IInv
<1> SUFFICES ASSUME Init PROVE IInv
  OBVIOUS
<1>1. /\ chunk = EmptyChunk /\ enclosing = <<>> /\ functions = <<>> /\ loops = <<>>
      /\ open = <<Frame("script")>> /\ symbols = 0 /\ phase = "compiling" /\ profile \in Profiles
  BY DEF Init
<1>2. chunk \in Chunks /\ chunk.code = <<>> /\ chunk.constants = <<>> /\ chunk.meaning = {}
      /\ Count(chunk) = 0
  BY <1>1 DEF EmptyChunk, Chunks, Count
<1>3. PICK frame : frame = Frame("script")
  OBVIOUS
<1>4. frame \in Frames /\ frame.kind = "script"
  BY <1>3 DEF Frame, Frames, Lists
<1>5. open \in Seq(Frames) /\ Len(open) = 1 /\ open[1] = frame /\ open # <<>>
  BY <1>1, <1>3, <1>4
<1>6. Level(open, 1) = 0 /\ LoopOf(open, 1) = 0
  <2>1. CountOf(open, "fn", 0) = 0 /\ CountOf(open, "body", 0) = 0
    BY CountType
  <2>2. CountOf(open, "fn", 1) = CountOf(open, "fn", 1 - 1) + 0
    <3>1. CountOf(open, "fn", 1) = CountOf(open, "fn", 1 - 1) + IF open[1].kind = "fn" THEN 1 ELSE 0
      BY CountStep
    <3> QED
      BY <1>4, <1>5, <3>1
  <2>3. CountOf(open, "body", 1) = CountOf(open, "body", 1 - 1) + 0
    <3>1. CountOf(open, "body", 1) = CountOf(open, "body", 1 - 1) + IF open[1].kind = "body" THEN 1 ELSE 0
      BY CountStep
    <3> QED
      BY <1>4, <1>5, <3>1
  <2>4. 1 - 1 = 0
    OBVIOUS
  <2> QED
    BY <2>1, <2>2, <2>3, <2>4 DEF Level, LoopOf
<1>7. Framed(enclosing, open) /\ Looped(loops, open)
  BY <1>1, <1>4, <1>5, <1>6 DEF Framed, Looped
<1>8. profile \in Programs
  BY <1>1, CodegenAssumption DEF Programs
<1>9. Typed
  BY <1>1, <1>2, <1>7, <1>8 DEF Typed
<1>10. Sound(chunk, {})
  BY <1>1, EmptySound
<1>11. Upper(chunk, loops, open)
  <2>1. PICK f, lps : f = open /\ lps = loops
    OBVIOUS
  <2>2. HolesOf(f, lps, 1) = {} /\ f[1].kind = "script"
    BY <1>4, <1>5, <2>1 DEF HolesOf, Branches
  <2>3. \A j \in 1 .. 1 : j = 1
    OBVIOUS
  <2>4. HolesAt(f, lps, 0, 1) = {} /\ StartsAt(f, 0, 1) = {}
    BY <2>2, <2>3 DEF HolesAt, StartsAt
  <2> QED
    BY <1>5, <1>6, <1>10, <2>1, <2>4 DEF Upper, SoundAt
<1>12. Lower(enclosing, loops, open)
  BY <1>1 DEF Lower
<1>13. Structured
  BY <1>1, <1>11, <1>12 DEF Structured
<1> QED
  BY <1>9, <1>13 DEF IInv

(* Code is emitted, and the statements in progress are those before.       *)
LEMMA PlainInv ==
  ASSUME IInv, phase = "compiling", Builds(chunk, chunk', {}), Alike(open, open'),
         UNCHANGED <<enclosing, functions, loops>>, symbols' \in Nat,
         phase' \in {"compiling", "compiled"}, phase' = "compiled" => Len(open) = 1,
         profile' \in Programs
  PROVE  IInv'
<1>1. Typed
  BY DEF IInv
<1>2. Framed(enclosing, open) /\ Looped(loops, open) /\ chunk \in Chunks
  BY <1>1 DEF Typed
<1>3. enclosing' = enclosing /\ functions' = functions /\ loops' = loops
  OBVIOUS
<1>4. Framed(enclosing', open') /\ Looped(loops', open')
  BY <1>2, <1>3, AlikeKeeps
<1>5. chunk' \in Chunks
  BY DEF Builds
<1>6. Typed'
  <2>1. Len(open') = Len(open)
    BY DEF Alike
  <2> QED
    BY <1>1, <1>3, <1>4, <1>5, <2>1 DEF Typed
<1>7. ASSUME LexicalJumps
      PROVE  Structured'
  <2>1. Structured
    BY <1>7 DEF IInv
  <2>2. Upper(chunk, loops, open) /\ Lower(enclosing, loops, open)
    BY <2>1 DEF Structured
  <2>3. Upper(chunk', loops, open)
    <3>1. open \in Seq(Frames) /\ open # <<>>
      BY <1>2 DEF Framed
    <3> QED
      BY <1>2, <2>2, <3>1, UpperKept
  <2>4. Upper(chunk', loops', open') /\ Lower(enclosing', loops', open')
    BY <1>3, <2>2, <2>3, AlikeKeeps
  <2> QED
    BY <1>3, <2>1, <2>4 DEF Structured
<1> QED
  BY <1>6, <1>7 DEF IInv

(* The script is the first statement in progress, and no other one.        *)
Scripted(f) == f[1].kind = "script" /\ \A i \in 2 .. Len(f) : f[i].kind # "script"

LEMMA GrownScript ==
  ASSUME NEW f, NEW lps, NEW g, NEW mps, Grows(f, lps, g, mps), g[Len(g)].kind # "script"
  PROVE  /\ Scripted(f) <=> Scripted(g)
         /\ f \in Seq(Frames) /\ f # <<>> /\ g \in Seq(Frames) /\ g # <<>>
<1>1. PICK n, k : n = Len(f) /\ k = Len(g)
  OBVIOUS
<1>2. f \in Seq(Frames) /\ f # <<>> /\ g \in Seq(Frames) /\ k = n + 1
  BY <1>1 DEF Grows
<1>3. n \in Nat \ {0}
  BY <1>1, <1>2, FrameOf
<1>4. \A i \in 1 .. n : g[i].kind = f[i].kind
  BY <1>1 DEF Grows, Agree
<1>5. 1 \in 1 .. n /\ 2 .. k = (2 .. n) \cup {k}
  BY <1>2, <1>3
<1>6. Scripted(f) <=> Scripted(g)
  <2>1. g[1].kind = f[1].kind /\ \A i \in 2 .. n : g[i].kind = f[i].kind
    BY <1>4, <1>5
  <2>2. g[k].kind # "script"
    BY <1>1
  <2> QED
    BY <1>1, <1>5, <2>1, <2>2 DEF Scripted
<1>7. g # <<>>
  <2>1. Len(g) # 0
    BY <1>1, <1>2, <1>3
  <2>2. Len(<<>>) = 0
    OBVIOUS
  <2> QED
    BY <2>1, <2>2
<1> QED
  BY <1>2, <1>6, <1>7

LEMMA GrownFramed ==
  ASSUME NEW f, NEW lps, NEW g, NEW mps, Grows(f, lps, g, mps),
         g[Len(g)].kind \notin {"script", "fn"}, NEW encl
  PROVE  Framed(encl, f) <=> Framed(encl, g)
<1>1. Level(g, Len(g)) = Level(f, Len(f))
  BY UpperSame DEF AddsPart
<1> QED
  BY <1>1, GrownScript DEF Framed, Scripted

LEMMA GrownLooped ==
  ASSUME NEW f, NEW lps \in Seq(Loops), NEW g, NEW mps \in Seq(Loops), Grows(f, lps, g, mps),
         Len(mps) = Len(lps) + IF g[Len(g)].kind = "body" THEN 1 ELSE 0
  PROVE  Looped(lps, f) <=> Looped(mps, g)
<1>1. Grown(f, lps, g, mps, g[Len(g)].kind)
  BY GrownIs
<1>2. PICK a, b, c, d, e : /\ a = Len(lps) /\ b = Len(mps) /\ c = LoopOf(f, Len(f))
                           /\ d = LoopOf(g, Len(g))
                           /\ e = IF g[Len(g)].kind = "body" THEN 1 ELSE 0
  OBVIOUS
<1>3. a \in Nat /\ b \in Nat /\ c \in Nat /\ d \in Nat /\ e \in Nat
  <2>1. f \in Seq(Frames) /\ f # <<>>
    BY DEF Grows
  <2>2. c \in Nat
    BY <1>2, <2>1, FrameOf
  <2>3. e \in Nat
    BY <1>2
  <2>4. d = c + e
    BY <1>1, <1>2 DEF Grown
  <2>5. a \in Nat /\ b \in Nat
    BY <1>2
  <2> QED
    BY <2>2, <2>3, <2>4, <2>5
<1>4. b = a + e /\ d = c + e
  BY <1>1, <1>2 DEF Grown
<1>5. a = c <=> b = d
  BY <1>3, <1>4
<1> QED
  BY <1>2, <1>5 DEF Looped

(* A statement begins and waits for another one: a block, a branch, a loop.*)
LEMMA PushInv ==
  ASSUME IInv, phase = "compiling", NEW frame \in Frames, frame.kind \notin {"script", "fn"},
         open' = Append(open, frame),
         loops' = IF frame.kind = "body" THEN Append(loops, [breaks |-> {}, skips |-> {}])
                  ELSE loops,
         NEW more \in SUBSET Nat, more = IF frame.kind \in Branches THEN {frame.at} ELSE {},
         Builds(chunk, chunk', more),
         frame.kind = "body" => frame.start = Count(chunk) /\ Count(chunk) < Count(chunk'),
         UNCHANGED <<enclosing, functions, symbols, phase>>, profile' \in Programs
  PROVE  IInv'
<1>1. Typed
  BY DEF IInv
<1>2. Framed(enclosing, open) /\ Looped(loops, open) /\ chunk \in Chunks /\ chunk' \in Chunks
  BY <1>1 DEF Typed, Builds
<1>3. PICK f, g, lps, mps, new : /\ f = open /\ g = open' /\ lps = loops /\ mps = loops'
                                 /\ new = [breaks |-> {}, skips |-> {}]
  OBVIOUS
<1>4. /\ f \in Seq(Frames) /\ f # <<>> /\ lps \in Seq(Loops) /\ LoopOf(f, Len(f)) = Len(lps)
      /\ Len(lps) \in Nat
  BY <1>2, <1>3 DEF Framed, Looped
<1>5. /\ mps \in Seq(Loops) /\ Len(mps) = Len(lps) + IF frame.kind = "body" THEN 1 ELSE 0
      /\ \A j \in 1 .. Len(lps) : mps[j] = lps[j]
      /\ frame.kind = "body" => mps[Len(lps) + 1] = new
  <2>1. new \in Loops
    BY <1>3 DEF Loops
  <2>2. CASE frame.kind = "body"
    <3>1. mps = Append(lps, new)
      BY <1>3, <2>2
    <3>2. /\ mps \in Seq(Loops) /\ Len(mps) = Len(lps) + 1
          /\ \A j \in 1 .. Len(lps) : mps[j] = lps[j]
          /\ mps[Len(lps) + 1] = new
      BY <1>4, <2>1, <3>1, AppendProperties
    <3> QED
      BY <2>2, <3>2
  <2>3. CASE frame.kind # "body"
    <3>1. mps = lps
      BY <1>3, <2>3
    <3> QED
      BY <1>4, <2>3, <3>1
  <2> QED
    BY <2>2, <2>3
<1>6. /\ Grows(f, lps, g, mps) /\ g[Len(g)] = frame /\ g \in Seq(Frames) /\ g # <<>>
  <2>1. SameLoops(lps, mps, LoopOf(f, Len(f)))
    BY <1>4, <1>5 DEF SameLoops
  <2>2. g = Append(f, frame)
    BY <1>3
  <2>3. f \in Seq(Frames) /\ f # <<>>
    BY <1>4
  <2>4. IsPushed(f, lps, g, mps, frame)
    BY <2>1, <2>2, <2>3, Pushed
  <2> QED
    BY <2>4 DEF IsPushed
<1>7. /\ g[Len(g)].kind = frame.kind /\ g[Len(g)].kind # "fn" /\ g[Len(g)].kind # "script"
      /\ g[Len(g)].kind \notin {"script", "fn"}
  BY <1>6
<1>8. Framed(enclosing, g)
  <2>1. Framed(enclosing, f)
    BY <1>2, <1>3
  <2> QED
    BY <1>6, <1>7, <2>1, GrownFramed
<1>9. Looped(mps, g)
  <2>1. Len(mps) = Len(lps) + IF g[Len(g)].kind = "body" THEN 1 ELSE 0
    BY <1>5, <1>7
  <2>2. Looped(lps, f)
    BY <1>2, <1>3
  <2> QED
    BY <1>4, <1>5, <1>6, <2>1, <2>2, GrownLooped
<1>10. Typed'
  BY <1>1, <1>2, <1>3, <1>5, <1>8, <1>9 DEF Typed
<1>11. HolesOf(g, mps, Len(g)) = more
  <2>1. frame.kind = "body" => LoopOf(g, Len(g)) = Len(lps) + 1
    BY <1>5, <1>7, <1>9 DEF Looped
  <2>2. frame.kind = "body" =>
          mps[LoopOf(g, Len(g))].breaks = {} /\ mps[LoopOf(g, Len(g))].skips = {}
    BY <1>3, <1>5, <2>1
  <2> QED
    BY <1>6, <2>2 DEF HolesOf
<1>12. ASSUME LexicalJumps
       PROVE  Structured'
  <2>1. Structured
    BY <1>12 DEF IInv
  <2>2. Upper(chunk, lps, f) /\ Lower(enclosing, lps, f)
    BY <1>3, <2>1 DEF Structured
  <2>3. Lower(enclosing, mps, g)
    <3>1. enclosing \in Seq(Chunks) /\ Len(enclosing) = Level(f, Len(f))
      BY <1>2, <1>3 DEF Framed
    <3> QED
      BY <1>6, <1>7, <2>2, <3>1, LowerSame
  <2>4. PICK H, S, H2, S2 : /\ H = HolesAt(f, lps, Level(f, Len(f)), Len(f))
                            /\ S = StartsAt(f, Level(f, Len(f)), Len(f))
                            /\ H2 = HolesAt(g, mps, Level(g, Len(g)), Len(g))
                            /\ S2 = StartsAt(g, Level(g, Len(g)), Len(g))
    OBVIOUS
  <2>5. H \in SUBSET Nat
    <3>1. Len(f) \in 0 .. Len(f) /\ LoopOf(f, Len(f)) <= Len(lps)
      BY <1>4, FrameOf
    <3> QED
      BY <1>4, <2>4, <3>1, HolesType
  <2>6. Sound(chunk, H) /\ S \subseteq Ops(chunk)
    BY <2>2, <2>4 DEF Upper, SoundAt
  <2>7. Sound(chunk', H \cup more) /\ Kept(chunk, chunk')
    BY <2>5, <2>6 DEF Builds
  <2>8. H2 = H \cup more /\ S2 = S \cup IF frame.kind = "body" THEN {frame.start} ELSE {}
    <3>1. AddsPart(f, lps, g, mps)
      BY <1>6, <1>7, UpperSame
    <3> QED
      BY <1>6, <1>11, <2>4, <3>1 DEF AddsPart, StartOf
  <2>9. S2 \subseteq Ops(chunk')
    <3>1. S \subseteq Ops(chunk')
      BY <2>6, <2>7 DEF Kept
    <3>2. ASSUME frame.kind = "body"
          PROVE  frame.start \in Ops(chunk')
      <4>1. frame.start \in Begins(chunk') /\ frame.start < Count(chunk')
        BY <2>7, <3>2 DEF Kept, Begins
      <4>2. Count(chunk) \in Nat /\ Count(chunk') \in Nat
        BY <1>2, ChunkType
      <4> QED
        BY <3>2, <4>1, <4>2 DEF Begins
    <3> QED
      BY <2>8, <3>1, <3>2
  <2>10. Upper(chunk', mps, g)
    BY <2>4, <2>7, <2>8, <2>9 DEF Upper, SoundAt
  <2> QED
    BY <1>3, <2>1, <2>3, <2>10 DEF Structured
<1> QED
  BY <1>10, <1>12 DEF IInv
(* The last loop is dropped with its body.                                 *)
LessLoops(f, lps, mps) ==
  /\ mps \in Seq(Loops) /\ Len(lps) = Len(mps) + IF f[Len(f)].kind = "body" THEN 1 ELSE 0
  /\ SameLoops(lps, mps, LoopOf(f, Len(f) - 1))

LEMMA PoppedLoops ==
  ASSUME NEW f \in Seq(Frames), f # <<>>, NEW lps, Looped(lps, f),
         NEW mps, mps = IF f[Len(f)].kind = "body" THEN Front(lps) ELSE lps
  PROVE  LessLoops(f, lps, mps)
<1>1. PICK n, a, c, d : /\ n = Len(f) /\ a = Len(lps) /\ c = LoopOf(f, n) /\ d = LoopOf(f, n - 1)
  OBVIOUS
<1>2. n \in Nat \ {0} /\ n - 1 \in Nat /\ n \in Nat /\ lps \in Seq(Loops) /\ a \in Nat /\ a = c
  <2>1. n \in Nat \ {0}
    BY <1>1, FrameOf
  <2>2. lps \in Seq(Loops) /\ a = c
    BY <1>1 DEF Looped
  <2>3. Len(lps) \in Nat
    BY <2>2
  <2> QED
    BY <1>1, <2>1, <2>2, <2>3
<1>3. c = d + IF f[n].kind = "body" THEN 1 ELSE 0
  BY <1>1, <1>2, CountStep DEF LoopOf
<1>4. d \in Nat
  BY <1>1, <1>2, CountType DEF LoopOf
<1>5. ASSUME f[n].kind = "body"
      PROVE  LessLoops(f, lps, mps)
  <2>1. a = d + 1 /\ d \in 0 .. a /\ a - 1 = d
    BY <1>2, <1>3, <1>4, <1>5
  <2>2. mps = SubSeq(lps, 1, d)
    BY <1>1, <1>5, <2>1 DEF Front
  <2>3. mps \in Seq(Loops) /\ Len(mps) = d /\ \A i \in 1 .. d : mps[i] = lps[i]
    <3>1. d \in 0 .. Len(lps) /\ lps \in Seq(Loops)
      BY <1>1, <1>2, <2>1
    <3> QED
      BY <2>2, <3>1, Shorter
  <2>4. Len(lps) = Len(mps) + 1
    BY <1>1, <2>1, <2>3
  <2> QED
    BY <1>1, <1>5, <2>3, <2>4 DEF LessLoops, SameLoops
<1>6. ASSUME f[n].kind # "body"
      PROVE  LessLoops(f, lps, mps)
  <2>1. mps = lps
    BY <1>1, <1>6
  <2>2. Len(lps) = Len(mps) + 0
    <3>1. a = a + 0
      BY <1>2
    <3>2. Len(mps) = Len(lps)
      BY <2>1
    <3> QED
      BY <1>1, <3>1, <3>2
  <2> QED
    BY <1>1, <1>2, <1>6, <2>1, <2>2 DEF LessLoops, SameLoops
<1> QED
  BY <1>5, <1>6

(* What the end of a statement patches.                                    *)
Patches(ch, to, holes, starts) ==
  \A H \in SUBSET Nat : Sound(ch, H \cup holes) /\ starts \subseteq Ops(ch)
                          => Sound(to, H) /\ Kept(ch, to)

(* A block, a branch or a loop ends, and the statement around it goes on.  *)
LEMMA PopInv ==
  ASSUME IInv, phase = "compiling", Top.kind \notin {"script", "fn"}, NEW statement \in Lasts,
         open' = Completed(Below, statement),
         loops' = IF Top.kind = "body" THEN Front(loops) ELSE loops,
         chunk' \in Chunks,
         LexicalJumps => Patches(chunk, chunk', HolesOf(open, loops, Len(open)), StartOf(Top)),
         UNCHANGED <<enclosing, functions, symbols, phase>>, profile' \in Programs
  PROVE  IInv'
<1>1. Typed
  BY DEF IInv
<1>2. Framed(enclosing, open) /\ Looped(loops, open) /\ chunk \in Chunks
  BY <1>1 DEF Typed
<1>3. PICK f, g, lps, mps, h :
        /\ f = open /\ g = Below /\ lps = loops /\ mps = loops' /\ h = open'
  OBVIOUS
<1>4. /\ f \in Seq(Frames) /\ f # <<>> /\ f[1].kind = "script" /\ Looped(lps, f)
      /\ Top = f[Len(f)] /\ g = Front(f)
  BY <1>2, <1>3 DEF Framed, Top, Below
<1>5. LessLoops(f, lps, mps)
  <2>1. mps = IF f[Len(f)].kind = "body" THEN Front(lps) ELSE lps
    BY <1>3, <1>4
  <2> QED
    BY <1>4, <2>1, PoppedLoops
<1>6. Grows(g, mps, f, lps) /\ g \in Seq(Frames) /\ g # <<>>
  <2>1. SameLoops(lps, mps, LoopOf(f, Len(f) - 1)) /\ f[Len(f)].kind # "script"
    BY <1>4, <1>5 DEF LessLoops
  <2>2. IsPopped(f, lps, g, mps)
    BY <1>4, <2>1, PoppedFrame
  <2> QED
    BY <2>2 DEF IsPopped
<1>7. f[Len(f)].kind \notin {"script", "fn"} /\ f[Len(f)].kind # "fn"
  BY <1>4
<1>8. Framed(enclosing, g)
  <2>1. Framed(enclosing, f)
    BY <1>2, <1>3
  <2> QED
    BY <1>6, <1>7, <2>1, GrownFramed
<1>9. Looped(mps, g)
  <2>1. Len(lps) = Len(mps) + IF f[Len(f)].kind = "body" THEN 1 ELSE 0
    BY <1>5 DEF LessLoops
  <2>2. mps \in Seq(Loops) /\ lps \in Seq(Loops)
    BY <1>4, <1>5 DEF LessLoops, Looped
  <2> QED
    BY <1>4, <1>6, <2>1, <2>2, GrownLooped
<1>10. Alike(g, h)
  BY <1>3, <1>6, CompletedAlike
<1>11. Framed(enclosing, h) /\ Looped(mps, h)
  BY <1>8, <1>9, <1>10, AlikeKeeps
<1>12. Typed'
  <2>1. mps \in Seq(Loops)
    BY <1>5 DEF LessLoops
  <2> QED
    BY <1>1, <1>3, <1>11, <2>1 DEF Typed
<1>13. ASSUME LexicalJumps
       PROVE  Structured'
  <2>1. Structured
    BY <1>13 DEF IInv
  <2>2. Upper(chunk, lps, f) /\ Lower(enclosing, lps, f)
    BY <1>3, <2>1 DEF Structured
  <2>3. Lower(enclosing, mps, g)
    <3>1. enclosing \in Seq(Chunks) /\ Len(enclosing) = Level(g, Len(g))
      BY <1>8 DEF Framed
    <3> QED
      BY <1>6, <1>7, <2>2, <3>1, LowerSame
  <2>4. PICK H, S, H2, S2, holes :
          /\ H = HolesAt(g, mps, Level(g, Len(g)), Len(g))
          /\ S = StartsAt(g, Level(g, Len(g)), Len(g))
          /\ H2 = HolesAt(f, lps, Level(f, Len(f)), Len(f))
          /\ S2 = StartsAt(f, Level(f, Len(f)), Len(f))
          /\ holes = HolesOf(f, lps, Len(f))
    OBVIOUS
  <2>5. H \in SUBSET Nat
    <3>1. Len(g) \in 0 .. Len(g) /\ LoopOf(g, Len(g)) <= Len(mps) /\ mps \in Seq(Loops)
      BY <1>6, <1>9, FrameOf DEF Looped
    <3> QED
      BY <1>6, <2>4, <3>1, HolesType
  <2>6. Sound(chunk, H2) /\ S2 \subseteq Ops(chunk)
    BY <2>2, <2>4 DEF Upper, SoundAt
  <2>7. H2 = H \cup holes /\ S2 = S \cup StartOf(f[Len(f)])
    <3>1. AddsPart(g, mps, f, lps)
      BY <1>6, <1>7, UpperSame
    <3> QED
      BY <2>4, <3>1 DEF AddsPart
  <2>8. Patches(chunk, chunk', holes, StartOf(f[Len(f)]))
    BY <1>3, <1>4, <1>13, <2>4
  <2>9. StartOf(f[Len(f)]) \subseteq Ops(chunk) /\ S \subseteq Ops(chunk)
    BY <2>6, <2>7
  <2>10. Sound(chunk', H) /\ Kept(chunk, chunk')
    BY <2>5, <2>6, <2>7, <2>8, <2>9 DEF Patches
  <2>11. S \subseteq Ops(chunk')
    BY <2>9, <2>10 DEF Kept
  <2>12. Upper(chunk', mps, g)
    BY <2>4, <2>10, <2>11 DEF Upper, SoundAt
  <2>13. Upper(chunk', mps, h) /\ Lower(enclosing, mps, h)
    BY <1>10, <2>3, <2>12, AlikeKeeps
  <2> QED
    BY <1>3, <2>1, <2>13 DEF Structured
<1> QED
  BY <1>12, <1>13 DEF IInv

(* A jump that is out of reach ends the walk.                              *)
LEMMA FailInv ==
  ASSUME IInv, phase = "compiling", phase' = "failed", loops' \in Seq(Loops),
         NEW more \in SUBSET Nat, Builds(chunk, chunk', more),
         UNCHANGED <<enclosing, functions, symbols, open>>, profile' \in Programs
  PROVE  IInv'
<1>1. Typed
  BY DEF IInv
<1>2. /\ Framed(enclosing, open) /\ Looped(loops, open) /\ chunk \in Chunks
      /\ open \in Seq(Frames) /\ open # <<>> /\ enclosing \in Seq(Chunks)
  BY <1>1 DEF Typed, Framed
<1>3. Typed'
  BY <1>1 DEF Typed, Builds
<1>4. ASSUME LexicalJumps
      PROVE  Structured'
  <2>1. Structured
    BY <1>4 DEF IInv
  <2>2. Upper(chunk, loops, open) /\ Lower(enclosing, loops, open)
    BY <2>1 DEF Structured
  <2>3. ASSUME NEW level
        PROVE  HolesAt(open, loops, level, Len(open)) \in SUBSET Nat
    <3>1. Len(open) \in 0 .. Len(open) /\ LoopOf(open, Len(open)) <= Len(loops)
          /\ loops \in Seq(Loops)
      BY <1>2, FrameOf DEF Looped
    <3> QED
      BY <1>2, <3>1, HolesType
  <2>4. SomehowSound(chunk')
    <3>1. PICK H \in SUBSET Nat : Sound(chunk, H)
      BY <2>2, <2>3 DEF Upper, SoundAt
    <3>2. Sound(chunk', H \cup more)
      BY <3>1 DEF Builds
    <3> QED
      BY <3>2 DEF SomehowSound
  <2>5. ASSUME NEW i \in DOMAIN enclosing
        PROVE  SomehowSound(enclosing[i])
    <3>1. PICK level : level = i - 1
      OBVIOUS
    <3>2. level \in 0 .. Len(enclosing) - 1 /\ level + 1 = i
      BY <1>2, <3>1
    <3>3. SoundAt(enclosing[level + 1], loops, open, level)
      BY <2>2, <3>2 DEF Lower
    <3> QED
      BY <2>3, <3>2, <3>3 DEF SomehowSound, SoundAt
  <2> QED
    BY <2>1, <2>4, <2>5 DEF Structured
<1> QED
  BY <1>3, <1>4 DEF IInv
(* An expression and an instruction without operands.                      *)
LEMMA ThenAlone ==
  ASSUME NEW ch \in Chunks, NEW e \in Seq(Nodes), NEW op \in Alone
  PROVE  Builds(ch, Emit(EmitExpr(ch, e), op, <<>>), {}) /\ EmitExpr(ch, e) \in Chunks
<1>1. Builds(ch, EmitExpr(ch, e), {})
  BY ExprSteps
<1>2. EmitExpr(ch, e) \in Chunks
  BY <1>1 DEF Builds
<1>3. Builds(EmitExpr(ch, e), Emit(EmitExpr(ch, e), op, <<>>), {})
  BY <1>2, EmitAlone
<1> QED
  BY <1>1, <1>2, <1>3, StepTrans

LEMMA ValueSteps ==
  ASSUME NEW ch \in Chunks, NEW e \in Seq(Nodes), NEW value,
         value = IF e = <<>> THEN Emit(ch, "OP_NIL", <<>>) ELSE EmitExpr(ch, e)
  PROVE  Builds(ch, value, {}) /\ value \in Chunks
<1>1. Builds(ch, value, {})
  <2>1. Builds(ch, Emit(ch, "OP_NIL", <<>>), {})
    BY EmitAlone DEF Alone
  <2>2. Builds(ch, EmitExpr(ch, e), {})
    BY ExprSteps
  <2> QED
    BY <2>1, <2>2
<1> QED
  BY <1>1 DEF Builds

LEMMA SimpleInv ==
  ASSUME IInv, phase = "compiling", Builds(chunk, chunk', {}), NEW statement \in Lasts,
         Done(statement), UNCHANGED <<enclosing, functions, loops, symbols, phase>>,
         profile' \in Programs
  PROVE  IInv'
<1>1. Typed
  BY DEF IInv
<1>2. open \in Seq(Frames) /\ open # <<>>
  BY <1>1, TopIs
<1>3. Alike(open, open')
  BY <1>2, CompletedAlike DEF Done
<1>4. /\ UNCHANGED <<enclosing, functions, loops>> /\ symbols' \in Nat
      /\ phase' \in {"compiling", "compiled"} /\ phase' # "compiled"
  BY <1>1 DEF Typed
<1> QED
  BY <1>3, <1>4, PlainInv

LEMMA ExprStmtInv ==
  ASSUME IInv, NEW e \in Effects, ExprStmt(e)
  PROVE  IInv'
<1>1. Typed /\ chunk \in Chunks
  BY DEF IInv, Typed
<1>2. e \in Seq(Nodes)
  BY <1>1, EffectsType
<1>3. Builds(chunk, chunk', {})
  BY <1>1, <1>2, ThenAlone DEF ExprStmt, Alone
<1>4. profile' \in Programs /\ phase = "compiling"
  <2>1. CanBegin("expr")
    BY DEF ExprStmt
  <2> QED
    BY <1>1, <2>1, ProfileNext
<1>5. Done("expression") /\ UNCHANGED <<enclosing, functions, loops, symbols, phase>>
  BY DEF ExprStmt
<1> QED
  BY <1>3, <1>4, <1>5, SimpleInv DEF Lasts

LEMMA PrintStmtInv ==
  ASSUME IInv, NEW e \in Printed, PrintStmt(e)
  PROVE  IInv'
<1>1. Typed /\ chunk \in Chunks
  BY DEF IInv, Typed
<1>2. e \in Seq(Nodes)
  BY <1>1, PrintedType
<1>3. Builds(chunk, chunk', {})
  BY <1>1, <1>2, ThenAlone DEF PrintStmt, Alone
<1>4. profile' \in Programs /\ phase = "compiling"
  <2>1. CanBegin("print")
    BY DEF PrintStmt
  <2> QED
    BY <1>1, <2>1, ProfileNext
<1>5. Done("print") /\ UNCHANGED <<enclosing, functions, loops, symbols, phase>>
  BY DEF PrintStmt
<1> QED
  BY <1>3, <1>4, <1>5, SimpleInv DEF Lasts

LEMMA ReturnInv ==
  ASSUME IInv, NEW e \in Optional, Return(e)
  PROVE  IInv'
<1>1. Typed /\ chunk \in Chunks
  BY DEF IInv, Typed
<1>2. e \in Seq(Nodes)
  BY <1>1, LiteralsType
<1>3. Builds(chunk, chunk', {})
  <2>1. PICK value : value = IF e = <<>> THEN Emit(chunk, "OP_NIL", <<>>) ELSE EmitExpr(chunk, e)
    OBVIOUS
  <2>2. Builds(chunk, value, {}) /\ value \in Chunks
    BY <1>1, <1>2, <2>1, ValueSteps
  <2>3. chunk' = Emit(value, "OP_RETURN", <<>>)
    BY <2>1 DEF Return
  <2>4. Builds(value, chunk', {})
    BY <2>2, <2>3, EmitAlone DEF Alone
  <2> QED
    BY <1>1, <2>2, <2>4, StepTrans
<1>4. profile' \in Programs /\ phase = "compiling"
  <2>1. CanBegin("return")
    BY DEF Return
  <2> QED
    BY <1>1, <2>1, ProfileNext
<1>5. Done("return") /\ UNCHANGED <<enclosing, functions, loops, symbols, phase>>
  BY DEF Return
<1> QED
  BY <1>3, <1>4, <1>5, SimpleInv DEF Lasts

LEMMA VarDeclInv ==
  ASSUME IInv, NEW e \in Optional, VarDecl(e)
  PROVE  IInv'
<1>1. Typed /\ chunk \in Chunks /\ symbols \in Nat
  BY DEF IInv, Typed
<1>2. e \in Seq(Nodes)
  BY <1>1, LiteralsType
<1>3. Top \in Frames /\ open \in Seq(Frames) /\ open # <<>> /\ Top = open[Len(open)]
  BY <1>1, TopIs
<1>4. Builds(chunk, chunk', {})
  <2>1. PICK value : value = IF e = <<>> THEN Emit(chunk, "OP_NIL", <<>>) ELSE EmitExpr(chunk, e)
    OBVIOUS
  <2>2. Builds(chunk, value, {}) /\ value \in Chunks
    BY <1>1, <1>2, <2>1, ValueSteps
  <2>3. chunk' = EmitDeclare(value, Top)
    BY <2>1 DEF VarDecl
  <2>4. Builds(value, chunk', {})
    BY <1>1, <1>3, <2>2, <2>3, DeclareSteps
  <2> QED
    BY <1>1, <2>2, <2>4, StepTrans
<1>5. profile' \in Programs /\ phase = "compiling"
  <2>1. CanBegin("var")
    BY DEF VarDecl, CanDeclare
  <2> QED
    BY <1>1, <2>1, ProfileNext
<1>6. Alike(open, open') /\ symbols' \in Nat
  <2>1. Alike(open, Declared(open)) /\ SymbolsAfter(Top) \in Nat
    BY <1>1, <1>3, DeclaredAlike
  <2> QED
    BY <2>1 DEF VarDecl
<1>7. UNCHANGED <<enclosing, functions, loops>> /\ phase' = "compiling"
  BY <1>5 DEF VarDecl
<1> QED
  BY <1>4, <1>5, <1>6, <1>7, PlainInv

LEMMA FinishInv ==
  ASSUME IInv, Finish
  PROVE  IInv'
<1>1. Typed /\ chunk \in Chunks /\ profile \in Programs /\ symbols \in Nat
  BY DEF IInv, Typed
<1>2. phase = "compiling" /\ Top.kind = "script" /\ profile' = profile
  BY DEF Finish, CanEnd
<1>3. Builds(chunk, chunk', {})
  BY <1>1, EmitAlone DEF Finish, Alone
<1>4. Len(open) = 1
  <2>1. Len(open) \in Nat \ {0} /\ Top = open[Len(open)]
    BY <1>1, TopIs
  <2>2. PICK n : n = Len(open)
    OBVIOUS
  <2>3. \A i \in 2 .. n : open[i].kind # "script"
    BY <1>1, <2>2 DEF Typed, Framed
  <2>4. n \in Nat \ {0} /\ n \notin 2 .. n
    BY <1>2, <2>1, <2>2, <2>3
  <2> QED
    BY <2>2, <2>4
<1>5. Alike(open, open')
  <2>1. open \in Seq(Frames) /\ open # <<>> /\ open' = open
    BY <1>1, TopIs DEF Finish
  <2> QED
    BY <2>1 DEF Alike
<1>6. UNCHANGED <<enclosing, functions, loops>> /\ symbols' \in Nat /\ phase' = "compiled"
      /\ profile' \in Programs
  BY <1>1, <1>2 DEF Finish
<1> QED
  BY <1>2, <1>3, <1>4, <1>5, <1>6, PlainInv
-----------------------------------------------------------------------------
(* Blocks and branches.                                                    *)

Kinds == Lists \cup {"then", "else", "body"}

LEMMA FrameType ==
  ASSUME NEW kind \in Kinds
  PROVE  Frame(kind) \in Frames /\ Frame(kind).kind = kind
BY DEF Frame, Frames, Kinds

LEMMA BlockInv ==
  ASSUME IInv, NEW size \in Sizes, Block(size)
  PROVE  IInv'
<1>1. Typed /\ chunk \in Chunks
  BY DEF IInv, Typed
<1>2. FreeSlot \in Nat /\ size \in Nat
  <2>1. profile.locals \in Nat
    BY <1>1 DEF Typed, Programs
  <2> QED
    BY <1>1, <2>1, VisibleType DEF Sizes
<1>3. profile' \in Programs /\ phase = "compiling"
  <2>1. CanBegin("block")
    BY DEF Block, CanNest
  <2> QED
    BY <1>1, <2>1, ProfileNext
<1>4. PICK frame : frame = [Frame("block") EXCEPT !.base = FreeSlot, !.size = size]
  OBVIOUS
<1>5. frame \in Frames /\ frame.kind = "block"
  <2>1. PICK new : new = Frame("block")
    OBVIOUS
  <2>2. new \in Frames /\ new.kind = "block"
    BY <2>1, FrameType DEF Kinds, Lists
  <2> QED
    BY <1>2, <1>4, <2>1, <2>2 DEF Frames
<1>6. open' = Append(open, frame) /\ UNCHANGED <<chunk, enclosing, functions, loops, symbols, phase>>
  BY <1>4 DEF Block, Push
<1>7. Builds(chunk, chunk', {})
  BY <1>1, <1>6, StepNone
<1>8. {} \in SUBSET Nat /\ {} = IF frame.kind \in Branches THEN {frame.at} ELSE {}
  BY <1>5 DEF Branches
<1>9. loops' = IF frame.kind = "body" THEN Append(loops, [breaks |-> {}, skips |-> {}]) ELSE loops
  BY <1>5, <1>6
<1>10. frame.kind \notin {"script", "fn"} /\ frame.kind # "body"
  BY <1>5
<1> QED
  BY <1>3, <1>5, <1>6, <1>7, <1>8, <1>9, <1>10, PushInv

LEMMA StepPatches ==
  ASSUME NEW ch \in Chunks, NEW to, Builds(ch, to, {}), NEW starts
  PROVE  Patches(ch, to, {}, starts)
<1>1. \A H \in SUBSET Nat : H \cup {} = H
  OBVIOUS
<1> QED
  BY <1>1 DEF Patches, Builds

LEMMA PatchPatches ==
  ASSUME NEW ch \in Chunks, NEW P \in SUBSET Nat, Reachable(ch, P), NEW starts,
         NEW to, to = PatchJumps(ch, P)
  PROVE  Patches(ch, to, P, starts)
<1> SUFFICES ASSUME NEW H \in SUBSET Nat, Sound(ch, H \cup P)
             PROVE  Sound(to, H) /\ Kept(ch, to)
  BY DEF Patches
<1>1. \A h \in H \cup P : Hole(ch, h)
  BY DEF Sound, JumpsLanded
<1>2. PICK all : all = H \cup P
  OBVIOUS
<1>3. all \in SUBSET Nat /\ all \ P \subseteq H /\ Sound(ch, all)
  BY <1>2
<1> QED
  BY <1>1, <1>3, PatchSound

LEMMA EndBlockInv ==
  ASSUME IInv, EndBlock
  PROVE  IInv'
<1>1. Typed /\ chunk \in Chunks /\ profile \in Programs
  BY DEF IInv, Typed
<1>2. phase = "compiling" /\ Top.kind = "block" /\ profile' = profile
  BY DEF EndBlock, CanEnd
<1>3. Builds(chunk, chunk', {})
  <2>1. Top \in Frames
    BY <1>1, TopIs
  <2> QED
    BY <1>1, <2>1, PopSteps DEF EndBlock
<1>4. chunk' \in Chunks
  BY <1>3 DEF Builds
<1>5. HolesOf(open, loops, Len(open)) = {}
  <2>1. open[Len(open)].kind = "block"
    BY <1>1, <1>2, TopIs
  <2> QED
    BY <2>1 DEF HolesOf, Branches
<1>6. Patches(chunk, chunk', HolesOf(open, loops, Len(open)), StartOf(Top))
  BY <1>1, <1>3, <1>5, StepPatches
<1>7. /\ open' = Completed(Below, "block") /\ "block" \in Lasts
      /\ UNCHANGED <<enclosing, functions, symbols, phase>>
  BY DEF EndBlock, Lasts
<1>8. loops' = (IF Top.kind = "body" THEN Front(loops) ELSE loops) /\ Top.kind \notin {"script", "fn"}
  BY <1>2 DEF EndBlock
<1>9. profile' \in Programs
  BY <1>1, <1>2
<1> QED
  BY <1>2, <1>4, <1>6, <1>7, <1>8, <1>9, PopInv

LEMMA BranchSteps ==
  ASSUME NEW ch \in Chunks, NEW e \in Seq(Nodes),
         NEW jump, jump = EmitJump(EmitExpr(ch, e), "OP_JIF"),
         NEW to, to = Emit(jump, "OP_POP", <<>>)
  PROVE  /\ Builds(ch, to, {LastJump(jump)}) /\ LastJump(jump) \in Nat
         /\ Count(ch) < Count(to) /\ Count(ch) \in Nat
<1>1. PICK value, at : value = EmitExpr(ch, e) /\ at = LastJump(jump)
  OBVIOUS
<1>2. Builds(ch, value, {}) /\ value \in Chunks
  BY <1>1, ExprSteps DEF Builds
<1>3. Builds(value, jump, {at}) /\ at = Count(value) + 1 /\ at \in Nat /\ jump \in Chunks
  <2>1. jump = EmitJump(value, "OP_JIF")
    BY <1>1
  <2>2. Builds(value, jump, {LastJump(jump)}) /\ LastJump(jump) = Count(value) + 1
        /\ LastJump(jump) \in Nat
    BY <1>2, <2>1, JumpSteps
  <2> QED
    BY <1>1, <2>2 DEF Builds
<1>4. Builds(jump, to, {}) /\ to \in Chunks
  BY <1>3, EmitAlone DEF Alone, Builds
<1>5. Builds(ch, jump, {at})
  <2>1. {} \cup {at} = {at} /\ {} \in SUBSET Nat /\ {at} \in SUBSET Nat
    BY <1>3
  <2> QED
    BY <1>2, <1>3, <2>1, StepTwice
<1>6. Builds(ch, to, {at})
  <2>1. {at} \cup {} = {at} /\ {} \in SUBSET Nat /\ {at} \in SUBSET Nat
    BY <1>3
  <2> QED
    BY <1>4, <1>5, <2>1, StepTwice
<1>7. Count(ch) < Count(to) /\ Count(ch) \in Nat
  <2>1. PICK a, b, c, d : a = Count(ch) /\ b = Count(value) /\ c = Count(jump) /\ d = Count(to)
    OBVIOUS
  <2>2. a \in Nat /\ b \in Nat /\ c \in Nat /\ d \in Nat
    BY <1>2, <1>3, <1>4, <2>1, ChunkType
  <2>3. a <= b /\ c <= d
    BY <1>2, <1>4, <2>1 DEF Builds
  <2>4. c - 2 = b + 1
    BY <1>1, <1>3, <2>1 DEF LastJump
  <2> QED
    BY <2>1, <2>2, <2>3, <2>4
<1> QED
  BY <1>1, <1>3, <1>6, <1>7

LEMMA IfInv ==
  ASSUME IInv, NEW e \in Conditions, If(e)
  PROVE  IInv'
<1>1. Typed /\ chunk \in Chunks
  BY DEF IInv, Typed
<1>2. e \in Seq(Nodes)
  BY <1>1, LiteralsType
<1>3. profile' \in Programs /\ phase = "compiling"
  <2>1. CanBegin("if")
    BY DEF If, CanNest
  <2> QED
    BY <1>1, <2>1, ProfileNext
<1>4. PICK jump, at : jump = EmitJump(EmitExpr(chunk, e), "OP_JIF") /\ at = LastJump(jump)
  OBVIOUS
<1>5. PICK frame : frame = [Frame("then") EXCEPT !.at = at]
  OBVIOUS
<1>6. chunk' = Emit(jump, "OP_POP", <<>>) /\ open' = Append(open, frame)
      /\ UNCHANGED <<enclosing, functions, loops, symbols, phase>>
  BY <1>4, <1>5 DEF If, Push
<1>7. Builds(chunk, chunk', {at}) /\ at \in Nat
  BY <1>1, <1>2, <1>4, <1>6, BranchSteps
<1>8. frame \in Frames /\ frame.kind = "then" /\ frame.at = at
  <2>1. PICK new : new = Frame("then")
    OBVIOUS
  <2>2. new \in Frames /\ new.kind = "then"
    BY <2>1, FrameType DEF Kinds
  <2> QED
    BY <1>5, <1>7, <2>1, <2>2 DEF Frames
<1>9. {at} \in SUBSET Nat /\ {at} = IF frame.kind \in Branches THEN {frame.at} ELSE {}
  BY <1>7, <1>8 DEF Branches
<1>10. loops' = IF frame.kind = "body" THEN Append(loops, [breaks |-> {}, skips |-> {}]) ELSE loops
  BY <1>6, <1>8
<1>11. frame.kind \notin {"script", "fn"} /\ frame.kind # "body"
  BY <1>8
<1> QED
  BY <1>3, <1>6, <1>7, <1>8, <1>9, <1>10, <1>11, PushInv

LEMMA WhileInv ==
  ASSUME IInv, NEW e \in Conditions, While(e)
  PROVE  IInv'
<1>1. Typed /\ chunk \in Chunks
  BY DEF IInv, Typed
<1>2. e \in Seq(Nodes)
  BY <1>1, LiteralsType
<1>3. profile' \in Programs /\ phase = "compiling"
  <2>1. CanBegin("while")
    BY DEF While, CanNest
  <2> QED
    BY <1>1, <2>1, ProfileNext
<1>4. PICK jump, at, start : /\ jump = EmitJump(EmitExpr(chunk, e), "OP_JIF")
                             /\ at = LastJump(jump) /\ start = Count(chunk)
  OBVIOUS
<1>5. PICK frame : frame = [Frame("body") EXCEPT !.at = at, !.start = start]
  OBVIOUS
<1>6. chunk' = Emit(jump, "OP_POP", <<>>) /\ open' = Append(open, frame)
      /\ UNCHANGED <<enclosing, functions, symbols, phase>>
  BY <1>4, <1>5 DEF While, Push
<1>7. Builds(chunk, chunk', {at}) /\ at \in Nat /\ start \in Nat /\ start < Count(chunk')
  BY <1>1, <1>2, <1>4, <1>6, BranchSteps
<1>8. frame \in Frames /\ frame.kind = "body" /\ frame.at = at /\ frame.start = start
  <2>1. PICK new : new = Frame("body")
    OBVIOUS
  <2>2. new \in Frames /\ new.kind = "body"
    BY <2>1, FrameType DEF Kinds
  <2> QED
    BY <1>5, <1>7, <2>1, <2>2 DEF Frames
<1>9. {at} \in SUBSET Nat /\ {at} = IF frame.kind \in Branches THEN {frame.at} ELSE {}
  BY <1>7, <1>8 DEF Branches
<1>10. loops' = IF frame.kind = "body" THEN Append(loops, [breaks |-> {}, skips |-> {}]) ELSE loops
  BY <1>8 DEF While
<1>11. frame.kind \notin {"script", "fn"}
  BY <1>8
<1>12. frame.kind = "body" => frame.start = Count(chunk) /\ Count(chunk) < Count(chunk')
  BY <1>4, <1>7, <1>8
<1> QED
  BY <1>3, <1>6, <1>7, <1>8, <1>9, <1>10, <1>11, <1>12, PushInv

LEMMA EndIfInv ==
  ASSUME IInv, EndIf
  PROVE  IInv'
<1>1. Typed /\ chunk \in Chunks /\ profile \in Programs /\ loops \in Seq(Loops)
  BY DEF IInv, Typed
<1>2. phase = "compiling" /\ Top.kind \in {"then", "else"} /\ profile' = profile
      /\ UNCHANGED <<enclosing, functions, loops, symbols>>
  BY DEF EndIf, CanEnd
<1>3. profile' \in Programs /\ Top.at \in Nat /\ Top = open[Len(open)]
  BY <1>1, <1>2, TopIs DEF Frames
<1>4. ASSUME Reachable(chunk, {Top.at})
      PROVE  IInv'
  <2>1. chunk' = PatchJumps(chunk, {Top.at}) /\ open' = Completed(Below, "if") /\ phase' = phase
    BY <1>4 DEF EndIf, EmitEndIf
  <2>2. PICK P : P = {Top.at}
    OBVIOUS
  <2>3. P \in SUBSET Nat /\ Reachable(chunk, P) /\ chunk' = PatchJumps(chunk, P)
    BY <1>3, <1>4, <2>1, <2>2
  <2>4. chunk' \in Chunks
    BY <1>1, <2>3, PatchType
  <2>5. HolesOf(open, loops, Len(open)) = P
    BY <1>2, <1>3, <2>2 DEF HolesOf, Branches
  <2>6. Patches(chunk, chunk', HolesOf(open, loops, Len(open)), StartOf(Top))
    BY <1>1, <2>3, <2>5, PatchPatches
  <2>7. loops' = (IF Top.kind = "body" THEN Front(loops) ELSE loops) /\ Top.kind \notin {"script", "fn"}
    BY <1>2
  <2>8. "if" \in Lasts /\ UNCHANGED <<enclosing, functions, symbols, phase>>
    BY <1>2, <2>1 DEF Lasts
  <2> QED
    BY <1>2, <1>3, <2>1, <2>4, <2>6, <2>7, <2>8, PopInv
<1>5. ASSUME ~Reachable(chunk, {Top.at})
      PROVE  IInv'
  <2>1. phase' = "failed" /\ UNCHANGED <<chunk, open>>
    BY <1>5 DEF EndIf
  <2>2. Builds(chunk, chunk', {}) /\ {} \in SUBSET Nat
    BY <1>1, <2>1, StepNone
  <2>3. loops' \in Seq(Loops) /\ UNCHANGED <<enclosing, functions, symbols, open>>
    BY <1>1, <1>2, <2>1
  <2> QED
    BY <1>2, <1>3, <2>1, <2>2, <2>3, FailInv
<1> QED
  BY <1>4, <1>5
(* The jump over the else branch replaces the jump to it.                  *)
ElseKeeps(ch, jump, to, H) == Sound(to, H \cup {LastJump(jump)}) /\ Kept(ch, to)

LEMMA ElseSound ==
  ASSUME NEW ch \in Chunks, NEW jump, jump = EmitJump(ch, "OP_JMP"), NEW at \in Nat,
         Reachable(jump, {at}), NEW to, to = Emit(PatchJumps(jump, {at}), "OP_POP", <<>>),
         NEW H \in SUBSET Nat, Sound(ch, H \cup {at})
  PROVE  ElseKeeps(ch, jump, to, H)
<1>1. PICK P, all, rest, patched :
        /\ P = {at} /\ all = (H \cup P) \cup {LastJump(jump)} /\ rest = H \cup {LastJump(jump)}
        /\ patched = PatchJumps(jump, P)
  OBVIOUS
<1>2. Builds(ch, jump, {LastJump(jump)}) /\ LastJump(jump) \in Nat /\ jump \in Chunks
  BY JumpSteps DEF Builds
<1>3. P \in SUBSET Nat /\ all \in SUBSET Nat /\ rest \in SUBSET Nat
  BY <1>1, <1>2
<1>4. Sound(jump, all) /\ Kept(ch, jump)
  <2>1. H \cup P \in SUBSET Nat /\ Sound(ch, H \cup P)
    BY <1>1
  <2> QED
    BY <1>1, <1>2, <2>1 DEF Builds
<1>5. Sound(patched, rest) /\ Kept(jump, patched)
  <2>1. \A h \in all : Hole(jump, h)
    BY <1>4 DEF Sound, JumpsLanded
  <2>2. P \subseteq all /\ rest \subseteq all /\ all \ P \subseteq rest /\ Reachable(jump, P)
    BY <1>1
  <2> QED
    BY <1>1, <1>2, <1>3, <1>4, <2>1, <2>2, PatchSound, ZenonT(60)
<1>6. patched \in Chunks
  BY <1>5 DEF Sound
<1>7. Builds(patched, to, {})
  BY <1>1, <1>6, EmitAlone DEF Alone
<1>8. Sound(to, rest) /\ Kept(patched, to)
  <2>1. rest \cup {} = rest
    OBVIOUS
  <2> QED
    BY <1>3, <1>5, <1>7, <2>1 DEF Builds
<1>9. Kept(ch, to)
  BY <1>4, <1>5, <1>8 DEF Kept
<1> QED
  BY <1>1, <1>8, <1>9 DEF ElseKeeps

LEMMA ElseGoes ==
  ASSUME IInv, Else, NEW jump, jump = EmitJump(chunk, "OP_JMP"), Reachable(jump, {Top.at})
  PROVE  IInv'
<1>1. Typed /\ chunk \in Chunks /\ profile \in Programs
  BY DEF IInv, Typed
<1>2. phase = "compiling" /\ Top.kind = "then" /\ profile' = profile
      /\ UNCHANGED <<enclosing, functions, loops, symbols>>
  BY DEF Else, CanEnd
<1>3. PICK at : at = LastJump(jump)
  OBVIOUS
<1>4. PICK frame : frame = [Frame("else") EXCEPT !.at = at]
  OBVIOUS
<1>5. /\ chunk' = Emit(PatchJumps(jump, {Top.at}), "OP_POP", <<>>)
      /\ open' = Append(Below, frame) /\ phase' = phase
  BY <1>3, <1>4 DEF Else
<1>6. at \in Nat /\ jump \in Chunks
  BY <1>1, <1>3, JumpSteps DEF Builds
<1>7. frame \in Frames /\ frame.kind = "else" /\ frame.at = at
  <2>1. PICK new : new = Frame("else")
    OBVIOUS
  <2>2. new \in Frames /\ new.kind = "else"
    BY <2>1, FrameType DEF Kinds
  <2> QED
    BY <1>4, <1>6, <2>1, <2>2 DEF Frames
<1>8. PICK f, g, h, lps : f = open /\ g = Below /\ h = open' /\ lps = loops
  OBVIOUS
<1>9. /\ Framed(enclosing, f) /\ Looped(lps, f) /\ f \in Seq(Frames) /\ f # <<>>
      /\ Top = f[Len(f)] /\ g = Front(f) /\ f[1].kind = "script" /\ Top.at \in Nat
      /\ lps \in Seq(Loops)
  <2>1. Framed(enclosing, f) /\ Looped(lps, f)
    BY <1>1, <1>2, <1>8 DEF Typed
  <2> QED
    BY <1>1, <1>8, <2>1, TopIs DEF Framed, Looped, Below, Frames
<1>10. Grows(g, lps, f, lps) /\ g \in Seq(Frames) /\ g # <<>>
  <2>1. SameLoops(lps, lps, LoopOf(f, Len(f) - 1)) /\ f[Len(f)].kind # "script"
    BY <1>2, <1>9 DEF SameLoops
  <2>2. IsPopped(f, lps, g, lps)
    BY <1>9, <2>1, PoppedFrame
  <2> QED
    BY <2>2 DEF IsPopped
<1>11. Grows(g, lps, h, lps) /\ h[Len(h)] = frame
  <2>1. SameLoops(lps, lps, LoopOf(g, Len(g)))
    BY DEF SameLoops
  <2>2. h = Append(g, frame)
    BY <1>5, <1>8
  <2>3. IsPushed(g, lps, h, lps, frame)
    BY <1>7, <1>10, <2>1, <2>2, Pushed
  <2> QED
    BY <2>3 DEF IsPushed
<1>12. /\ f[Len(f)].kind \notin {"script", "fn"} /\ f[Len(f)].kind # "fn"
       /\ f[Len(f)].kind # "body" /\ f[Len(f)].kind = "then"
       /\ h[Len(h)].kind \notin {"script", "fn"} /\ h[Len(h)].kind # "fn"
       /\ h[Len(h)].kind # "body" /\ h[Len(h)].kind = "else"
  BY <1>2, <1>7, <1>9, <1>11
<1>13. Framed(enclosing, g) /\ Framed(enclosing, h)
  <2>1. Framed(enclosing, g)
    BY <1>9, <1>10, <1>12, GrownFramed
  <2> QED
    BY <1>11, <1>12, <2>1, GrownFramed
<1>14. Looped(lps, g) /\ Looped(lps, h)
  <2>1. Len(lps) = Len(lps) + 0
    <3>1. Len(lps) \in Nat
      BY <1>9
    <3> QED
      BY <3>1
  <2>2. /\ Len(lps) = Len(lps) + IF f[Len(f)].kind = "body" THEN 1 ELSE 0
        /\ Len(lps) = Len(lps) + IF h[Len(h)].kind = "body" THEN 1 ELSE 0
    BY <1>12, <2>1
  <2>3. Looped(lps, g)
    BY <1>9, <1>10, <2>2, GrownLooped
  <2> QED
    BY <1>9, <1>11, <2>2, <2>3, GrownLooped
<1>15. chunk' \in Chunks
  <2>1. PICK P, patched : P = {Top.at} /\ patched = PatchJumps(jump, P)
    OBVIOUS
  <2>2. P \in SUBSET Nat
    BY <1>9, <2>1
  <2>3. patched \in Chunks
    BY <1>6, <2>1, <2>2, PatchType
  <2>4. chunk' = Emit(patched, "OP_POP", <<>>)
    BY <1>5, <2>1
  <2> QED
    BY <2>3, <2>4, EmitAlone DEF Alone, Builds
<1>16. Typed'
  BY <1>1, <1>2, <1>5, <1>8, <1>13, <1>14, <1>15 DEF Typed
<1>17. ASSUME LexicalJumps
       PROVE  Structured'
  <2>1. Structured
    BY <1>17 DEF IInv
  <2>2. Upper(chunk, lps, f) /\ Lower(enclosing, lps, f)
    BY <1>2, <1>8, <2>1 DEF Structured
  <2>3. Lower(enclosing, lps, h)
    <3>1. enclosing \in Seq(Chunks) /\ Len(enclosing) = Level(g, Len(g))
      BY <1>13 DEF Framed
    <3>2. Lower(enclosing, lps, g)
      BY <1>10, <1>12, <2>2, <3>1, LowerSame
    <3> QED
      BY <1>11, <1>12, <3>1, <3>2, LowerSame
  <2>4. PICK H, S, H2, S2, H3, S3 :
          /\ H = HolesAt(g, lps, Level(g, Len(g)), Len(g))
          /\ S = StartsAt(g, Level(g, Len(g)), Len(g))
          /\ H2 = HolesAt(f, lps, Level(f, Len(f)), Len(f))
          /\ S2 = StartsAt(f, Level(f, Len(f)), Len(f))
          /\ H3 = HolesAt(h, lps, Level(h, Len(h)), Len(h))
          /\ S3 = StartsAt(h, Level(h, Len(h)), Len(h))
    OBVIOUS
  <2>5. H \in SUBSET Nat
    <3>1. Len(g) \in 0 .. Len(g) /\ LoopOf(g, Len(g)) <= Len(lps)
      BY <1>10, <1>14, FrameOf DEF Looped
    <3> QED
      BY <1>9, <1>10, <2>4, <3>1, HolesType
  <2>6. Sound(chunk, H2) /\ S2 \subseteq Ops(chunk)
    BY <2>2, <2>4 DEF Upper, SoundAt
  <2>7. H2 = H \cup {Top.at} /\ S2 = S
    <3>1. HolesOf(f, lps, Len(f)) = {Top.at}
      BY <1>9, <1>12 DEF HolesOf, Branches
    <3>2. AddsPart(g, lps, f, lps)
      BY <1>10, <1>12, UpperSame
    <3> QED
      BY <1>12, <2>4, <3>1, <3>2 DEF AddsPart, StartOf
  <2>8. H3 = H \cup {at} /\ S3 = S
    <3>1. HolesOf(h, lps, Len(h)) = {at}
      BY <1>7, <1>11, <1>12 DEF HolesOf, Branches
    <3>2. AddsPart(g, lps, h, lps)
      BY <1>11, <1>12, UpperSame
    <3> QED
      BY <1>12, <2>4, <3>1, <3>2 DEF AddsPart, StartOf
  <2>9. Sound(chunk', H3) /\ Kept(chunk, chunk')
    <3>1. PICK old, to : old = Top.at /\ to = chunk'
      OBVIOUS
    <3>2. old \in Nat /\ Reachable(jump, {old}) /\ Sound(chunk, H \cup {old})
          /\ to = Emit(PatchJumps(jump, {old}), "OP_POP", <<>>)
      BY <1>5, <1>9, <2>6, <2>7, <3>1
    <3>3. ElseKeeps(chunk, jump, to, H)
      BY <1>1, <2>5, <3>2, ElseSound
    <3> QED
      BY <1>3, <2>8, <3>1, <3>3 DEF ElseKeeps
  <2>10. S3 \subseteq Ops(chunk')
    BY <2>6, <2>7, <2>8, <2>9 DEF Kept
  <2>11. Upper(chunk', lps, h)
    BY <2>4, <2>9, <2>10 DEF Upper, SoundAt
  <2> QED
    BY <1>2, <1>5, <1>8, <2>1, <2>3, <2>11 DEF Structured
<1> QED
  BY <1>16, <1>17 DEF IInv

LEMMA ElseInv ==
  ASSUME IInv, Else
  PROVE  IInv'
<1>1. Typed /\ chunk \in Chunks /\ profile \in Programs /\ loops \in Seq(Loops)
  BY DEF IInv, Typed
<1>2. phase = "compiling" /\ profile' = profile /\ UNCHANGED <<enclosing, functions, loops, symbols>>
  BY DEF Else, CanEnd
<1>3. PICK jump : jump = EmitJump(chunk, "OP_JMP")
  OBVIOUS
<1>4. ASSUME Reachable(jump, {Top.at})
      PROVE  IInv'
  BY <1>3, <1>4, ElseGoes
<1>5. ASSUME ~Reachable(jump, {Top.at})
      PROVE  IInv'
  <2>1. chunk' = jump /\ phase' = "failed" /\ UNCHANGED open
    BY <1>3, <1>5 DEF Else
  <2>2. PICK more : more = {LastJump(jump)}
    OBVIOUS
  <2>3. Builds(chunk, chunk', more) /\ more \in SUBSET Nat
    BY <1>1, <1>3, <2>1, <2>2, JumpSteps
  <2>4. loops' \in Seq(Loops) /\ UNCHANGED <<enclosing, functions, symbols, open>>
        /\ profile' \in Programs
    BY <1>1, <1>2, <2>1
  <2> QED
    BY <1>2, <2>1, <2>3, <2>4, FailInv
<1> QED
  BY <1>4, <1>5
-----------------------------------------------------------------------------
(* Loops.                                                                  *)

LEMMA LatchSteps ==
  ASSUME NEW ch \in Chunks, NEW loop \in Loops, NEW increment \in Seq(Nodes),
         NEW patched, patched = PatchJumps(ch, loop.skips),
         NEW latch, latch = EmitLatch(ch, loop, increment)
  PROVE  /\ patched \in Chunks /\ latch \in Chunks
         /\ Builds(patched, latch, {})
<1>1. patched \in Chunks
  <2>1. loop.skips \in SUBSET Nat
    BY DEF Loops
  <2> QED
    BY <2>1, PatchType
<1>2. latch = IF increment = <<>> THEN patched ELSE Emit(EmitExpr(patched, increment), "OP_POP", <<>>)
  BY DEF EmitLatch
<1>3. Builds(patched, patched, {})
  BY <1>1, StepNone
<1>4. Builds(patched, Emit(EmitExpr(patched, increment), "OP_POP", <<>>), {})
  BY <1>1, ThenAlone DEF Alone
<1>5. Builds(patched, latch, {})
  BY <1>2, <1>3, <1>4
<1> QED
  BY <1>1, <1>5 DEF Builds

LEMMA LoopSound ==
  ASSUME NEW ch \in Chunks, NEW loop \in Loops, NEW increment \in Seq(Nodes),
         NEW start \in Nat, NEW exits \in SUBSET Nat, NEW holes, holes = exits \cup loop.skips,
         NEW latch, latch = EmitLatch(ch, loop, increment),
         NEW exit, exit = EmitLoop(latch, start),
         Reachable(ch, loop.skips), LoopDistance(latch, start) <= ShortMax,
         Reachable(exit, exits), NEW to, to = PatchJumps(exit, exits)
  PROVE  Patches(ch, to, holes, {start})
<1> SUFFICES ASSUME NEW H \in SUBSET Nat, Sound(ch, H \cup holes), start \in Ops(ch)
             PROVE  Sound(to, H) /\ Kept(ch, to)
  BY DEF Patches
<1>1. PICK patched, P, all, rest : /\ patched = PatchJumps(ch, loop.skips) /\ P = loop.skips
                                   /\ all = H \cup holes /\ rest = H \cup exits
  OBVIOUS
<1>2. /\ P \in SUBSET Nat /\ all \in SUBSET Nat /\ rest \in SUBSET Nat
      /\ all \ P \subseteq rest /\ rest \subseteq all
  BY <1>1 DEF Loops
<1>3. patched \in Chunks /\ latch \in Chunks /\ Builds(patched, latch, {})
  BY <1>1, LatchSteps
<1>4. Sound(patched, rest) /\ Kept(ch, patched)
  <2>1. \A h \in all : Hole(ch, h)
    BY <1>1 DEF Sound, JumpsLanded
  <2>2. P \subseteq all
    BY <1>1
  <2>3. Sound(ch, all) /\ Reachable(ch, P) /\ patched = PatchJumps(ch, P)
    BY <1>1
  <2> QED
    BY <1>2, <2>1, <2>2, <2>3, PatchSound
<1>5. Sound(latch, rest) /\ Kept(patched, latch)
  <2>1. rest \cup {} = rest
    OBVIOUS
  <2> QED
    BY <1>2, <1>3, <1>4, <2>1 DEF Builds
<1>6. Builds(latch, exit, {}) /\ exit \in Chunks
  <2>1. start \in Ops(latch)
    BY <1>4, <1>5 DEF Kept
  <2> QED
    BY <1>3, <2>1, LoopSteps
<1>7. Sound(exit, rest) /\ Kept(latch, exit)
  <2>1. rest \cup {} = rest
    OBVIOUS
  <2> QED
    BY <1>2, <1>5, <1>6, <2>1 DEF Builds
<1>8. Sound(to, H) /\ Kept(exit, to)
  <2>1. \A h \in rest : Hole(exit, h)
    BY <1>7 DEF Sound, JumpsLanded
  <2>2. exits \subseteq rest /\ H \subseteq rest /\ rest \ exits \subseteq H
    BY <1>1
  <2> QED
    BY <1>2, <1>6, <1>7, <2>1, <2>2, PatchSound
<1> QED
  BY <1>4, <1>5, <1>7, <1>8 DEF Kept

LEMMA EndWhileInv ==
  ASSUME IInv, NEW increment \in Increments, EndWhile(increment)
  PROVE  IInv'
<1>1. /\ Typed /\ chunk \in Chunks /\ profile \in Programs /\ loops \in Seq(Loops)
      /\ increment \in Seq(Nodes)
  BY EffectsType DEF IInv, Typed
<1>2. phase = "compiling" /\ Top.kind = "body" /\ profile' = profile
      /\ UNCHANGED <<enclosing, functions, symbols>> /\ loops' = Front(loops)
  BY DEF EndWhile, CanEnd
<1>3. /\ Top.at \in Nat /\ Top.start \in Nat /\ Top = open[Len(open)]
      /\ open \in Seq(Frames) /\ open # <<>> /\ profile' \in Programs
  BY <1>1, <1>2, TopIs DEF Frames
<1>4. Looped(loops, open)
  BY <1>1, <1>2 DEF Typed
<1>5. loops' \in Seq(Loops)
  <2>1. loops' = IF open[Len(open)].kind = "body" THEN Front(loops) ELSE loops
    BY <1>2, <1>3
  <2>2. PICK mps : mps = loops'
    OBVIOUS
  <2>3. LessLoops(open, loops, mps)
    BY <1>3, <1>4, <2>1, <2>2, PoppedLoops
  <2> QED
    BY <2>2, <2>3 DEF LessLoops
<1>6. loops[Len(loops)] \in Loops /\ LoopOf(open, Len(open)) = Len(loops)
  <2>1. Len(open) \in Nat /\ Len(open) \in 1 .. Len(open)
    BY <1>3, FrameOf
  <2>2. LoopOf(open, Len(open)) \in 1 .. LoopOf(open, Len(open))
    BY <1>2, <1>3, <2>1, LoopIs
  <2>3. LoopOf(open, Len(open)) = Len(loops)
    BY <1>4 DEF Looped
  <2>4. Len(loops) \in 1 .. Len(loops)
    BY <2>2, <2>3
  <2> QED
    BY <1>1, <2>3, <2>4
<1>7. PICK loop, start, latch, exit, exits :
        /\ loop = loops[Len(loops)] /\ start = Top.start
        /\ latch = EmitLatch(chunk, loop, increment)
        /\ exit = EmitLoop(latch, start)
        /\ exits = loop.breaks \cup {Top.at}
  OBVIOUS
<1>8. loop \in Loops /\ exits \in SUBSET Nat /\ start \in Nat
  BY <1>3, <1>6, <1>7 DEF Loops
<1>9. latch \in Chunks /\ exit \in Chunks
  <2>1. latch \in Chunks
    BY <1>1, <1>7, <1>8, LatchSteps
  <2> QED
    BY <1>7, <1>8, <2>1, LoopSteps
<1>10. PICK reach : reach = (/\ Reachable(chunk, loop.skips)
                             /\ LoopDistance(latch, start) <= ShortMax
                             /\ Reachable(exit, exits))
  OBVIOUS
<1>11. ASSUME Reachable(chunk, loop.skips), LoopDistance(latch, start) <= ShortMax,
              Reachable(exit, exits)
       PROVE  IInv'
  <2>1. /\ chunk' = PatchJumps(exit, exits) /\ open' = Completed(Below, "while")
        /\ phase' = phase
    BY <1>7, <1>11 DEF EndWhile
  <2>2. chunk' \in Chunks
    BY <1>8, <1>9, <2>1, PatchType
  <2>3. PICK holes, to : holes = HolesOf(open, loops, Len(open)) /\ to = chunk'
    OBVIOUS
  <2>4. holes = exits \cup loop.skips
    BY <1>2, <1>3, <1>6, <1>7, <2>3 DEF HolesOf, Branches
  <2>5. Patches(chunk, to, holes, {start})
    BY <1>1, <1>7, <1>8, <1>11, <2>1, <2>3, <2>4, LoopSound
  <2>6. Patches(chunk, chunk', HolesOf(open, loops, Len(open)), StartOf(Top))
    BY <1>2, <1>7, <2>3, <2>5 DEF StartOf
  <2>7. loops' = (IF Top.kind = "body" THEN Front(loops) ELSE loops) /\ Top.kind \notin {"script", "fn"}
    BY <1>2
  <2>8. "while" \in Lasts /\ UNCHANGED <<enclosing, functions, symbols, phase>>
    BY <1>2, <2>1 DEF Lasts
  <2> QED
    BY <1>2, <1>3, <2>1, <2>2, <2>6, <2>7, <2>8, PopInv
<1>12. ASSUME ~(/\ Reachable(chunk, loop.skips) /\ LoopDistance(latch, start) <= ShortMax
                /\ Reachable(exit, exits))
       PROVE  IInv'
  <2>1. phase' = "failed" /\ UNCHANGED <<chunk, open>>
    BY <1>7, <1>12 DEF EndWhile
  <2>2. Builds(chunk, chunk', {}) /\ {} \in SUBSET Nat
    BY <1>1, <2>1, StepNone
  <2>3. UNCHANGED <<enclosing, functions, symbols, open>>
    BY <1>2, <2>1
  <2> QED
    BY <1>2, <1>3, <1>5, <2>1, <2>2, <2>3, FailInv
<1> QED
  BY <1>11, <1>12

-----------------------------------------------------------------------------
(* Break and skip.                                                         *)

LEMMA CountNone ==
  ASSUME NEW f, NEW kind, NEW n \in Nat, NEW m \in 0 .. n,
         \A j \in m + 1 .. n : f[j].kind # kind
  PROVE  CountOf(f, kind, m) = CountOf(f, kind, n)
<1>1. {i \in 1 .. m : f[i].kind = kind} = {i \in 1 .. n : f[i].kind = kind}
  OBVIOUS
<1> QED
  BY <1>1 DEF CountOf

(* The innermost loop is one of the function that is compiled.             *)
LastLoop(f) ==
  /\ \E i \in 1 .. Len(f) : /\ f[i].kind = "body" /\ Level(f, i) = Level(f, Len(f))
                            /\ LoopOf(f, i) = LoopOf(f, Len(f))
  /\ \A i \in 1 .. Len(f) : f[i].kind = "body" /\ LoopOf(f, i) = LoopOf(f, Len(f))
                              => Level(f, i) = Level(f, Len(f))

LEMMA LastLoopIs ==
  ASSUME NEW f \in Seq(Frames), f # <<>>, NEW b \in 1 .. Len(f), f[b].kind = "body",
         \A j \in b + 1 .. Len(f) : f[j].kind # "fn"
  PROVE  LastLoop(f)
<1>1. PICK n, top : n = Len(f) /\ top = LoopOf(f, n)
  OBVIOUS
<1>2. n \in Nat \ {0} /\ n \in Nat /\ b \in Nat \ {0} /\ b <= n
  BY <1>1, FrameOf
<1>3. ASSUME NEW j \in b .. n
      PROVE  Level(f, j) = Level(f, n)
  <2>1. j \in 0 .. n /\ \A k \in j + 1 .. n : k \in b + 1 .. n
    BY <1>2
  <2>2. \A k \in j + 1 .. n : f[k].kind # "fn"
    BY <1>1, <2>1
  <2> QED
    BY <1>2, <2>1, <2>2, CountNone DEF Level
<1>4. ASSUME NEW i \in 1 .. n, f[i].kind = "body", LoopOf(f, i) = top
      PROVE  Level(f, i) = Level(f, n)
  <2>1. ASSUME i < b
        PROVE  FALSE
    <3>1. PICK c, d, e : c = LoopOf(f, i) /\ d = LoopOf(f, b - 1) /\ e = LoopOf(f, b)
      OBVIOUS
    <3>2. i \in 0 .. b - 1 /\ b - 1 \in Nat /\ b \in 0 .. n /\ i \in Nat /\ b \in Nat
      BY <1>2, <2>1
    <3>3. c \in Nat /\ d \in Nat /\ e \in Nat /\ top \in Nat
      BY <1>1, <1>2, <3>1, <3>2, CountType DEF LoopOf
    <3>4. c <= d
      BY <3>1, <3>2, CountUp DEF LoopOf
    <3>5. e <= top
      BY <1>1, <1>2, <3>1, <3>2, CountUp DEF LoopOf
    <3>6. e = d + 1
      BY <1>2, <3>1, CountStep DEF LoopOf
    <3> QED
      BY <1>4, <3>1, <3>3, <3>4, <3>5, <3>6
  <2>2. i \in b .. n
    BY <1>2, <2>1
  <2> QED
    BY <1>3, <2>2
<1>5. PICK S : S = {i \in 1 .. n : f[i].kind = "body"}
  OBVIOUS
<1>6. PICK i \in S : \A j \in S : j <= i
  <2>1. S \subseteq 0 .. n /\ S # {}
    BY <1>1, <1>2, <1>5
  <2> QED
    BY <1>2, <2>1, GreatestExists
<1>7. i \in 1 .. n /\ f[i].kind = "body"
  BY <1>5, <1>6
<1>8. LoopOf(f, i) = top
  <2>1. i \in 0 .. n /\ \A j \in i + 1 .. n : j \in 1 .. n /\ ~(j <= i)
    BY <1>2, <1>7
  <2>2. \A j \in i + 1 .. n : f[j].kind # "body"
    BY <1>5, <1>6, <2>1
  <2> QED
    BY <1>1, <1>2, <2>1, <2>2, CountNone DEF LoopOf
<1> QED
  BY <1>1, <1>4, <1>7, <1>8 DEF LastLoop
(* The last loop waits for one jump more.                                  *)
MoreJumps(lps, mps, hole) ==
  /\ mps \in Seq(Loops) /\ Len(mps) = Len(lps)
  /\ \A j \in 1 .. Len(lps) : j # Len(lps) => mps[j] = lps[j]
  /\ mps[Len(lps)].breaks \cup mps[Len(lps)].skips
       = (lps[Len(lps)].breaks \cup lps[Len(lps)].skips) \cup {hole}

LEMMA MoreHoles ==
  ASSUME NEW f \in Seq(Frames), f # <<>>, NEW lps, Looped(lps, f), LastLoop(f),
         NEW hole, NEW mps, MoreJumps(lps, mps, hole)
  PROVE  \A level : HolesAt(f, mps, level, Len(f))
                      = HolesAt(f, lps, level, Len(f))
                          \cup IF level = Level(f, Len(f)) THEN {hole} ELSE {}
<1>1. PICK n, k, top : n = Len(f) /\ k = Len(lps) /\ top = Level(f, n)
  OBVIOUS
<1>2. n \in Nat \ {0} /\ n \in Nat /\ LoopOf(f, n) = k
  BY <1>1, FrameOf DEF Looped
<1>3. ASSUME NEW i \in 1 .. n
      PROVE  /\ f[i].kind = "body" /\ LoopOf(f, i) = k
                  => HolesOf(f, mps, i) = HolesOf(f, lps, i) \cup {hole} /\ Level(f, i) = top
             /\ ~(f[i].kind = "body" /\ LoopOf(f, i) = k)
                  => HolesOf(f, mps, i) = HolesOf(f, lps, i)
  <2>1. ASSUME f[i].kind = "body", LoopOf(f, i) = k
        PROVE  HolesOf(f, mps, i) = HolesOf(f, lps, i) \cup {hole} /\ Level(f, i) = top
    <3>1. Level(f, i) = top
      BY <1>1, <1>2, <2>1 DEF LastLoop
    <3>2. mps[k].breaks \cup mps[k].skips = (lps[k].breaks \cup lps[k].skips) \cup {hole}
      BY <1>1 DEF MoreJumps
    <3> QED
      BY <2>1, <3>1, <3>2 DEF HolesOf
  <2>2. ASSUME ~(f[i].kind = "body" /\ LoopOf(f, i) = k)
        PROVE  HolesOf(f, mps, i) = HolesOf(f, lps, i)
    <3>1. ASSUME f[i].kind = "body"
          PROVE  mps[LoopOf(f, i)] = lps[LoopOf(f, i)]
      <4>1. LoopOf(f, i) \in 1 .. k /\ LoopOf(f, i) # k
        BY <1>2, <2>2, <3>1, LoopIs
      <4> QED
        BY <1>1, <4>1 DEF MoreJumps
    <3> QED
      BY <3>1 DEF HolesOf
  <2> QED
    BY <2>1, <2>2
<1>4. PICK b \in 1 .. n : f[b].kind = "body" /\ LoopOf(f, b) = k /\ Level(f, b) = top
  BY <1>1, <1>2 DEF LastLoop
<1>5. ASSUME NEW level
      PROVE  HolesAt(f, mps, level, n)
               = HolesAt(f, lps, level, n) \cup IF level = top THEN {hole} ELSE {}
  <2>1. CASE level = top
    <3>1. hole \in HolesOf(f, mps, b)
      BY <1>3, <1>4
    <3>2. HolesAt(f, mps, level, n) \subseteq HolesAt(f, lps, level, n) \cup {hole}
      BY <1>3 DEF HolesAt
    <3>3. HolesAt(f, lps, level, n) \subseteq HolesAt(f, mps, level, n)
      BY <1>3 DEF HolesAt
    <3>4. hole \in HolesAt(f, mps, level, n)
      BY <1>4, <2>1, <3>1 DEF HolesAt
    <3> QED
      BY <2>1, <3>2, <3>3, <3>4
  <2>2. CASE level # top
    <3>1. \A i \in 1 .. n : Level(f, i) = level => HolesOf(f, mps, i) = HolesOf(f, lps, i)
      BY <1>3, <2>2
    <3> QED
      BY <2>2, <3>1 DEF HolesAt
  <2> QED
    BY <2>1, <2>2
<1> QED
  BY <1>1, <1>5

LEMMA OwnLoop ==
  ASSUME NEW f \in Seq(Frames), f # <<>>, f[1].kind = "script",
         \E i \in DOMAIN OwnOf(f) : OwnOf(f)[i].kind = "body"
  PROVE  LastLoop(f)
<1>1. PICK own, n : own = OwnOf(f) /\ n = Len(f)
  OBVIOUS
<1>2. PICK i \in DOMAIN own : own[i].kind = "body"
  BY <1>1
<1>3. PICK c \in 1 .. n : OwnFrom(f, own, c)
  BY <1>1, OwnIs
<1>4. n \in Nat \ {0}
  BY <1>1, FrameOf
<1>5. PICK b : b = c + i - 1
  OBVIOUS
<1>6. i \in 1 .. n - c + 1
  <2>1. own \in Seq(Frames) /\ Len(own) = n - c + 1
    BY <1>1, <1>3 DEF OwnFrom
  <2> QED
    BY <1>2, <2>1
<1>7. b \in 1 .. n /\ \A j \in b + 1 .. n : j \in c + 1 .. n
  BY <1>3, <1>4, <1>5, <1>6
<1>8. f[b].kind = "body"
  BY <1>1, <1>2, <1>3, <1>5, <1>6 DEF OwnFrom
<1>9. \A j \in b + 1 .. n : f[j].kind # "fn"
  BY <1>1, <1>3, <1>7 DEF OwnFrom
<1> QED
  BY <1>1, <1>7, <1>8, <1>9, LastLoopIs

LEMMA AddedJump ==
  ASSUME NEW lps \in Seq(Loops), lps # <<>>, NEW list \in {"breaks", "skips"}, NEW hole \in Nat,
         NEW mps, mps = [lps EXCEPT ![Len(lps)][list] = @ \cup {hole}]
  PROVE  MoreJumps(lps, mps, hole)
<1>1. PICK k, old : k = Len(lps) /\ old = lps[k]
  OBVIOUS
<1>2. PICK new : new = [old EXCEPT ![list] = @ \cup {hole}]
  OBVIOUS
<1>3. k \in Nat \ {0} /\ k \in 1 .. k /\ old \in Loops
  <2>1. k \in Nat /\ k # 0
    BY <1>1
  <2>2. k \in 1 .. Len(lps)
    BY <1>1, <2>1
  <2> QED
    BY <1>1, <2>1, <2>2
<1>4. new \in Loops /\ new.breaks \cup new.skips = (old.breaks \cup old.skips) \cup {hole}
  <2>1. CASE list = "breaks"
    <3>1. new = [old EXCEPT !.breaks = @ \cup {hole}]
      BY <1>2, <2>1
    <3> QED
      BY <1>3, <3>1 DEF Loops
  <2>2. CASE list = "skips"
    <3>1. new = [old EXCEPT !.skips = @ \cup {hole}]
      BY <1>2, <2>2
    <3> QED
      BY <1>3, <3>1 DEF Loops
  <2> QED
    BY <2>1, <2>2
<1>5. mps = [lps EXCEPT ![k] = new]
  BY <1>1, <1>2
<1>6. mps \in Seq(Loops) /\ Len(mps) = k /\ \A i \in 1 .. k : mps[i] = IF i = k THEN new ELSE lps[i]
  <2>1. new \in Loops /\ k \in 1 .. Len(lps)
    BY <1>1, <1>3, <1>4
  <2>2. /\ [lps EXCEPT ![k] = new] \in Seq(Loops)
        /\ Len([lps EXCEPT ![k] = new]) = Len(lps)
        /\ \A j \in 1 .. Len(lps) : [lps EXCEPT ![k] = new][j] = IF j = k THEN new ELSE lps[j]
    BY <2>1, ExceptSeq
  <2> QED
    BY <1>1, <1>5, <2>2
<1> QED
  BY <1>1, <1>3, <1>4, <1>6 DEF MoreJumps

LEMMA JumpInv ==
  ASSUME IInv, NEW kind, CanBegin(kind), CanJump, NEW list \in {"breaks", "skips"},
         AddJump(list), NEW statement \in Lasts, Done(statement)
  PROVE  IInv'
<1>1. Typed /\ chunk \in Chunks
  BY DEF IInv, Typed
<1>2. phase = "compiling" /\ profile' \in Programs
  BY <1>1, ProfileNext
<1>3. UNCHANGED <<enclosing, functions, symbols, phase>> /\ chunk' = EmitJump(chunk, "OP_JMP")
  BY DEF AddJump
<1>4. PICK f, lps, mps, h, hole : /\ f = open /\ lps = loops /\ mps = loops' /\ h = open'
                                  /\ hole = LastJump(chunk')
  OBVIOUS
<1>5. /\ Framed(enclosing, f) /\ Looped(lps, f) /\ f \in Seq(Frames) /\ f # <<>>
      /\ f[1].kind = "script" /\ lps \in Seq(Loops) /\ lps # <<>>
  BY <1>1, <1>2, <1>4 DEF Typed, Framed, Looped, CanJump
<1>6. Builds(chunk, chunk', {hole}) /\ hole \in Nat /\ chunk' \in Chunks
  <2>1. PICK to : to = chunk'
    OBVIOUS
  <2>2. Builds(chunk, to, {LastJump(to)}) /\ LastJump(to) \in Nat
    BY <1>1, <1>3, <2>1, JumpSteps
  <2> QED
    BY <1>4, <2>1, <2>2 DEF Builds
<1>7. MoreJumps(lps, mps, hole)
  <2>1. mps = [lps EXCEPT ![Len(lps)][list] = @ \cup {hole}]
    BY <1>4 DEF AddJump
  <2> QED
    BY <1>5, <1>6, <2>1, AddedJump
<1>8. Looped(mps, f) /\ mps \in Seq(Loops)
  BY <1>5, <1>7 DEF Looped, MoreJumps
<1>9. Alike(f, h)
  BY <1>4, <1>5, CompletedAlike DEF Done
<1>10. Framed(enclosing, h) /\ Looped(mps, h)
  BY <1>5, <1>8, <1>9, AlikeKeeps
<1>11. Typed'
  BY <1>1, <1>2, <1>3, <1>4, <1>6, <1>8, <1>10 DEF Typed
<1>12. ASSUME LexicalJumps
       PROVE  Structured'
  <2>1. Structured
    BY <1>12 DEF IInv
  <2>2. Upper(chunk, lps, f) /\ Lower(enclosing, lps, f)
    BY <1>2, <1>4, <2>1 DEF Structured
  <2>3. LastLoop(f)
    <3>1. \E i \in DOMAIN OwnOf(f) : OwnOf(f)[i].kind = "body"
      BY <1>4, <1>12 DEF CanJump, Own
    <3> QED
      BY <1>5, <3>1, OwnLoop
  <2>4. PICK top, n : top = Level(f, n) /\ n = Len(f)
    OBVIOUS
  <2>5. \A level : HolesAt(f, mps, level, n)
                     = HolesAt(f, lps, level, n) \cup IF level = top THEN {hole} ELSE {}
    BY <1>5, <1>7, <2>3, <2>4, MoreHoles
  <2>6. HolesAt(f, lps, top, n) \in SUBSET Nat
    <3>1. n \in 0 .. Len(f) /\ LoopOf(f, n) <= Len(lps)
      BY <1>5, <2>4, FrameOf DEF Looped
    <3> QED
      BY <1>5, <3>1, HolesType
  <2>7. Sound(chunk, HolesAt(f, lps, top, n)) /\ StartsAt(f, top, n) \subseteq Ops(chunk)
    BY <2>2, <2>4 DEF Upper, SoundAt
  <2>8. Sound(chunk', HolesAt(f, lps, top, n) \cup {hole}) /\ Kept(chunk, chunk')
    BY <1>6, <2>6, <2>7 DEF Builds
  <2>9. Upper(chunk', mps, f)
    <3>1. HolesAt(f, mps, top, n) = HolesAt(f, lps, top, n) \cup {hole}
      BY <2>5
    <3>2. StartsAt(f, top, n) \subseteq Ops(chunk')
      BY <2>7, <2>8 DEF Kept
    <3> QED
      BY <2>4, <2>8, <3>1, <3>2 DEF Upper, SoundAt
  <2>10. Lower(enclosing, mps, f)
    <3>1. ASSUME NEW level \in 0 .. Len(enclosing) - 1
          PROVE  SoundAt(enclosing[level + 1], mps, f, level)
      <4>1. level # top
        <5>1. top = Len(enclosing) /\ top \in Nat
          BY <1>5, <2>4, FrameOf DEF Framed
        <5> QED
          BY <5>1
      <4>2. HolesAt(f, mps, level, n) = HolesAt(f, lps, level, n)
        BY <2>5, <4>1
      <4> QED
        BY <2>2, <2>4, <4>2 DEF Lower, SoundAt
    <3> QED
      BY <3>1 DEF Lower
  <2>11. Upper(chunk', mps, h) /\ Lower(enclosing, mps, h)
    BY <1>9, <2>9, <2>10, AlikeKeeps
  <2> QED
    BY <1>2, <1>3, <1>4, <2>1, <2>11 DEF Structured
<1> QED
  BY <1>11, <1>12 DEF IInv

LEMMA BreakInv ==
  ASSUME IInv, Break
  PROVE  IInv'
<1>1. CanBegin("break") /\ CanJump /\ AddJump("breaks") /\ Done("break")
  BY DEF Break
<1> QED
  BY <1>1, JumpInv DEF Lasts

LEMMA SkipInv ==
  ASSUME IInv, Skip
  PROVE  IInv'
<1>1. CanBegin("skip") /\ CanJump /\ AddJump("skips") /\ Done("skip")
  BY DEF Skip
<1> QED
  BY <1>1, JumpInv DEF Lasts
-----------------------------------------------------------------------------
(* Functions.                                                              *)

LEMMA FnDeclInv ==
  ASSUME IInv, NEW arity \in 0 .. 1, NEW size \in Sizes, FnDecl(arity, size)
  PROVE  IInv'
<1>1. Typed /\ chunk \in Chunks /\ enclosing \in Seq(Chunks)
  BY DEF IInv, Typed, Framed
<1>2. arity \in Nat /\ size \in Nat
  <2>1. profile.locals \in Nat
    BY <1>1 DEF Typed, Programs
  <2> QED
    BY <2>1 DEF Sizes
<1>3. profile' \in Programs /\ phase = "compiling"
  <2>1. CanBegin("fun")
    BY DEF FnDecl, CanDeclare
  <2> QED
    BY <1>1, <2>1, ProfileNext
<1>4. PICK frame : frame = [Frame("fn") EXCEPT !.base = arity, !.size = size]
  OBVIOUS
<1>5. frame \in Frames /\ frame.kind = "fn"
  <2>1. PICK new : new = Frame("fn")
    OBVIOUS
  <2>2. new \in Frames /\ new.kind = "fn"
    BY <2>1, FrameType DEF Kinds, Lists
  <2> QED
    BY <1>2, <1>4, <2>1, <2>2 DEF Frames
<1>6. /\ open' = Append(open, frame) /\ enclosing' = Append(enclosing, chunk)
      /\ chunk' = EmptyChunk /\ UNCHANGED <<functions, loops, symbols, phase>>
  BY <1>4 DEF FnDecl, Push
<1>7. PICK f, g, lps, more : f = open /\ g = open' /\ lps = loops /\ more = enclosing'
  OBVIOUS
<1>8. /\ Framed(enclosing, f) /\ Looped(lps, f) /\ f \in Seq(Frames) /\ f # <<>>
      /\ Len(enclosing) = Level(f, Len(f)) /\ lps \in Seq(Loops) /\ Len(lps) = LoopOf(f, Len(f))
  BY <1>1, <1>3, <1>7 DEF Typed, Framed, Looped
<1>9. Grows(f, lps, g, lps) /\ g[Len(g)] = frame
  <2>1. SameLoops(lps, lps, LoopOf(f, Len(f)))
    BY DEF SameLoops
  <2>2. g = Append(f, frame)
    BY <1>6, <1>7
  <2>3. IsPushed(f, lps, g, lps, frame)
    BY <1>5, <1>8, <2>1, <2>2, Pushed
  <2> QED
    BY <2>3 DEF IsPushed
<1>10. g[Len(g)].kind = "fn" /\ g[Len(g)].kind # "script" /\ g[Len(g)].kind # "body"
  BY <1>5, <1>9
<1>11. FunctionPart(f, lps, g, lps, enclosing, chunk, more)
  <2>1. more = Append(enclosing, chunk)
    BY <1>6, <1>7
  <2> QED
    BY <1>1, <1>8, <1>9, <1>10, <2>1, FunctionGrows
<1>12. Framed(more, g)
  <2>1. Scripted(f)
    BY <1>8 DEF Framed, Scripted
  <2> QED
    BY <1>9, <1>10, <1>11, <2>1, GrownScript DEF Framed, Scripted, FunctionPart
<1>13. Looped(lps, g)
  <2>1. Len(lps) = Len(lps) + 0
    <3>1. Len(lps) \in Nat
      BY <1>8
    <3> QED
      BY <3>1
  <2>2. Len(lps) = Len(lps) + IF g[Len(g)].kind = "body" THEN 1 ELSE 0
    BY <1>10, <2>1
  <2> QED
    BY <1>8, <1>9, <2>2, GrownLooped
<1>14. chunk' \in Chunks /\ Sound(chunk', {})
  BY <1>6, EmptySound DEF Sound
<1>15. Typed'
  BY <1>1, <1>3, <1>6, <1>7, <1>12, <1>13, <1>14 DEF Typed
<1>16. ASSUME LexicalJumps
       PROVE  Structured'
  <2>1. Structured
    BY <1>16 DEF IInv
  <2>2. Upper(chunk, lps, f) /\ Lower(enclosing, lps, f)
    BY <1>3, <1>7, <2>1 DEF Structured
  <2>3. Lower(more, lps, g) /\ Upper(chunk', lps, g)
    BY <1>11, <1>14, <2>2 DEF FunctionPart, Upper, SoundAt
  <2> QED
    BY <1>3, <1>6, <1>7, <2>1, <2>3 DEF Structured
<1> QED
  BY <1>15, <1>16 DEF IInv

LEMMA UpvaluesType == Upvalues \subseteq {<<>>, <<0, 0>>}
BY DEF Upvalues

LEMMA LastOf ==
  ASSUME NEW S, NEW s \in Seq(S), Len(s) # 0
  PROVE  /\ Front(s) \in Seq(S) /\ s[Len(s)] \in S /\ Len(s) = Len(Front(s)) + 1
         /\ s = Append(Front(s), s[Len(s)])
<1>1. PICK n, m, t, e : n = Len(s) /\ m = n - 1 /\ t = Front(s) /\ e = s[n]
  OBVIOUS
<1>2. n \in Nat /\ m \in Nat /\ n = m + 1 /\ m \in 0 .. n
  <2>1. n \in Nat /\ n # 0
    BY <1>1
  <2> QED
    BY <1>1, <2>1
<1>3. t = SubSeq(s, 1, m)
  BY <1>1 DEF Front
<1>4. t \in Seq(S) /\ Len(t) = m /\ \A i \in 1 .. m : t[i] = s[i]
  BY <1>1, <1>2, <1>3, Shorter
<1>5. e \in S
  BY <1>1, <1>2
<1>6. PICK a : a = Append(t, e)
  OBVIOUS
<1>7. a \in Seq(S) /\ Len(a) = n /\ \A i \in 1 .. n : a[i] = s[i]
  <2>1. /\ a \in Seq(S) /\ Len(a) = Len(t) + 1
        /\ \A i \in 1 .. Len(t) : a[i] = t[i]
        /\ a[Len(t) + 1] = e
    BY <1>4, <1>5, <1>6, AppendProperties
  <2>2. \A i \in 1 .. n : i \in 1 .. m \/ i = n
    BY <1>2
  <2> QED
    BY <1>1, <1>2, <1>4, <2>1, <2>2
<1>8. a = s
  BY <1>1, <1>7, SeqEqual
<1> QED
  BY <1>1, <1>2, <1>4, <1>5, <1>6, <1>8

LEMMA EndFnInv ==
  ASSUME IInv, NEW upvalues \in Upvalues, EndFn(upvalues)
  PROVE  IInv'
<1>1. /\ Typed /\ chunk \in Chunks /\ profile \in Programs /\ functions \in Seq(Chunks)
      /\ enclosing \in Seq(Chunks) /\ symbols \in Nat /\ loops \in Seq(Loops)
  BY DEF IInv, Typed, Framed
<1>2. phase = "compiling" /\ Top.kind = "fn" /\ profile' = profile
  BY DEF EndFn, CanEnd
<1>3. PICK f, g, h, lps, encl, ch, closing :
        /\ f = open /\ g = Below /\ h = open' /\ lps = loops /\ encl = Front(enclosing)
        /\ ch = enclosing[Len(enclosing)] /\ closing = EmitClosing(chunk)
  OBVIOUS
<1>4. /\ functions' = Append(functions, closing) /\ enclosing' = encl
      /\ chunk' = EmitDeclare(EmitFunction(ch, upvalues), g[Len(g)])
      /\ h = Declared(g) /\ symbols' = SymbolsAfter(g[Len(g)])
      /\ UNCHANGED <<loops, phase>>
  BY <1>3 DEF EndFn
<1>5. /\ Framed(enclosing, f) /\ Looped(lps, f) /\ f \in Seq(Frames) /\ f # <<>>
      /\ Top = f[Len(f)] /\ g = Front(f) /\ f[1].kind = "script" /\ Top \in Frames
      /\ lps \in Seq(Loops) /\ Len(enclosing) = Level(f, Len(f))
  <2>1. Framed(enclosing, f) /\ Looped(lps, f)
    BY <1>1, <1>2, <1>3 DEF Typed
  <2> QED
    BY <1>1, <1>3, <2>1, TopIs DEF Framed, Looped, Below
<1>6. Grows(g, lps, f, lps) /\ g \in Seq(Frames) /\ g # <<>>
  <2>1. SameLoops(lps, lps, LoopOf(f, Len(f) - 1)) /\ f[Len(f)].kind # "script"
    BY <1>2, <1>5 DEF SameLoops
  <2>2. IsPopped(f, lps, g, lps)
    BY <1>5, <2>1, PoppedFrame
  <2> QED
    BY <2>2 DEF IsPopped
<1>7. f[Len(f)].kind = "fn" /\ f[Len(f)].kind # "script" /\ f[Len(f)].kind # "body"
  BY <1>2, <1>5
<1>8. Len(enclosing) = Level(g, Len(g)) + 1 /\ Level(g, Len(g)) \in Nat
  <2>1. Grown(g, lps, f, lps, "fn")
    BY <1>6, <1>7, GrownIs
  <2>2. Level(g, Len(g)) \in Nat
    BY <1>6, FrameOf
  <2> QED
    BY <1>5, <2>1, <2>2 DEF Grown
<1>9. /\ encl \in Seq(Chunks) /\ ch \in Chunks /\ Len(encl) = Level(g, Len(g))
      /\ enclosing = Append(encl, ch)
  <2>1. Len(enclosing) # 0
    BY <1>8
  <2>2. /\ encl \in Seq(Chunks) /\ ch \in Chunks /\ Len(enclosing) = Len(encl) + 1
        /\ enclosing = Append(encl, ch)
    BY <1>1, <1>3, <2>1, LastOf
  <2>3. Len(encl) \in Nat
    BY <2>2
  <2> QED
    BY <1>8, <2>2, <2>3
<1>10. FunctionPart(g, lps, f, lps, encl, ch, enclosing)
  BY <1>6, <1>7, <1>9, FunctionGrows
<1>11. Framed(encl, g)
  <2>1. Scripted(f)
    BY <1>5 DEF Framed, Scripted
  <2> QED
    BY <1>6, <1>7, <1>9, <2>1, GrownScript DEF Framed, Scripted
<1>12. Looped(lps, g)
  <2>1. Len(lps) = Len(lps) + 0
    <3>1. Len(lps) \in Nat
      BY <1>5
    <3> QED
      BY <3>1
  <2>2. Len(lps) = Len(lps) + IF f[Len(f)].kind = "body" THEN 1 ELSE 0
    BY <1>7, <2>1
  <2> QED
    BY <1>5, <1>6, <2>2, GrownLooped
<1>13. Alike(g, h) /\ symbols' \in Nat
  BY <1>1, <1>4, <1>6, DeclaredAlike
<1>14. Framed(encl, h) /\ Looped(lps, h)
  BY <1>11, <1>12, <1>13, AlikeKeeps
<1>15. Builds(ch, chunk', {}) /\ chunk' \in Chunks
  <2>1. PICK value : value = EmitFunction(ch, upvalues)
    OBVIOUS
  <2>2. Builds(ch, value, {}) /\ value \in Chunks
    BY <1>1, <1>9, <2>1, FunctionSteps, UpvaluesType DEF Builds
  <2>3. g[Len(g)] \in Frames
    BY <1>6, FrameOf
  <2>4. Builds(value, chunk', {})
    BY <1>1, <1>4, <2>1, <2>2, <2>3, DeclareSteps
  <2>5. Builds(ch, chunk', {})
    BY <1>9, <2>2, <2>4, StepTrans
  <2> QED
    BY <2>5 DEF Builds
<1>16. Builds(chunk, closing, {}) /\ closing \in Chunks
  BY <1>1, <1>3, <1>5, ClosingSteps DEF Builds
<1>17. functions' \in Seq(Chunks)
  BY <1>1, <1>4, <1>16, AppendProperties
<1>18. Typed'
  BY <1>1, <1>2, <1>3, <1>4, <1>13, <1>14, <1>15, <1>17 DEF Typed
<1>19. ASSUME LexicalJumps
       PROVE  Structured'
  <2>1. Structured
    BY <1>19 DEF IInv
  <2>2. Upper(chunk, lps, f) /\ Lower(enclosing, lps, f)
    BY <1>2, <1>3, <2>1 DEF Structured
  <2>3. Lower(encl, lps, g) /\ Upper(ch, lps, g)
    BY <1>10, <2>2 DEF FunctionPart
  <2>4. Upper(chunk', lps, g)
    <3>1. PICK to : to = chunk'
      OBVIOUS
    <3> QED
      BY <1>6, <1>9, <1>12, <1>15, <2>3, <3>1, UpperKept
  <2>5. Upper(chunk', lps, h) /\ Lower(encl, lps, h)
    BY <1>13, <2>3, <2>4, AlikeKeeps
  <2>6. Sound(closing, {})
    <3>1. Sound(chunk, {})
      BY <1>10, <2>2 DEF FunctionPart, Upper, SoundAt
    <3>2. {} \in SUBSET Nat /\ {} \cup {} = {}
      OBVIOUS
    <3> QED
      BY <1>16, <3>1, <3>2 DEF Builds
  <2>7. \A i \in DOMAIN functions' : Sound(functions'[i], {})
    <3>1. PICK s, t : s = functions /\ t = functions'
      OBVIOUS
    <3>2. /\ t \in Seq(Chunks) /\ Len(t) = Len(s) + 1
          /\ \A i \in 1 .. Len(s) : t[i] = s[i]
          /\ t[Len(s) + 1] = closing
      BY <1>1, <1>4, <1>16, <3>1, AppendProperties
    <3>3. \A i \in 1 .. Len(s) : Sound(s[i], {})
      BY <1>1, <2>1, <3>1 DEF Structured
    <3>4. \A i \in DOMAIN t : i \in 1 .. Len(s) \/ i = Len(s) + 1
      BY <1>1, <3>1, <3>2
    <3> QED
      BY <2>6, <3>1, <3>2, <3>3, <3>4
  <2> QED
    BY <1>2, <1>3, <1>4, <2>5, <2>7 DEF Structured
<1> QED
  BY <1>18, <1>19 DEF IInv

-----------------------------------------------------------------------------
(* Every step preserves the invariant.                                     *)

LEMMA Inductive == IInv /\ [Next]_codeVars => IInv'
<1> SUFFICES ASSUME IInv, [Next]_codeVars
             PROVE  IInv'
  OBVIOUS
<1>1. ASSUME NEW e \in Effects, ExprStmt(e) PROVE IInv'
  BY <1>1, ExprStmtInv
<1>2. ASSUME NEW e \in Printed, PrintStmt(e) PROVE IInv'
  BY <1>2, PrintStmtInv
<1>3. ASSUME NEW e \in Optional, VarDecl(e) PROVE IInv'
  BY <1>3, VarDeclInv
<1>4. ASSUME NEW e \in Optional, Return(e) PROVE IInv'
  BY <1>4, ReturnInv
<1>5. ASSUME NEW n \in Sizes, Block(n) PROVE IInv'
  BY <1>5, BlockInv
<1>6. ASSUME EndBlock PROVE IInv'
  BY <1>6, EndBlockInv
<1>7. ASSUME NEW arity \in 0 .. 1, NEW n \in Sizes, FnDecl(arity, n) PROVE IInv'
  BY <1>7, FnDeclInv
<1>8. ASSUME NEW u \in Upvalues, EndFn(u) PROVE IInv'
  BY <1>8, EndFnInv
<1>9. ASSUME NEW e \in Conditions, If(e) PROVE IInv'
  BY <1>9, IfInv
<1>10. ASSUME NEW e \in Conditions, While(e) PROVE IInv'
  BY <1>10, WhileInv
<1>11. ASSUME Else PROVE IInv'
  BY <1>11, ElseInv
<1>12. ASSUME EndIf PROVE IInv'
  BY <1>12, EndIfInv
<1>13. ASSUME NEW e \in Increments, EndWhile(e) PROVE IInv'
  BY <1>13, EndWhileInv
<1>14. ASSUME Break PROVE IInv'
  BY <1>14, BreakInv
<1>15. ASSUME Skip PROVE IInv'
  BY <1>15, SkipInv
<1>16. ASSUME Finish PROVE IInv'
  BY <1>16, FinishInv
<1>17. ASSUME UNCHANGED codeVars PROVE IInv'
  <2>1. UNCHANGED <<chunk, enclosing, functions, loops, open, symbols, phase, profile>>
    BY <1>17 DEF codeVars
  <2>2. Typed => Typed'
    BY <2>1 DEF Typed
  <2>3. Structured => Structured'
    BY <2>1 DEF Structured
  <2> QED
    BY <2>2, <2>3 DEF IInv
<1> QED
  BY <1>1, <1>2, <1>3, <1>4, <1>5, <1>6, <1>7, <1>8, <1>9, <1>10, <1>11, <1>12, <1>13, <1>14,
     <1>15, <1>16, <1>17 DEF Next
-----------------------------------------------------------------------------
(* Reading a chunk from its first byte on finds the instructions.          *)

LEMMA Predecessor ==
  ASSUME NEW ch \in Chunks, Whole(ch), NEW b \in Begins(ch), b # 0
  PROVE  \E p \in Ops(ch) : p < b /\ Following(ch, p) = b
<1>1. PICK n, S : n = Count(ch) /\ S = {o \in Ops(ch) : o < b}
  OBVIOUS
<1>2. n \in Nat /\ b \in Nat /\ b <= n /\ Ops(ch) \subseteq 0 .. n - 1
  <2>1. n \in Nat
    BY <1>1, ChunkType
  <2> QED
    BY <1>1, <2>1 DEF Begins, Ops
<1>3. 0 \in S
  <2>1. 0 \in Begins(ch) /\ 0 # n /\ 0 < b
    BY <1>2 DEF Whole
  <2> QED
    BY <1>1, <2>1 DEF Begins
<1>4. PICK p \in S : \A o \in S : o <= p
  <2>1. S \subseteq 0 .. n /\ S # {}
    BY <1>1, <1>2, <1>3
  <2> QED
    BY <1>2, <2>1, GreatestExists
<1>5. p \in Ops(ch) /\ p < b /\ p \in Nat
  BY <1>1, <1>2, <1>4
<1>6. PICK f : f = Following(ch, p)
  OBVIOUS
<1>7. f \in Nat /\ f \in Begins(ch) /\ p < f /\ f <= n
  <2>1. Instruction(ch, p)
    BY <1>5, InstructionIs
  <2>2. f \in Nat /\ f = p + 1 + OperandsAt(ch, p) /\ OperandsAt(ch, p) \in Nat /\ f <= n
    BY <1>1, <1>6, <2>1 DEF Instruction
  <2>3. f \in Begins(ch)
    BY <1>5, <1>6 DEF Whole
  <2> QED
    BY <1>5, <2>2, <2>3
<1>8. f <= b
  <2>1. CASE b \in Ops(ch)
    BY <1>5, <1>6, <2>1, Apart
  <2>2. CASE b = n
    BY <1>7, <2>2
  <2> QED
    BY <1>1, <2>1, <2>2 DEF Begins
<1>9. ~(f < b)
  <2> SUFFICES ASSUME f < b PROVE FALSE
    OBVIOUS
  <2>1. f \in Ops(ch)
    BY <1>1, <1>2, <1>7 DEF Begins
  <2>2. f <= p
    BY <1>1, <1>4, <2>1
  <2> QED
    BY <1>5, <1>7, <2>2
<1>10. f = b
  BY <1>2, <1>7, <1>8, <1>9
<1> QED
  BY <1>5, <1>6, <1>10

Upto(ch, n) == {0} \cup {Following(ch, o) : o \in {o \in Ops(ch) : o < n}}

LEMMA UptoStep ==
  ASSUME NEW ch \in Chunks, Whole(ch), NEW n \in 1 .. Count(ch), NEW starts,
         starts = Upto(ch, n - 1)
  PROVE  Upto(ch, n)
           = starts \cup {Following(ch, o) : o \in {o \in starts : o = n - 1 /\ IsOp(ch.code[n])}}
<1>1. PICK m : m = n - 1
  OBVIOUS
<1>2. m \in Nat /\ m \in 0 .. Count(ch) - 1 /\ n = m + 1 /\ Ops(ch) \subseteq Nat
  <2>1. Count(ch) \in Nat
    BY ChunkType
  <2> QED
    BY <1>1, <2>1 DEF Ops
<1>3. m \in Ops(ch) <=> IsOp(ch.code[n])
  BY <1>2 DEF Ops
<1>4. m \in Ops(ch) => m \in starts
  <2> SUFFICES ASSUME m \in Ops(ch), m # 0
               PROVE  m \in starts
    BY <1>1 DEF Upto
  <2>1. PICK p \in Ops(ch) : p < m /\ Following(ch, p) = m
    <3>1. m \in Begins(ch)
      BY DEF Begins
    <3> QED
      BY <3>1, Predecessor
  <2> QED
    BY <1>1, <2>1 DEF Upto
<1>5. {o \in Ops(ch) : o < n} = {o \in Ops(ch) : o < m} \cup {o \in {m} : o \in Ops(ch)}
  BY <1>2
<1>6. {o \in starts : o = m /\ IsOp(ch.code[n])} = {o \in {m} : o \in Ops(ch)}
  BY <1>3, <1>4
<1>7. Upto(ch, n) = ({0} \cup {Following(ch, o) : o \in {o \in Ops(ch) : o < m}})
                      \cup {Following(ch, o) : o \in {o \in {m} : o \in Ops(ch)}}
  BY <1>5 DEF Upto
<1> QED
  BY <1>1, <1>6, <1>7 DEF Upto

LEMMA StartsAre ==
  ASSUME NEW ch \in Chunks, Whole(ch)
  PROVE  Starts(ch) = Begins(ch)
<1> DEFINE m == Count(ch)
           After(starts, n) ==
             starts \cup {Following(ch, o) : o \in {o \in starts : o = n - 1 /\ IsOp(ch.code[n])}}
           Body(f) == [n \in 0 .. m |-> IF n = 0 THEN {0} ELSE After(f[n - 1], n)]
<1>1. m \in Nat
  BY ChunkType
<1>2. PICK f : f = [n \in 0 .. m |-> Upto(ch, n)]
  OBVIOUS
<1>3. f[0] = {0}
  <2>1. {o \in Ops(ch) : o < 0} = {}
    BY DEF Ops
  <2>2. 0 \in 0 .. m
    BY <1>1
  <2> QED
    BY <1>2, <2>1, <2>2 DEF Upto
<1>4. \A n \in 1 .. m : f[n] = After(f[n - 1], n)
  <2>1. ASSUME NEW n \in 1 .. m
        PROVE  f[n] = After(f[n - 1], n)
    <3>1. n \in 0 .. m /\ n - 1 \in 0 .. m
      BY <1>1
    <3>2. f[n] = Upto(ch, n) /\ f[n - 1] = Upto(ch, n - 1)
      BY <1>2, <3>1
    <3>3. PICK starts : starts = f[n - 1]
      OBVIOUS
    <3>4. Upto(ch, n) = After(starts, n)
      BY <3>2, <3>3, UptoStep
    <3> QED
      BY <3>2, <3>3, <3>4
  <2> QED
    BY <2>1
<1> HIDE DEF m, After
<1>5. f = Body(f)
  BY <1>1, <1>2, <1>3, <1>4
<1>6. PICK g : g = CHOOSE x : x = Body(x)
  OBVIOUS
<1>7. g = Body(g)
  BY <1>5, <1>6
<1>8. g[0] = {0} /\ \A n \in 1 .. m : g[n] = After(g[n - 1], n)
  <2>1. 0 \in 0 .. m /\ \A n \in 1 .. m : n \in 0 .. m /\ n # 0
    BY <1>1
  <2> QED
    BY <1>7, <2>1
<1>9. g[m] = f[m]
  <2> DEFINE same == {n \in 0 .. m : g[n] = f[n]}
  <2>1. 0 \in same
    BY <1>1, <1>3, <1>8
  <2>2. \A n \in 1 .. m : n - 1 \in same => n \in same
    BY <1>1, <1>4, <1>8
  <2> HIDE DEF same
  <2>3. \A n \in 0 .. m : n \in same
    BY <1>1, <2>1, <2>2, Upward
  <2> QED
    BY <1>1, <2>3 DEF same
<1>10. Starts(ch) = g[m]
  BY <1>6 DEF Starts, m, After
<1>11. Upto(ch, m) = Begins(ch)
  <2>1. {o \in Ops(ch) : o < m} = Ops(ch)
    BY <1>1 DEF Ops, m
  <2>2. Upto(ch, m) = {0} \cup {Following(ch, o) : o \in Ops(ch)}
    BY <2>1 DEF Upto
  <2>3. 0 \in Begins(ch) /\ \A o \in Ops(ch) : Following(ch, o) \in Begins(ch)
    BY DEF Whole
  <2>4. \A b \in Begins(ch) : b # 0 => \E p \in Ops(ch) : Following(ch, p) = b
    BY Predecessor
  <2> QED
    BY <2>2, <2>3, <2>4
<1>12. f[m] = Upto(ch, m)
  BY <1>1, <1>2
<1> QED
  BY <1>9, <1>10, <1>11, <1>12

LEMMA SoundLands ==
  ASSUME NEW ch, NEW H, Sound(ch, H), NEW complete \in BOOLEAN, complete => H = {}
  PROVE  Lands(ch, complete)
<1>1. ch \in Chunks /\ Whole(ch) /\ JumpsLanded(ch, H)
  BY DEF Sound
<1>2. Starts(ch) = Begins(ch)
  BY <1>1, StartsAre
<1>3. Count(ch) \in Begins(ch)
  BY DEF Begins
<1>4. ASSUME NEW o \in Begins(ch) \ {Count(ch)}
      PROVE  /\ IsOp(ch.code[o + 1])
             /\ ch.code[o + 1].op \in Jumps =>
                  \/ Target(ch, o) \in Begins(ch) \ {o}
                  \/ ~complete /\ Short(ch, o + 1) = ShortMax
  <2>1. o \in Ops(ch)
    BY DEF Begins
  <2>2. IsOp(ch.code[o + 1])
    BY <2>1 DEF Ops
  <2>3. OpAt(ch, o) \in Jumps => Landed(ch, o) \/ Open(ch, o, H)
    BY <1>1, <2>1 DEF JumpsLanded
  <2>4. Open(ch, o, H) => ~complete /\ Short(ch, o + 1) = ShortMax
    BY DEF Open
  <2> QED
    BY <2>2, <2>3, <2>4 DEF Landed, OpAt
<1> QED
  BY <1>2, <1>3, <1>4 DEF Lands
-----------------------------------------------------------------------------
(* The theorems.                                                           *)

LEMMA Invariance == Spec => []IInv
<1>1. Init => IInv
  BY InitInv
<1>2. IInv /\ [Next]_codeVars => IInv'
  BY Inductive
<1> QED
  BY <1>1, <1>2, PTL DEF Spec

(* Whatever is compiled, every cell of a chunk is an opcode or a byte: the *)
(* operands that emitBytes casts, and those that patchJump overwrites.     *)
(* There is a saved chunk for every function in progress.                  *)
THEOREM TypeCorrect == Spec => []TypeOK
<1>1. ASSUME IInv
      PROVE  TypeOK
  <2>1. Typed /\ Framed(enclosing, open)
    BY <1>1 DEF IInv, Typed
  <2>2. DOMAIN open = 1 .. Len(open)
    BY <2>1 DEF Framed
  <2>3. Len(enclosing) = Cardinality({i \in DOMAIN open : open[i].kind = "fn"})
    BY <2>1, <2>2 DEF Framed, Level, CountOf
  <2>4. loops \in Seq([breaks : SUBSET Nat, skips : SUBSET Nat])
    BY <2>1 DEF Typed, Loops
  <2>5. profile.left \in Nat
    BY <2>1 DEF Typed, Programs
  <2> QED
    BY <2>1, <2>3, <2>4, <2>5 DEF TypeOK, Typed, Framed
<1> QED
  BY <1>1, Invariance, PTL

LEMMA AllSound ==
  ASSUME IInv, LexicalJumps
  PROVE  /\ \A i \in DOMAIN functions : Sound(functions[i], {})
         /\ SomehowSound(chunk)
         /\ \A i \in DOMAIN enclosing : SomehowSound(enclosing[i])
         /\ phase = "compiled" => Sound(chunk, {})
<1>1. Typed /\ Structured
  BY DEF IInv
<1>2. \A i \in DOMAIN functions : Sound(functions[i], {})
  BY <1>1 DEF Structured
<1>3. ASSUME phase # "failed"
      PROVE  /\ SomehowSound(chunk) /\ \A i \in DOMAIN enclosing : SomehowSound(enclosing[i])
             /\ phase = "compiled" => Sound(chunk, {})
  <2>1. /\ Framed(enclosing, open) /\ Looped(loops, open) /\ open \in Seq(Frames) /\ open # <<>>
        /\ loops \in Seq(Loops) /\ enclosing \in Seq(Chunks)
    BY <1>1, <1>3 DEF Typed, Framed
  <2>2. Upper(chunk, loops, open) /\ Lower(enclosing, loops, open)
    BY <1>1, <1>3 DEF Structured
  <2>3. \A level : HolesAt(open, loops, level, Len(open)) \in SUBSET Nat
    <3>1. Len(open) \in 0 .. Len(open) /\ LoopOf(open, Len(open)) <= Len(loops)
      BY <2>1, FrameOf DEF Looped
    <3> QED
      BY <2>1, <3>1, HolesType
  <2>4. SomehowSound(chunk)
    BY <2>2, <2>3 DEF SomehowSound, Upper, SoundAt
  <2>5. ASSUME NEW i \in DOMAIN enclosing
        PROVE  SomehowSound(enclosing[i])
    <3>1. PICK level : level = i - 1
      OBVIOUS
    <3>2. level \in 0 .. Len(enclosing) - 1 /\ level + 1 = i
      BY <2>1, <3>1
    <3>3. SoundAt(enclosing[level + 1], loops, open, level)
      BY <2>2, <3>2 DEF Lower
    <3> QED
      BY <2>3, <3>2, <3>3 DEF SomehowSound, SoundAt
  <2>6. ASSUME phase = "compiled"
        PROVE  Sound(chunk, {})
    <3>1. Len(open) = 1 /\ open[1].kind = "script"
      BY <1>1, <2>1, <2>6 DEF Typed, Framed
    <3>2. HolesOf(open, loops, 1) = {}
      BY <3>1 DEF HolesOf, Branches
    <3>3. \A j \in 1 .. 1 : j = 1
      OBVIOUS
    <3>4. \A level : HolesAt(open, loops, level, 1) = {}
      BY <3>2, <3>3 DEF HolesAt
    <3>5. Sound(chunk, HolesAt(open, loops, Level(open, Len(open)), Len(open)))
      BY <2>2 DEF Upper, SoundAt
    <3> QED
      BY <3>1, <3>4, <3>5
  <2> QED
    BY <2>4, <2>5, <2>6
<1>4. ASSUME phase = "failed"
      PROVE  SomehowSound(chunk) /\ \A i \in DOMAIN enclosing : SomehowSound(enclosing[i])
  BY <1>1, <1>4 DEF Structured
<1> QED
  BY <1>2, <1>3, <1>4

LEMMA PooledDenotes ==
  ASSUME NEW ch, NEW H, Sound(ch, H)
  PROVE  IsInjective(ch.constants) /\ (Len(ch.constants) <= ByteSize => Denotes(ch))
<1>1. ch \in Chunks /\ IsInjective(ch.constants) /\ \A m \in ch.meaning : Names(ch, m)
  BY DEF Sound, Pooled
<1>2. ASSUME Len(ch.constants) <= ByteSize, NEW m \in ch.meaning, m[2][1] # "local"
      PROVE  ch.constants[ByteAt(ch, m[1] + 1) + 1] = m[2]
  <2>1. PICK i \in DOMAIN ch.constants :
          ch.constants[i] = m[2] /\ ByteAt(ch, m[1] + 1) = Byte(i - 1)
    BY <1>1, <1>2 DEF Names
  <2>2. PICK n : n = Len(ch.constants)
    OBVIOUS
  <2>3. n \in Nat /\ i \in 1 .. n /\ n <= ByteSize
    <3>1. ch.constants \in Seq(Constants)
      BY <1>1, ChunkType
    <3> QED
      BY <1>2, <2>2, <3>1
  <2>4. i - 1 \in 0 .. ByteSize - 1 /\ i - 1 + 1 = i
    BY <2>3, CodegenAssumption
  <2>5. Byte(i - 1) = i - 1
    BY <2>4, SmallByte
  <2> QED
    BY <2>1, <2>4, <2>5
<1>3. Len(ch.constants) <= ByteSize => Denotes(ch)
  BY <1>2 DEF Denotes
<1> QED
  BY <1>1, <1>3

(* makeConstant and addConstant: while no break or skip leaves a function, *)
(* no pool holds a constant twice, and an instruction's operand is the     *)
(* index of the constant its source names as long as the pool fits a byte: *)
(* no later patch and no later constant changes that.                      *)
THEOREM OperandsDenote ==
  ASSUME LexicalJumps
  PROVE  Spec => []ConstantsDenote
<1>1. ASSUME IInv
      PROVE  ConstantsDenote
  <2>1. ASSUME NEW ch \in {chunk} \cup ToSet(enclosing) \cup ToSet(functions)
        PROVE  SomehowSound(ch)
    <3>1. {} \in SUBSET Nat
      OBVIOUS
    <3>2. CASE ch = chunk
      BY <1>1, <3>2, AllSound
    <3>3. CASE ch \in ToSet(enclosing)
      BY <1>1, <3>3, AllSound DEF ToSet
    <3>4. CASE ch \in ToSet(functions)
      BY <1>1, <3>1, <3>4, AllSound DEF ToSet, SomehowSound
    <3> QED
      BY <3>2, <3>3, <3>4
  <2>2. ASSUME NEW ch \in {chunk} \cup ToSet(enclosing) \cup ToSet(functions)
        PROVE  IsInjective(ch.constants) /\ (Len(ch.constants) <= ByteSize => Denotes(ch))
    <3>1. PICK H \in SUBSET Nat : Sound(ch, H)
      BY <2>1 DEF SomehowSound
    <3> QED
      BY <3>1, PooledDenotes
  <2> QED
    BY <2>2 DEF ConstantsDenote
<1> QED
  BY <1>1, Invariance, PTL

(* patchJump, emitLoop and the loop stack: while no break or skip leaves a *)
(* function, every compiled function is a sequence of whole instructions   *)
(* whose jumps land on one of them, and in the chunks that are not done    *)
(* the other jumps are blank.                                              *)
THEOREM JumpsLandOnInstructions ==
  ASSUME LexicalJumps
  PROVE  Spec => []JumpsLand
<1>1. ASSUME IInv
      PROVE  JumpsLand
  <2>1. \A i \in DOMAIN functions : Lands(functions[i], TRUE)
    BY <1>1, AllSound, SoundLands
  <2>2. ASSUME NEW ch, SomehowSound(ch)
        PROVE  Lands(ch, FALSE)
    <3>1. PICK H \in SUBSET Nat : Sound(ch, H)
      BY <2>2 DEF SomehowSound
    <3> QED
      BY <3>1, SoundLands
  <2>3. \A i \in DOMAIN enclosing : Lands(enclosing[i], FALSE)
    BY <1>1, <2>2, AllSound
  <2>4. Lands(chunk, phase = "compiled")
    <3>1. CASE phase = "compiled"
      <4>1. Lands(chunk, TRUE)
        BY <1>1, <3>1, AllSound, SoundLands
      <4>2. (phase = "compiled") = TRUE
        BY <3>1
      <4> QED
        BY <4>1, <4>2
    <3>2. CASE phase # "compiled"
      <4>1. Lands(chunk, FALSE)
        BY <1>1, <2>2, AllSound
      <4>2. (phase = "compiled") = FALSE
        BY <3>2
      <4> QED
        BY <4>1, <4>2
    <3> QED
      BY <3>1, <3>2
  <2> QED
    BY <2>1, <2>3, <2>4 DEF JumpsLand
<1> QED
  BY <1>1, Invariance, PTL
=============================================================================
