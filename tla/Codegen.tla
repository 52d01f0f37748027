------------------------------ MODULE Codegen ------------------------------
(***************************************************************************)
(* The code generator of src/compiler/compiler.c with the loop stack of    *)
(* resolve_loop.c and the writing half of chunk.c.                         *)
(*                                                                         *)
(* compileStatement walks the syntax tree and calls itself.  The tree is   *)
(* chosen while it is walked: an action begins or ends one statement, and  *)
(* open is the stack of calls in progress, with the C variables that live  *)
(* across the inner calls (the offset of a jump to patch, the start of a   *)
(* loop).  compileExpr is a postorder walk, so an expression is given as   *)
(* the sequence of its nodes in that order.                                *)
(*                                                                         *)
(* Offsets count from 0 as in the code: the cell at offset o is            *)
(* code[o + 1].  A cell holds an opcode or an operand byte.                *)
(***************************************************************************)
EXTENDS Integers, Sequences, FiniteSets, SequencesExt

CONSTANTS ByteSize,      \* values of a byte, 256 in the code
          SlotSize,      \* ARRAY_STORE_SLOT_SIZE
          Global,        \* stands for the names of globals
          LexicalJumps,  \* bound: no break or skip leaves a function
          Orderly,       \* bound: locals come before the blocks beside them
          Profiles       \* bound: what the programs are made of

ASSUME CodegenAssumption ==
    /\ ByteSize \in Nat /\ ByteSize > 1 /\ SlotSize \in Nat \ {0}
    /\ {LexicalJumps, Orderly} \subseteq BOOLEAN
    /\ Profiles \subseteq [kinds : SUBSET STRING,     \* statements and expressions
                            numbers : SUBSET Nat,      \* number literals
                            arrays : SUBSET Nat,       \* lengths of array literals
                            locals : Nat,              \* locals of a block
                            depth : Nat,               \* statements in progress
                            left : Nat]                \* statements still to come

VARIABLES chunk,     \* compiler.compiling_chunk
          enclosing, \* the chunks saved while function bodies are compiled
          functions, \* the chunks of the functions compiled so far
          loops,     \* compiler.loops: sets of offsets to patch
          open,      \* calls of compileStatement in progress, innermost last
          symbols,   \* locals declared so far
          phase,     \* "compiling", "compiled" or "failed" (compile_error)
          profile    \* what the program is made of

codeVars == <<chunk, enclosing, functions, loops, open, symbols, phase, profile>>

ShortMax == ByteSize * ByteSize - 1
ByteUncut(n) == n    \* mutant: the operand keeps its width
Byte(n) == n % ByteSize


\* Opcodes and the number of operand bytes the virtual machine reads after
\* them; those of OP_CLOSURE depend on the second one.
Alone == {"OP_NIL", "OP_ADD", "OP_POP", "OP_PRINT", "OP_RETURN"}
WithOne == {"OP_CONST", "OP_LOAD_LOC", "OP_STORE_LOC", "OP_LOAD_GLOB",
            "OP_STORE_GLOB", "OP_DEFINE_GLOB", "OP_ARR", "OP_CALL"}
WithTwo == {"OP_JIF", "OP_JMP", "OP_LOOP", "OP_COLLECT", "OP_CLOSURE"}
Width == [op \in Alone \cup WithOne \cup WithTwo |->
            IF op \in Alone THEN 0 ELSE IF op \in WithOne THEN 1 ELSE 2]
Jumps == {"OP_JIF", "OP_JMP", "OP_LOOP"}

\* A chunk.  meaning is no part of the code: it notes for which constant or
\* local of the source the instruction at an offset was emitted.
EmptyChunk == [code |-> <<>>, constants |-> <<>>, meaning |-> {}]
Count(ch) == Len(ch.code)
-----------------------------------------------------------------------------
(* Emission.                                                                *)

\* emitBytes casts every operand to a byte.
Emit(ch, op, operands) ==
    [ch EXCEPT !.code = @ \o <<[op |-> op]>>
                          \o [i \in DOMAIN operands |-> [byte |-> Byte(operands[i])]]]
Means(ch, offset, what) == [ch EXCEPT !.meaning = @ \cup {<<offset, what>>}]

PlaceNew(ch, value) == Len(ch.constants)    \* mutant: nothing is looked up
\* addConstant: a value that is in the pool already is not added again.
Place(ch, value) == IF Contains(ch.constants, value)
                    THEN SelectInSeq(ch.constants, LAMBDA c : c = value) - 1
                    ELSE Len(ch.constants)
Pool(ch, value) == IF Place(ch, value) = Len(ch.constants)
                   THEN Append(ch.constants, value) ELSE ch.constants

\* makeConstant cuts the index to a byte before it tests for "Too many
\* constants in one chunk.", so the test never fails.
EmitConstant(ch, op, value) ==
    [Means(Emit(ch, op, <<Place(ch, value)>>), Count(ch), value)
        EXCEPT !.constants = Pool(ch, value)]

EmitSlot(ch, op, s) == Means(Emit(ch, op, <<s.slot>>), Count(ch), <<"local", s.id>>)

EmitJump(ch, op) == Emit(ch, op, <<ByteSize - 1, ByteSize - 1>>)
LastJump(ch) == Count(ch) - 2        \* what emitJump returns

DistanceFromJump(ch, offset) == Count(ch) - offset    \* mutant: from the opcode on
Distance(ch, offset) == Count(ch) - offset - 2
Reachable(ch, offsets) == \A offset \in offsets : Distance(ch, offset) <= ShortMax

\* patchJump for every offset of a set; one outside the code hits no cell of it.
PatchJumps(ch, offsets) ==
    [ch EXCEPT !.code =
        [i \in DOMAIN @ |->
            IF i - 1 \in offsets THEN [byte |-> Byte(Distance(ch, i - 1) \div ByteSize)]
            ELSE IF i - 2 \in offsets THEN [byte |-> Byte(Distance(ch, i - 2))]
            ELSE @[i]]]

LoopDistance(ch, start) == Count(ch) + 1 - start + 2
EmitLoop(ch, start) == LET d == LoopDistance(ch, start)
                       IN  Emit(ch, "OP_LOOP", <<d \div ByteSize, d>>)
-----------------------------------------------------------------------------
(* Expressions: nodes in postorder and what compileExpr emits for each.     *)

Node(type, arg) == [type |-> type, arg |-> arg]
Number(n) == <<"num", n>>
Name == <<"name", Global>>
Literal(n)  == Node("LITERAL_EXPR", Number(n))
GlobalVar   == Node("VAR_EXPR", Name)
SetGlobal   == Node("ASSIGN_GLOBAL", Name)
LocalVar(s) == Node("LOCAL_EXPR", s)
SetLocal(s) == Node("ASSIGN_LOCAL", s)
Plus        == Node("BINARY_EXPR", 0)

EmitNode(ch, n) ==
    CASE n.type = "LITERAL_EXPR"  -> EmitConstant(ch, "OP_CONST", n.arg)
      [] n.type = "VAR_EXPR"      -> EmitConstant(ch, "OP_LOAD_GLOB", n.arg)
      [] n.type = "ASSIGN_GLOBAL" -> EmitConstant(ch, "OP_STORE_GLOB", n.arg)
      [] n.type = "LOCAL_EXPR"    -> EmitSlot(ch, "OP_LOAD_LOC", n.arg)
      [] n.type = "ASSIGN_LOCAL"  -> EmitSlot(ch, "OP_STORE_LOC", n.arg)
      [] n.type = "BINARY_EXPR"   -> Emit(ch, "OP_ADD", <<>>)
      [] n.type = "CALL_EXPR"     -> Emit(ch, "OP_CALL", <<n.arg>>)
      [] n.type = "ARR_EXPR"      -> Emit(ch, "OP_ARR", <<n.arg>>)
      [] n.type = "COLLECT"       -> Emit(ch, "OP_COLLECT", n.arg)

EmitExpr(ch, e) ==
    LET emitted[n \in 0..Len(e)] == IF n = 0 THEN ch ELSE EmitNode(emitted[n - 1], e[n])
    IN  emitted[Len(e)]

\* {1, 2, ..., count}: the elements in batches of SlotSize.
BatchFull(count, b) == SlotSize    \* mutant: the last batch is not cut
Batch(count, b) == IF b * SlotSize <= count THEN SlotSize ELSE count % SlotSize
ArrayOf(count) ==
    LET elements(b) == [i \in 1..Batch(count, b) |-> Literal((b - 1) * SlotSize + i)]
        collect(b)  == <<Node("COLLECT", <<b - 1, Batch(count, b)>>)>>
        batches == (count + SlotSize - 1) \div SlotSize
        upTo[b \in 0..batches] == IF b = 0 THEN <<Node("ARR_EXPR", count)>>
                                  ELSE upTo[b - 1] \o elements(b) \o collect(b)
    IN  upTo[batches]
-----------------------------------------------------------------------------
(* Calls in progress.  The script, a block and the body of a function are   *)
(* lists of statements; the others wait for one statement.                  *)

\* at: the jump to patch; start: where the loop begins; base, size: the slots
\* the resolver gave to a block; locals: those declared; last: the latest
\* statement compiled in it, or "none".
Frame(kind) == [kind |-> kind, at |-> 0, start |-> 0, base |-> 0, size |-> 0,
                locals |-> <<>>, last |-> "none"]
Lists == {"script", "block", "fn"}

Top == open[Len(open)]
Below == Front(open)
InScript == enclosing = <<>>

\* The frames of the function being compiled, and its locals.
OwnOf(frames) == LET fn == {i \in DOMAIN frames : frames[i].kind \in {"script", "fn"}}
                 IN  SubSeq(frames, CHOOSE i \in fn : \A j \in fn : j <= i, Len(frames))
Own == OwnOf(open)
LocalsOf(frames) == UNION {ToSet(OwnOf(frames)[i].locals) : i \in DOMAIN OwnOf(frames)}
Visible == LocalsOf(open)
FreeSlot == LET lists == {i \in DOMAIN Own : Own[i].kind \in Lists}
                f == Own[CHOOSE i \in lists : \A j \in lists : j <= i]
            IN  f.base + f.size

\* The resolver gives slots to all locals of a block when it enters it.
AllDeclared == \A i \in DOMAIN Own : Len(Own[i].locals) = Own[i].size

CanBegin(kind) == /\ phase = "compiling"
                  /\ Top.kind \in Lists \/ Top.last = "none"
                  /\ kind \in profile.kinds /\ profile.left > 0
                  /\ profile' = [profile EXCEPT !.left = @ - 1]
CanNest(kind) == CanBegin(kind) /\ Len(open) < profile.depth
CanDeclare(kind) == /\ CanBegin(kind) /\ Top.kind \in Lists
                    /\ Top.kind = "script" \/ Len(Top.locals) < Top.size
CanEnd(kinds) == phase = "compiling" /\ Top.kind \in kinds /\ UNCHANGED profile

Completed(frames, statement) == [frames EXCEPT ![Len(frames)].last = statement]
Done(statement) == open' = Completed(open, statement)
Push(frame) == open' = Append(open, frame)

\* A declaration stores its value in the slot of its symbol; the script
\* declares globals.
NewSymbol(frame) == [id |-> symbols, slot |-> frame.base + Len(frame.locals)]
Declared(frames) ==
    LET frame == frames[Len(frames)]
        done == Completed(frames, "declaration")
    IN  IF frame.kind = "script" THEN done
        ELSE [done EXCEPT ![Len(frames)].locals = Append(@, NewSymbol(frame))]
SymbolsAfter(frame) == symbols + IF frame.kind = "script" THEN 0 ELSE 1

EmitNoStore(ch, s) == ch    \* mutant: the value is left where it was pushed
EmitStore(ch, s) == EmitSlot(ch, "OP_STORE_LOC", s)
EmitDeclare(ch, frame) == IF frame.kind = "script" THEN EmitConstant(ch, "OP_DEFINE_GLOB", Name)
                          ELSE EmitStore(ch, NewSymbol(frame))
-----------------------------------------------------------------------------
(* Statements.                                                              *)

Init == /\ chunk = EmptyChunk /\ enclosing = <<>> /\ functions = <<>>
        /\ loops = <<>> /\ open = <<Frame("script")>>
        /\ symbols = 0 /\ phase = "compiling" /\ profile \in Profiles

ExprStmt(e) ==
    /\ CanBegin("expr")
    /\ chunk' = Emit(EmitExpr(chunk, e), "OP_POP", <<>>)
    /\ Done("expression")
    /\ UNCHANGED <<enclosing, functions, loops, symbols, phase>>

PrintStmt(e) ==
    /\ CanBegin("print")
    /\ chunk' = Emit(EmitExpr(chunk, e), "OP_PRINT", <<>>)
    /\ Done("print")
    /\ UNCHANGED <<enclosing, functions, loops, symbols, phase>>

\* e is <<>> when there is no initialiser.
VarDecl(e) ==
    /\ CanDeclare("var")
    /\ chunk' = EmitDeclare(IF e = <<>> THEN Emit(chunk, "OP_NIL", <<>>)
                            ELSE EmitExpr(chunk, e), Top)
    /\ open' = Declared(open)
    /\ symbols' = SymbolsAfter(Top)
    /\ UNCHANGED <<enclosing, functions, loops, phase>>

Block(size) ==
    /\ CanNest("block")
    /\ Orderly /\ size > 0 => AllDeclared
    /\ Push([Frame("block") EXCEPT !.base = FreeSlot, !.size = size])
    /\ UNCHANGED <<chunk, enclosing, functions, loops, symbols, phase>>

\* No local is captured (see Resolver), so each is popped.
EmitPops(ch, frame) ==
    [ch EXCEPT !.code = @ \o [i \in DOMAIN frame.locals |-> [op |-> "OP_POP"]]]
EndBlock ==
    /\ CanEnd({"block"}) /\ Len(Top.locals) = Top.size
    /\ chunk' = EmitPops(chunk, Top)
    /\ open' = Completed(Below, "block")
    /\ UNCHANGED <<enclosing, functions, loops, symbols, phase>>

\* The body of a function is a block above its parameters.
FnDecl(arity, size) ==
    /\ CanDeclare("fun") /\ Len(open) < profile.depth
    /\ enclosing' = Append(enclosing, chunk)
    /\ chunk' = EmptyChunk
    /\ Push([Frame("fn") EXCEPT !.base = arity, !.size = size])
    /\ UNCHANGED <<functions, loops, symbols, phase>>

\* compiler.c 187 to 213, back in the enclosing function.
EmitClosing(ch) == LET pops == EmitPops(ch, Top)
                   IN  IF Top.last = "return" THEN pops
                       ELSE Emit(Emit(pops, "OP_NIL", <<>>), "OP_RETURN", <<>>)
EmitFunction(ch, upvalues) ==
    LET fn == <<"fn", Len(functions) + 1>>
        value == EmitConstant(ch, "OP_CONST", fn)
    IN  IF upvalues = <<>> THEN value
        ELSE Means([Emit(ch, "OP_CLOSURE", <<Place(ch, fn), Len(upvalues) \div 2>> \o upvalues)
                       EXCEPT !.constants = Pool(ch, fn)], Count(ch), fn)
EndFn(upvalues) ==
    /\ CanEnd({"fn"}) /\ Len(Top.locals) = Top.size
    /\ functions' = Append(functions, EmitClosing(chunk))
    /\ enclosing' = Front(enclosing)
    /\ chunk' = EmitDeclare(EmitFunction(enclosing[Len(enclosing)], upvalues), Below[Len(Below)])
    /\ open' = Declared(Below)
    /\ symbols' = SymbolsAfter(Below[Len(Below)])
    /\ UNCHANGED <<loops, phase>>

If(e) ==
    /\ CanNest("if")
    /\ LET ch == EmitJump(EmitExpr(chunk, e), "OP_JIF")
       IN  /\ chunk' = Emit(ch, "OP_POP", <<>>)
           /\ Push([Frame("then") EXCEPT !.at = LastJump(ch)])
    /\ UNCHANGED <<enclosing, functions, loops, symbols, phase>>

Else ==
    /\ CanEnd({"then"}) /\ Top.last # "none"
    /\ LET ch == EmitJump(chunk, "OP_JMP")
       IN  IF Reachable(ch, {Top.at})
           THEN /\ chunk' = Emit(PatchJumps(ch, {Top.at}), "OP_POP", <<>>)
                /\ open' = Append(Below, [Frame("else") EXCEPT !.at = LastJump(ch)])
                /\ UNCHANGED phase
           ELSE chunk' = ch /\ phase' = "failed" /\ UNCHANGED open
    /\ UNCHANGED <<enclosing, functions, loops, symbols>>

EmitEndIfPop(ch, at) == Emit(PatchJumps(ch, {at}), "OP_POP", <<>>)    \* mutant
EmitEndIf(ch, at) == PatchJumps(ch, {at})
EndIf ==
    /\ CanEnd({"then", "else"}) /\ Top.last # "none"
    /\ IF Reachable(chunk, {Top.at})
       THEN /\ chunk' = EmitEndIf(chunk, Top.at)
            /\ open' = Completed(Below, "if")
            /\ UNCHANGED phase
       ELSE phase' = "failed" /\ UNCHANGED <<chunk, open>>
    /\ UNCHANGED <<enclosing, functions, loops, symbols>>

While(e) ==
    /\ CanNest("while")
    /\ LET ch == EmitJump(EmitExpr(chunk, e), "OP_JIF")
       IN  /\ chunk' = Emit(ch, "OP_POP", <<>>)
           /\ Push([Frame("body") EXCEPT !.at = LastJump(ch), !.start = Count(chunk)])
    /\ loops' = Append(loops, [breaks |-> {}, skips |-> {}])
    /\ UNCHANGED <<enclosing, functions, symbols, phase>>

EmitLatchLate(ch, loop, increment) ==    \* mutant: a skip leaves out the increment
    PatchJumps(IF increment = <<>> THEN ch ELSE Emit(EmitExpr(ch, increment), "OP_POP", <<>>),
               loop.skips)
\* increment is <<>> or the expression of a for statement.
EmitLatch(ch, loop, increment) ==
    LET latch == PatchJumps(ch, loop.skips)
    IN  IF increment = <<>> THEN latch ELSE Emit(EmitExpr(latch, increment), "OP_POP", <<>>)
EndWhile(increment) ==
    /\ CanEnd({"body"}) /\ Top.last # "none"
    /\ LET loop == loops[Len(loops)]
           latch == EmitLatch(chunk, loop, increment)
           exit == EmitLoop(latch, Top.start)
           exits == loop.breaks \cup {Top.at}
       IN  IF /\ Reachable(chunk, loop.skips)
              /\ LoopDistance(latch, Top.start) <= ShortMax
              /\ Reachable(exit, exits)
           THEN /\ chunk' = PatchJumps(exit, exits)
                /\ open' = Completed(Below, "while")
                /\ UNCHANGED phase
           ELSE phase' = "failed" /\ UNCHANGED <<chunk, open>>
    /\ loops' = Front(loops)
    /\ UNCHANGED <<enclosing, functions, symbols>>

\* topLoop returns NULL without a loop and the program crashes there.
CanJump == /\ loops # <<>>
           /\ LexicalJumps => \E i \in DOMAIN Own : Own[i].kind = "body"
AddJump(list) == /\ chunk' = EmitJump(chunk, "OP_JMP")
                 /\ loops' = [loops EXCEPT ![Len(loops)][list] = @ \cup {LastJump(chunk')}]
                 /\ UNCHANGED <<enclosing, functions, symbols, phase>>
Break == CanBegin("break") /\ CanJump /\ AddJump("breaks") /\ Done("break")
Skip  == CanBegin("skip") /\ CanJump /\ AddJump("skips") /\ Done("skip")

Return(e) ==
    /\ CanBegin("return") /\ ~InScript
    /\ chunk' = Emit(IF e = <<>> THEN Emit(chunk, "OP_NIL", <<>>) ELSE EmitExpr(chunk, e),
                     "OP_RETURN", <<>>)
    /\ Done("return")
    /\ UNCHANGED <<enclosing, functions, loops, symbols, phase>>

\* compile() ends the script.
Finish ==
    /\ CanEnd({"script"})
    /\ chunk' = Emit(chunk, "OP_RETURN", <<>>)
    /\ phase' = "compiled"
    /\ UNCHANGED <<enclosing, functions, loops, open, symbols>>
-----------------------------------------------------------------------------
(* Bound: the expressions of the instance.                                  *)

Of(kind, expressions) == IF kind \in profile.kinds THEN expressions ELSE {}

Literals == {<<Literal(n)>> : n \in profile.numbers}
Optional == {<<>>} \cup Literals
Conditions == {<<GlobalVar>>}
Effects == Of("set global", {v \o <<SetGlobal>> : v \in Literals})
      \cup Of("set local", UNION {{v \o <<SetLocal(s)>> : v \in Literals} : s \in Visible})
      \cup Of("call", {<<GlobalVar>> \o v \o <<Node("CALL_EXPR", 1)>> : v \in Literals})
Printed == Of("sum", UNION {{v \o <<LocalVar(s), Plus>> : v \in Literals} : s \in Visible})
      \cup {ArrayOf(n) : n \in profile.arrays}
Increments == {<<>>} \cup Of("for", {v \o <<SetGlobal>> : v \in Literals})
Upvalues == {<<>>} \cup IF Len(enclosing) > 1 THEN {<<0, 0>>} ELSE {}
Sizes == 0..profile.locals

Next == \/ \E e \in Effects : ExprStmt(e)
        \/ \E e \in Printed : PrintStmt(e)
        \/ \E e \in Optional : VarDecl(e) \/ Return(e)
        \/ \E n \in Sizes : Block(n)
        \/ EndBlock
        \/ \E arity \in 0..1, n \in Sizes : FnDecl(arity, n)
        \/ \E u \in Upvalues : EndFn(u)
        \/ \E e \in Conditions : If(e) \/ While(e)
        \/ Else \/ EndIf
        \/ \E e \in Increments : EndWhile(e)
        \/ Break \/ Skip \/ Finish

Spec == Init /\ [][Next]_codeVars
-----------------------------------------------------------------------------
(* Properties.                                                              *)

Cells == [op : DOMAIN Width] \cup [byte : 0..ByteSize - 1]
Constants == ({"num"} \X Nat) \cup ({"name"} \X {Global}) \cup ({"fn"} \X Nat)
Chunks == [code : Seq(Cells), constants : Seq(Constants),
           meaning : SUBSET (Nat \X (Constants \cup ({"local"} \X Nat)))]
Symbols == [id : Nat, slot : Nat]
Frames == [kind : Lists \cup {"then", "else", "body"}, at : Nat, start : Nat,
           base : Nat, size : Nat, locals : Seq(Symbols),
           last : {"none", "expression", "print", "declaration", "block", "if",
                   "while", "break", "skip", "return"}]

(* Every cell of a chunk is an opcode or a byte, whatever was cast to it,   *)
(* and there is a saved chunk for every function in progress.               *)
TypeOK == /\ chunk \in Chunks
          /\ enclosing \in Seq(Chunks) /\ functions \in Seq(Chunks)
          /\ loops \in Seq([breaks : SUBSET Nat, skips : SUBSET Nat])
          /\ open \in Seq(Frames) /\ open # <<>>
          /\ symbols \in Nat
          /\ phase \in {"compiling", "compiled", "failed"} /\ profile.left \in Nat
          /\ Len(enclosing) = Cardinality({i \in DOMAIN open : open[i].kind = "fn"})

IsOp(cell) == "op" \in DOMAIN cell
ByteAt(ch, o) == ch.code[o + 1].byte
OperandsAt(ch, o) == LET op == ch.code[o + 1].op
                     IN  IF op = "OP_CLOSURE" THEN 2 + 2 * ByteAt(ch, o + 2) ELSE Width[op]

\* Where the instructions begin when the code is read from its first byte on.
Following(ch, o) == o + 1 + OperandsAt(ch, o)
Starts(ch) ==
    LET before[n \in 0..Count(ch)] ==
            IF n = 0 THEN {0}
            ELSE LET starts == before[n - 1]
                 IN  starts \cup {Following(ch, o) : o \in {o \in starts : o = n - 1 /\ IsOp(ch.code[n])}}
    IN  before[Count(ch)]
Short(ch, o) == ByteAt(ch, o) * ByteSize + ByteAt(ch, o + 1)
Target(ch, o) == IF ch.code[o + 1].op = "OP_LOOP" THEN o + 3 - Short(ch, o + 1)
                 ELSE o + 3 + Short(ch, o + 1)

Lands(ch, complete) ==
    LET starts == Starts(ch)
    IN  /\ Count(ch) \in starts
        /\ \A o \in starts \ {Count(ch)} :
              /\ IsOp(ch.code[o + 1])
              /\ ch.code[o + 1].op \in Jumps =>
                    \/ Target(ch, o) \in starts \ {o}
                    \/ ~complete /\ Short(ch, o + 1) = ShortMax

(* Read from its first byte on, a chunk is a sequence of whole              *)
(* instructions, and every jump lands on one of them: patchJump writes to   *)
(* offsets noted long before, in a chunk that must still be the one they    *)
(* were noted in.  Only while a function is compiled may jumps be blank.    *)
JumpsLand == phase # "failed" =>
                /\ \A i \in DOMAIN functions : Lands(functions[i], TRUE)
                /\ \A i \in DOMAIN enclosing : Lands(enclosing[i], FALSE)
                /\ Lands(chunk, phase = "compiled")

(* No constant stands twice in a pool ("addConstant never adds identical    *)
(* values", README.md:10), and while the pool fits a byte an instruction's  *)
(* operand is the index of the constant its source names.                   *)
Denotes(ch) == \A m \in ch.meaning : m[2][1] # "local" =>
                  ch.constants[ByteAt(ch, m[1] + 1) + 1] = m[2]
ConstantsDenote ==
    \A ch \in {chunk} \cup ToSet(enclosing) \cup ToSet(functions) :
        /\ IsInjective(ch.constants)
        /\ Len(ch.constants) <= ByteSize => Denotes(ch)
=============================================================================
