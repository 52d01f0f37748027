------------------------------ MODULE CodeRun ------------------------------
(***************************************************************************)
(* Compile and run: the chunk that Codegen emits for a script is executed  *)
(* with the instructions of runVM, and compared with the program it was    *)
(* emitted for.  The control flow of that program is kept beside the code  *)
(* as an abstract Flow; a point is <<offset, locals alive there>>.         *)
(*                                                                         *)
(* Values that the properties do not tell apart are <<"unknown">>: those   *)
(* of globals, of calls and of sums.  A call is one step (see VM for what  *)
(* it does), and every condition may be true or false.                     *)
(***************************************************************************)
EXTENDS Codegen, Flow

CONSTANTS StackBound,   \* bound: cells of the stack
          MaxLeft       \* bound: values that earlier lines left on the stack

\* What earlier lines left lies on the same stack.
ASSUME CodeRunAssumption == StackBound \in Nat /\ MaxLeft \in 0..StackBound

VARIABLES flow,    \* the control flow of the script
          pc,      \* vm->frame->ip, an offset; Halted at the end
          cells,   \* the stack, frame->slots = 0
          top,     \* vm->stack_top
          held,    \* the value last stored to each local
          trail    \* the exit taken last

runVars == <<pc, cells, top, held, trail>>
vars == <<chunk, enclosing, functions, loops, open, symbols, phase, profile,
          flow, pc, cells, top, held, trail>>

Halted == -1
Unknown == <<"unknown">>
Nil == <<"nil">>
Origin == <<-1, 0>>

Here == <<Count(chunk), Cardinality(Visible)>>
Note(f) == flow' = IF InScript THEN f ELSE flow
-----------------------------------------------------------------------------
(* Compilation, with the flow of the program.                               *)

Simple == \/ \E e \in Effects : ExprStmt(e)
          \/ \E e \in Printed : PrintStmt(e)
          \/ \E e \in Optional : VarDecl(e) \/ Return(e)

Nested == \/ \E n \in Sizes : Block(n)
          \/ EndBlock
          \/ \E arity \in 0..1, n \in Sizes : FnDecl(arity, n)

Compile ==
    \/ Simple /\ Note(Point(flow, Here))
    \/ Nested /\ UNCHANGED flow
    \/ /\ \E u \in Upvalues : EndFn(u)
       /\ flow' = IF Len(enclosing) > 1 THEN flow
                  ELSE Point(flow, <<Count(enclosing[1]), Cardinality(LocalsOf(Below))>>)
    \/ \E e \in Conditions : If(e) /\ Note(OpenIf(flow, Here))
    \/ Else /\ Note(ElseIf(flow))
    \/ EndIf /\ Note(CloseIf(flow))
    \/ \E e \in Conditions : While(e) /\ Note(OpenWhile(flow, Here))
    \/ \E e \in Increments :
          EndWhile(e) /\ Note(CloseWhile(flow, IF e = <<>> THEN {} ELSE {Here}))
    \/ Break /\ Note(BreakOut(flow, Here))
    \/ Skip /\ Note(SkipOn(flow, Here))

\* The values an earlier line left on the stack are below those of this one.
Load == /\ Finish /\ flow' = Point(flow, Here)
        /\ pc' = 0 /\ top' \in 0..MaxLeft
        /\ UNCHANGED <<cells, held, trail>>
-----------------------------------------------------------------------------
(* runVM, for the instructions of a script.                                 *)

Running == phase = "compiled" /\ pc \in 0..Count(chunk) - 1
At(op) == Running /\ chunk.code[pc + 1] = [op |-> op]
Operand(i) == ByteAt(chunk, pc + i)
Meaning == (CHOOSE m \in chunk.meaning : m[1] = pc)[2]

Peek(distance) == cells[top - 1 - distance]
PushValue(v) == top < StackBound /\ cells' = [cells EXCEPT ![top] = v] /\ top' = top + 1
Replace(n, v) == cells' = [cells EXCEPT ![top - n] = v] /\ top' = top - n + 1
PopValue == top' = top - 1 /\ UNCHANGED cells
Overwritten(f, g) == [i \in DOMAIN f \cup DOMAIN g |-> IF i \in DOMAIN g THEN g[i] ELSE f[i]]

\* The point just executed, with its outcome once it is known.
GoTo(target, outcome) ==
    LET here == {p \in flow.points : p[1] = pc}
    IN  /\ pc' = target
        /\ trail' = IF outcome # "any" THEN Exit(trail[1], outcome)
                    ELSE IF here = {} THEN trail ELSE Exit(CHOOSE p \in here : TRUE, "any")
Continue == GoTo(pc + 1 + OperandsAt(chunk, pc), "any")

Constant == /\ At("OP_CONST") \/ At("OP_CLOSURE")
            /\ PushValue(chunk.constants[Operand(1) + 1])
            /\ Continue /\ UNCHANGED held
PushNil == At("OP_NIL") /\ PushValue(Nil) /\ Continue /\ UNCHANGED held
LoadGlobal == At("OP_LOAD_GLOB") /\ PushValue(Unknown) /\ Continue /\ UNCHANGED held
StoreGlobal == At("OP_STORE_GLOB") /\ Continue /\ UNCHANGED <<cells, top, held>>
Pop == /\ At("OP_POP") \/ At("OP_PRINT") \/ At("OP_DEFINE_GLOB")
       /\ PopValue /\ Continue /\ UNCHANGED held
Add == At("OP_ADD") /\ Replace(2, Unknown) /\ Continue /\ UNCHANGED held
CallValue == At("OP_CALL") /\ Replace(Operand(1) + 1, Unknown) /\ Continue /\ UNCHANGED held
LoadLocal == At("OP_LOAD_LOC") /\ PushValue(cells[Operand(1)]) /\ Continue /\ UNCHANGED held
StoreLocal == /\ At("OP_STORE_LOC")
              /\ cells' = [cells EXCEPT ![Operand(1)] = Peek(0)]
              /\ held' = Overwritten(held, [local \in {Meaning[2]} |-> Peek(0)])
              /\ Continue /\ UNCHANGED top

\* An array is its length and its elements, those not collected left out.
MakeArray == At("OP_ARR") /\ PushValue(<<"array", Operand(1), <<>> >>) /\ Continue /\ UNCHANGED held
Collect ==
    /\ At("OP_COLLECT")
    /\ LET batch == Operand(1)
           size == Operand(2)
           array == Peek(size)
           part == [i \in {batch * SlotSize + j : j \in 1..size} |->
                       Peek(size - (i - batch * SlotSize))]
       IN  /\ size <= array[2]    \* the test of the code, on the index in the batch
           /\ cells' = [cells EXCEPT ![top - 1 - size] =
                           <<"array", array[2], Overwritten(array[3], part)>>]
           /\ top' = top - size
    /\ Continue /\ UNCHANGED held

JumpIfFalse == /\ At("OP_JIF")
               /\ \/ GoTo(Target(chunk, pc), "false")
                  \/ GoTo(pc + 3, "true")
               /\ UNCHANGED <<cells, top, held>>
JumpAlways == /\ At("OP_JMP") \/ At("OP_LOOP")
              /\ GoTo(Target(chunk, pc), "any") /\ UNCHANGED <<cells, top, held>>
Halt == At("OP_RETURN") /\ GoTo(Halted, "any") /\ UNCHANGED <<cells, top, held>>

Step == \/ Constant \/ PushNil \/ LoadGlobal \/ StoreGlobal \/ Pop \/ Add \/ CallValue
        \/ LoadLocal \/ StoreLocal \/ MakeArray \/ Collect
        \/ JumpIfFalse \/ JumpAlways \/ Halt
-----------------------------------------------------------------------------
RunInit == /\ Init
           /\ flow = EmptyFlow(Origin) /\ trail = Exit(Origin, "any")
           /\ pc = Halted /\ top = 0 /\ held = <<>>
           /\ cells = [i \in 0..StackBound - 1 |-> Unknown]

RunNext == \/ Compile /\ UNCHANGED runVars
           \/ Load
           \/ Step /\ UNCHANGED <<codeVars, flow>>

RunSpec == RunInit /\ [][RunNext]_vars
-----------------------------------------------------------------------------
(* Properties.                                                              *)

(* Execution goes from statement to statement as the structured program     *)
(* says: each branch on its outcome, a skip to the increment and then the   *)
(* condition, a break behind the loop, whatever blocks lie between.         *)
FlowFollowed ==
    [][\A p \in flow.points : pc' = p[1] /\ pc' # pc /\ Running => <<trail', p>> \in flow.edges]_vars

(* A statement begins with a cell on the stack for every local alive there, *)
(* on every path that leads to it: false conditions and jumps out of blocks *)
(* leave values behind but never take one too many.                         *)
StackCovers == Running => \A p \in flow.points : pc = p[1] => top >= p[2]

(* A local that is read was stored before and holds the value stored last:  *)
(* neither a value pushed in between nor another local took its cell,       *)
(* however much was left on the stack.                                      *)
LocalsKept == At("OP_LOAD_LOC") => /\ Meaning[2] \in DOMAIN held
                                   /\ cells[Operand(1)] = held[Meaning[2]]

(* The batches of a literal put every element at its place in the array,    *)
(* and none outside.                                                        *)
ArraysFilled == At("OP_PRINT") /\ Peek(0)[1] = "array" =>
                   LET array == Peek(0)
                   IN  array[3] = [i \in 1..array[2] |-> Number(i)]
=============================================================================
