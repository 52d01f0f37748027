--------------------------------- MODULE VM ---------------------------------
(***************************************************************************)
(* The virtual machine of vm.c and function.c: the value stack, the call   *)
(* frames, the globals, the closures and the upvalues through which they   *)
(* share variables.                                                        *)
(*                                                                         *)
(* A captured variable lives in its stack cell while the frame that owns   *)
(* it runs; an upvalue refers to the cell.  When the cell dies, the value  *)
(* moves into the upvalue.  vm->upvalues lists the open upvalues from the  *)
(* highest cell to the lowest, and both the search for a cell and the end  *)
(* of a frame rely on that order.                                          *)
(*                                                                         *)
(* There is one action per group of instructions with the same effect, its *)
(* operands being parameters; which instruction comes next is left open.   *)
(* The interpreter loop leaves some things to the code it runs without     *)
(* checking them; they are the contract of section "Compiled code".        *)
(* Control transfers only move ip and are not modelled here.               *)
(*                                                                         *)
(* Cells are numbered from 1.  The stack is the sequence of cells below    *)
(* stack_top, so a cell the code pops is gone.                             *)
(***************************************************************************)
EXTENDS Integers, Sequences, FiniteSets

CONSTANTS Numbers,    \* number values
          Others,     \* nil, booleans and strings
          Fns,        \* functions: the prototypes in the constant pools
          Natives,    \* native functions
          Script,     \* stands for the script in the first frame
          Closures,   \* closure objects
          UpValues,   \* upvalue objects
          Globals,    \* names of globals
          Builtin,    \* Builtin[x]: the native initVM defines as x, or NULL
          NULL,
          Arity,      \* Arity[f]: parameters of function or native f
          Captures,   \* Captures[f]: the (type, index) pairs after OP_CLOSURE f
          Parent,     \* Parent[f]: the function whose code declares f
          FrameMax,   \* FRAME_MAX
          StackBound  \* bound: states with more cells are not explored

Data == Numbers \cup Others
Callables == Fns \cup Natives \cup Closures
Value == Data \cup Callables
Code == Fns \cup {Script}

(* An operand pair of OP_CLOSURE: a slot of the running frame, or an index *)
(* into the upvalues of the running closure.                               *)
Capture == [type : {"UVAL_LOC", "UVAL_UVAL"}, index : Nat]

(* The objects OBJ_CLOSURE and OBJ_UPVALUE; ref is the cell of an open      *)
(* upvalue.                                                                *)
ClosureObject == [prototype : Fns, upvalues : Seq(UpValues)]
UpValueObject == [ref : Nat \ {0}, value : {NULL}] \cup [ref : {NULL}, value : Value]

(* The types of values and objects can be told apart.                      *)
ASSUME ValueAssumption ==
  /\ Numbers # {}
  /\ LET kinds == <<Numbers, Others, Fns, Natives, Closures, UpValues, {Script}>>
     IN  \A i, j \in DOMAIN kinds : i # j => kinds[i] \cap kinds[j] = {}
  /\ NULL \notin Value \cup UpValues \cup {Script} \cup Nat
  /\ NULL \notin ClosureObject \cup UpValueObject

ASSUME CodeAssumption ==
  /\ Arity \in [Fns \cup Natives -> Nat]
  /\ Captures \in [Fns -> Seq(Capture)]
  /\ Parent \in [Fns -> Code]
  /\ Builtin \in [Globals -> Natives \cup {NULL}]
  /\ \A f \in Fns : \A i \in DOMAIN Captures[f] :
        Captures[f][i].type = "UVAL_UVAL" =>
          Parent[f] # Script /\ Captures[f][i].index \in 1 .. Len(Captures[Parent[f]])

ASSUME BoundAssumption == FrameMax \in Nat \ {0} /\ StackBound \in Nat

VARIABLES stack,     \* the cells below stack_top
          frames,    \* call_frames[0 .. frame_count-1]
          globals,   \* the table of globals, NULL for a name not in it
          closure,   \* closure[c]: the object c, NULL if not allocated
          upvalue,   \* upvalue[u]: the object u, NULL if not allocated
          open,      \* vm->upvalues
          building,  \* the closure OP_CLOSURE is filling, or NULL
          status,    \* "running", "done", or the error that ended the run
          op         \* the last instruction, if it loads or stores a variable

vars == <<stack, frames, globals, closure, upvalue, open, building, status, op>>
heap == <<closure, upvalue, open>>

(* The op of any other instruction.                                        *)
Other == <<"OTHER", 0>>

Init == /\ stack = <<>>
        /\ frames = <<[fn |-> Script, slots |-> 1]>>
        /\ globals = Builtin
        /\ closure = [c \in Closures |-> NULL]
        /\ upvalue = [u \in UpValues |-> NULL]
        /\ open = <<>> /\ building = NULL
        /\ status = "running" /\ op = Other
-----------------------------------------------------------------------------
Top == Len(stack)
Peek(d) == stack[Top - d]
Drop(n) == SubSeq(stack, 1, Top - n)
Frame == frames[Len(frames)]
Prototype(fn) == IF fn \in Closures THEN closure[fn].prototype ELSE fn
Running == status = "running" /\ building = NULL
Continue == status' = "running" /\ building' = NULL

(* Compiled code: the contract of the compiler with the VM.  Instructions  *)
(* work on the cells of their frame: operands are temporaries or dying     *)
(* locals above the parameters, a slot is that of a live local, and a      *)
(* captured local is popped by OP_CLOSE_UVAL and by nothing else.          *)
Captured(a) == \E i \in DOMAIN open : upvalue[open[i]].ref = a
Parameters(fn) == IF fn = Script THEN 0 ELSE Arity[Prototype(fn)]
Cells(n) == Top - n >= Frame.slots + Parameters(Frame.fn) - 1
Operands(n) == Cells(n) /\ \A a \in Top - n + 1 .. Top : ~Captured(a)
Slots == 0 .. Top - Frame.slots
UpvalueIndices == IF Frame.fn = Script THEN {} ELSE DOMAIN Captures[Prototype(Frame.fn)]
Declares(f) == /\ Parent[f] = Prototype(Frame.fn)
               /\ \A i \in DOMAIN Captures[f] :
                     Captures[f][i].type = "UVAL_LOC" => Captures[f][i].index \in Slots

(* runtimeError: the stack and the frames are reset, the list of open      *)
(* upvalues is not.                                                        *)
Abort(reason) == /\ status' = reason
                 /\ stack' = <<>>
                 /\ frames' = SubSeq(frames, 1, 1)
                 /\ building' = NULL
                 /\ UNCHANGED heap
Fail(reason) == Abort(reason) /\ UNCHANGED globals

(* n operands are replaced by a value.                                     *)
Replace(n, v) == /\ Top - n < StackBound
                 /\ stack' = Append(Drop(n), v)
-----------------------------------------------------------------------------
(* getUpValue and setUpValue.                                              *)
GetUpValue(u) == IF upvalue[u].ref # NULL THEN stack[upvalue[u].ref] ELSE upvalue[u].value

SetUpValue(u, v) ==
  IF upvalue[u].ref # NULL
  THEN stack' = [stack EXCEPT ![upvalue[u].ref] = v] /\ UNCHANGED upvalue
  ELSE upvalue' = [upvalue EXCEPT ![u].value = v] /\ UNCHANGED stack

PositionHead(a) == 1   \* mutant: each node is put in front

(* Where the walk over vm->upvalues stops for cell a: at the first node    *)
(* that is not above it.                                                   *)
Position(a) == CHOOSE i \in 1 .. Len(open) + 1 :
                 /\ i <= Len(open) => upvalue[open[i]].ref <= a
                 /\ \A j \in 1 .. i - 1 : upvalue[open[j]].ref > a

(* Does the walk end at an open upvalue of cell a?                         *)
IsNeverOpenAt(a) == FALSE   \* mutant: no upvalue is shared
IsOpenAt(a) == Position(a) <= Len(open) /\ upvalue[open[Position(a)]].ref = a

(* closeUpValue on each of the upvalues us; the mutant takes the value     *)
(* from the top of the stack.                                              *)
CloseAllAtTop(us) == upvalue' = [u \in UpValues |->
                                   IF u \in us THEN [ref |-> NULL, value |-> Peek(0)]
                                               ELSE upvalue[u]]
CloseAll(us) == upvalue' = [u \in UpValues |->
                              IF u \in us THEN [ref |-> NULL, value |-> stack[upvalue[u].ref]]
                                          ELSE upvalue[u]]
-----------------------------------------------------------------------------
(* OP_CONST, OP_TRUE, OP_FALSE, OP_NIL.                                    *)
PushConst(v) ==
  /\ Running /\ Replace(0, v)
  /\ op' = Other
  /\ UNCHANGED <<frames, globals, heap, building, status>>

(* The operators that take numbers only; v is the result.                  *)
NumberOp(n, v) ==
  /\ Running /\ Operands(n)
  /\ op' = Other
  /\ IF \A d \in 0 .. n - 1 : Peek(d) \in Numbers
     THEN Replace(n, v) /\ Continue /\ UNCHANGED <<frames, globals, heap>>
     ELSE Fail("operands")

(* The operators that take any value.                                      *)
AnyOp(n, v) ==
  /\ Running /\ Operands(n) /\ Replace(n, v)
  /\ op' = Other
  /\ UNCHANGED <<frames, globals, heap, building, status>>

(* OP_POP and OP_PRINT.                                                    *)
Pop ==
  /\ Running /\ Operands(1)
  /\ stack' = Drop(1)
  /\ op' = Other
  /\ UNCHANGED <<frames, globals, heap, building, status>>

DefineGlobal(g) ==
  /\ Running /\ Operands(1)
  /\ globals' = [globals EXCEPT ![g] = Peek(0)]
  /\ stack' = Drop(1)
  /\ op' = Other
  /\ UNCHANGED <<frames, heap, building, status>>

LoadGlobal(g) ==
  /\ Running
  /\ op' = Other
  /\ IF globals[g] = NULL
     THEN Fail("unknown variable")
     ELSE Replace(0, globals[g]) /\ Continue /\ UNCHANGED <<frames, globals, heap>>

Deleted(table, g) == [table EXCEPT ![g] = NULL]

(* The value is stored first; when tableSet says that the key was new, the *)
(* pair it made is deleted again and the program stops.                    *)
StoreGlobal(g) ==
  /\ Running /\ Operands(1)
  /\ op' = Other
  /\ LET set == [globals EXCEPT ![g] = Peek(0)]
     IN  IF globals[g] = NULL
         THEN Abort("unknown variable") /\ globals' = Deleted(set, g)
         ELSE globals' = set /\ Continue /\ UNCHANGED <<stack, frames, heap>>

LoadLocal(slot) ==
  /\ Running /\ Replace(0, stack[Frame.slots + slot])
  /\ op' = <<"LOAD_LOC", slot>>
  /\ UNCHANGED <<frames, globals, heap, building, status>>

StoreLocal(slot) ==
  /\ Running
  /\ stack' = [stack EXCEPT ![Frame.slots + slot] = Peek(0)]
  /\ op' = <<"STORE_LOC", slot>>
  /\ UNCHANGED <<frames, globals, heap, building, status>>

(* The two checks OP_LOAD_UVAL and OP_STORE_UVAL make on their operand.    *)
HasUpvalue(i) == Frame.fn \in Closures /\ i <= Len(closure[Frame.fn].upvalues)

LoadUpvalue(i) ==
  /\ Running
  /\ op' = <<"LOAD_UVAL", i>>
  /\ IF HasUpvalue(i)
     THEN /\ Replace(0, GetUpValue(closure[Frame.fn].upvalues[i]))
          /\ Continue /\ UNCHANGED <<frames, globals, heap>>
     ELSE Fail("upvalue")

StoreUpvalue(i) ==
  /\ Running /\ Cells(1)
  /\ op' = <<"STORE_UVAL", i>>
  /\ IF HasUpvalue(i)
     THEN /\ SetUpValue(closure[Frame.fn].upvalues[i], Peek(0))
          /\ Continue /\ UNCHANGED <<frames, globals, closure, open>>
     ELSE Fail("upvalue")
-----------------------------------------------------------------------------
(* OP_CLOSURE is emitted only for a function with upvalues; a function     *)
(* without is pushed as the constant it is.                                *)
PushFunction(f) ==
  /\ Running /\ Captures[f] = <<>>
  /\ Replace(0, f)
  /\ op' = Other
  /\ UNCHANGED <<frames, globals, heap, building, status>>

(* OP_CLOSURE up to its loop: newClosure.                                  *)
BeginClosure(f) ==
  /\ Running /\ Captures[f] # <<>>
  /\ Top < StackBound
  /\ \E c \in Closures :
        /\ closure[c] = NULL
        /\ closure' = [closure EXCEPT ![c] = [prototype |-> f, upvalues |-> <<>>]]
        /\ building' = c
  /\ op' = Other
  /\ UNCHANGED <<stack, frames, globals, upvalue, open, status>>

AddUpvalue(u) == closure' = [closure EXCEPT ![building].upvalues = Append(@, u)]

(* The pair the loop of OP_CLOSURE reads next.                             *)
NextIndex == Len(closure[building].upvalues) + 1
UnfinishedButLast == /\ building # NULL   \* mutant: the loop ends one pair early
                     /\ NextIndex < Len(Captures[closure[building].prototype])
Unfinished == building # NULL /\ NextIndex <= Len(Captures[closure[building].prototype])
NextCapture == Captures[closure[building].prototype][NextIndex]

(* vmCaptureValue: an open upvalue of the cell is shared, otherwise a new  *)
(* one enters the list at its place.                                       *)
CaptureLocal ==
  /\ Unfinished /\ NextCapture.type = "UVAL_LOC"
  /\ LET a == Frame.slots + NextCapture.index
         i == Position(a)
     IN  IF IsOpenAt(a)
         THEN AddUpvalue(open[i]) /\ UNCHANGED <<upvalue, open>>
         ELSE \E u \in UpValues :
                /\ upvalue[u] = NULL
                /\ upvalue' = [upvalue EXCEPT ![u] = [ref |-> a, value |-> NULL]]
                /\ open' = SubSeq(open, 1, i - 1) \o <<u>> \o SubSeq(open, i, Len(open))
                /\ AddUpvalue(u)
  /\ UNCHANGED <<stack, frames, globals, building, status, op>>

(* An upvalue of the running closure is passed on.                         *)
CaptureUpvalue ==
  /\ Unfinished /\ NextCapture.type = "UVAL_UVAL"
  /\ IF Frame.fn \in Closures
     THEN /\ AddUpvalue(closure[Frame.fn].upvalues[NextCapture.index])
          /\ UNCHANGED <<stack, frames, globals, upvalue, open, building, status>>
     ELSE Fail("upvalue")
  /\ UNCHANGED op

BuiltPrototype == closure[building].prototype   \* mutant: the bare function
Built == building

(* The end of the loop of OP_CLOSURE.                                      *)
EndClosure ==
  /\ building # NULL /\ ~Unfinished
  /\ Replace(0, Built)
  /\ building' = NULL
  /\ UNCHANGED <<frames, globals, heap, status, op>>

(* OP_CLOSE_UVAL: vmCloseUpValue on the top cell, then a pop.              *)
CloseUpvalue ==
  /\ Running /\ Cells(1)
  /\ IF IsOpenAt(Top)
     THEN /\ CloseAll({open[Position(Top)]})
          /\ open' = SubSeq(open, 1, Position(Top) - 1)
                       \o SubSeq(open, Position(Top) + 1, Len(open))
     ELSE UNCHANGED <<upvalue, open>>
  /\ stack' = Drop(1)
  /\ op' = Other
  /\ UNCHANGED <<frames, globals, closure, building, status>>
-----------------------------------------------------------------------------
FramesFullLate == Len(frames) > FrameMax   \* mutant: one frame too many
FramesFull == Len(frames) = FrameMax

FirstSlotCallee(argc) == Top - argc   \* mutant: slot 0 is the callee
FirstSlot(argc) == Top - argc + 1

(* OP_CALL.  The callee is checked, then its arity, then the frames; a     *)
(* native runs to its end, any other callee gets a frame.                  *)
Call(argc) ==
  /\ Running /\ Operands(argc + 1)
  /\ op' = Other
  /\ LET fn == Peek(argc)
     IN  CASE fn \notin Callables -> Fail("not callable")
           [] fn \in Callables /\ Arity[Prototype(fn)] # argc -> Fail("arity")
           [] fn \in Callables /\ Arity[Prototype(fn)] = argc /\ FramesFull
                -> Fail("stack overflow")
           [] OTHER ->
                \/ /\ fn \in Natives
                   /\ \/ Fail("native")
                      \/ \E v \in Data : Replace(argc + 1, v)
                                         /\ Continue /\ UNCHANGED <<frames, globals, heap>>
                \/ /\ fn \notin Natives
                   /\ frames' = Append(frames, [fn |-> fn, slots |-> FirstSlot(argc)])
                   /\ Continue /\ UNCHANGED <<stack, globals, heap>>

(* Mutant: vmCloseCallFrame spares slot 0.                                 *)
DyingAboveFirst == CHOOSE n \in 0 .. Len(open) :
                     /\ \A i \in 1 .. n : upvalue[open[i]].ref > Frame.slots
                     /\ n < Len(open) => upvalue[open[n + 1]].ref <= Frame.slots

(* How many upvalues vmCloseCallFrame closes: the leading nodes of the     *)
(* list that refer to cells of the frame.                                  *)
Dying == CHOOSE n \in 0 .. Len(open) :
           /\ \A i \in 1 .. n : upvalue[open[i]].ref >= Frame.slots
           /\ n < Len(open) => upvalue[open[n + 1]].ref < Frame.slots

(* OP_RETURN: from the script the run ends, otherwise the result replaces  *)
(* the callee, the arguments and the locals.                               *)
Return ==
  /\ Running
  /\ op' = Other
  /\ IF Len(frames) = 1
     THEN status' = "done" /\ frames' = <<>> /\ UNCHANGED <<stack, globals, heap, building>>
     ELSE /\ Operands(1)
          /\ stack' = Append(SubSeq(stack, 1, Frame.slots - 2), Peek(0))
          /\ CloseAll({open[i] : i \in 1 .. Dying})
          /\ open' = SubSeq(open, Dying + 1, Len(open))
          /\ frames' = SubSeq(frames, 1, Len(frames) - 1)
          /\ UNCHANGED <<globals, closure, building, status>>

Next ==
  /\ status = "running"
  /\ \/ \E v \in Data : PushConst(v)
     \/ \E n \in 1 .. 2, v \in Data : NumberOp(n, v) \/ AnyOp(n, v)
     \/ Pop
     \/ \E g \in Globals : DefineGlobal(g) \/ LoadGlobal(g) \/ StoreGlobal(g)
     \/ \E slot \in Slots : LoadLocal(slot) \/ (Cells(1) /\ StoreLocal(slot))
     \/ \E i \in UpvalueIndices : LoadUpvalue(i) \/ StoreUpvalue(i)
     \/ \E f \in Fns : Declares(f) /\ (PushFunction(f) \/ BeginClosure(f))
     \/ CaptureLocal \/ CaptureUpvalue \/ EndClosure \/ CloseUpvalue
     \/ \E argc \in 0 .. Top : Call(argc)
     \/ Return

Spec == Init /\ [][Next]_vars
-----------------------------------------------------------------------------
(* Properties.                                                             *)

Errors == {"operands", "unknown variable", "upvalue", "not callable", "arity",
           "stack overflow", "native"}

(* The variables have their types.                                         *)
TypeOK ==
  /\ stack \in Seq(Value)
  /\ frames \in Seq([fn : Fns \cup Closures \cup {Script}, slots : Nat \ {0}])
  /\ Len(frames) <= FrameMax /\ (status # "done" => frames # <<>>)
  /\ globals \in [Globals -> Value \cup {NULL}]
  /\ closure \in [Closures -> ClosureObject \cup {NULL}]
  /\ upvalue \in [UpValues -> UpValueObject \cup {NULL}]
  /\ open \in Seq(UpValues)
  /\ building \in Closures \cup {NULL}
  /\ status \in {"running", "done"} \cup Errors

(* The frames lie one above the other on the stack: below the slots of a   *)
(* callee is the callee itself, and the parameters of every frame are      *)
(* still there, whatever was popped, returned or assigned since the call.  *)
FramesNested ==
  status = "running" =>
    /\ frames[1] = [fn |-> Script, slots |-> 1]
    /\ \A i \in 2 .. Len(frames) :
          /\ frames[i].slots > frames[i - 1].slots + Parameters(frames[i - 1].fn)
          /\ frames[i].slots - 1 <= Top
          /\ stack[frames[i].slots - 1] = frames[i].fn
    /\ Top >= Frame.slots + Parameters(Frame.fn) - 1

(* vm->upvalues is strictly descending, so a cell has one node and the     *)
(* walks of vmCaptureValue, vmCloseUpValue and vmCloseCallFrame, which     *)
(* stop at the first node that is not above their cell, miss nothing.      *)
OpenSorted ==
  \A i, j \in DOMAIN open :
     i < j => upvalue[open[i]].ref > upvalue[open[j]].ref

IsOpen(u) == upvalue[u] # NULL /\ upvalue[u].ref # NULL

(* The list holds the open upvalues and no other, and each refers to a     *)
(* cell that is on the stack: no upvalue outlives its cell.                *)
OpenLive ==
  status = "running" =>
    /\ {open[i] : i \in DOMAIN open} = {u \in UpValues : IsOpen(u)}
    /\ \A i \in DOMAIN open : upvalue[open[i]].ref \in 1 .. Top

(* Every closure but the one OP_CLOSURE is filling has an upvalue for each *)
(* captured variable, and its upvalues exist.                              *)
ClosuresComplete ==
  \A c \in Closures : closure[c] # NULL =>
    /\ \A i \in DOMAIN closure[c].upvalues : upvalue[closure[c].upvalues[i]] # NULL
    /\ (c # building /\ status \in {"running", "done"}) =>
          Len(closure[c].upvalues) = Len(Captures[closure[c].prototype])

(* The checks of OP_LOAD_UVAL, OP_STORE_UVAL and OP_CLOSURE never fail:    *)
(* a function that uses upvalues only ever runs as a closure over them.    *)
UpvaluesInBounds == status # "upvalue"

(* The memory a program sees: a captured variable is a box its frame and   *)
(* its closures share.                                                     *)
VariableBox(a) == CHOOSE u \in UpValues : IsOpen(u) /\ upvalue[u].ref = a
Memory ==
  INSTANCE Boxes WITH
    cells <- [a \in 1 .. Top |-> IF Captured(a) THEN VariableBox(a) ELSE stack[a]],
    box <- [u \in UpValues |-> IF status \in Errors \/ upvalue[u] = NULL
                               THEN NULL ELSE GetUpValue(u)]

(* Whether an upvalue is open or closed cannot be told from the values the *)
(* program loads: closing moves the variable and changes nothing.          *)
ImplementsBoxes == Memory!Spec
=============================================================================
