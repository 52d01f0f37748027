-------------------------------- MODULE Boxes --------------------------------
(***************************************************************************)
(* The memory a Lox program sees: captured variables are shared boxes.     *)
(*                                                                         *)
(* A cell of the stack holds a value until a closure captures it; from     *)
(* then on it holds a box, the closure holds the same box, and whoever     *)
(* reads or writes the variable goes through it.  There is no list of open *)
(* upvalues, nothing to close when a cell dies and nothing to search: that *)
(* is how vm.c and function.c implement this, see VM.                      *)
(***************************************************************************)
EXTENDS Integers, Sequences

CONSTANTS Numbers, Others, Fns, Natives, Script, Closures,
          UpValues,   \* the boxes
          Globals, Builtin, NULL, Arity, Captures, Parent, FrameMax, StackBound

VARIABLES cells,     \* the stack: a value or a box in each cell
          box,       \* box[u]: the value in box u, NULL if there is none
          closure,   \* closure[c]: prototype and boxes of closure c
          frames, globals, building, status,
          op         \* the last instruction, if it loads or stores a variable

vars == <<cells, box, closure, frames, globals, building, status, op>>

Data == Numbers \cup Others
Callables == Fns \cup Natives \cup Closures

Other == <<"OTHER", 0>>

Init == /\ cells = <<>> /\ box = [u \in UpValues |-> NULL]
        /\ closure = [c \in Closures |-> NULL]
        /\ frames = <<[fn |-> Script, slots |-> 1]>>
        /\ globals = Builtin
        /\ building = NULL /\ status = "running" /\ op = Other

Top == Len(cells)
Frame == frames[Len(frames)]
Prototype(fn) == IF fn \in Closures THEN closure[fn].prototype ELSE fn

(* An instruction works on the cells of its own frame.                     *)
Operands(n) == Top - n >= Frame.slots - 1

(* The value of the variable in cell a, and an assignment to it.           *)
Read(a) == IF cells[a] \in UpValues THEN box[cells[a]] ELSE cells[a]
Write(a, v) == IF cells[a] \in UpValues
               THEN box' = [box EXCEPT ![cells[a]] = v] /\ UNCHANGED cells
               ELSE cells' = [cells EXCEPT ![a] = v] /\ UNCHANGED box

Replace(n, v) == cells' = Append(SubSeq(cells, 1, Top - n), v) /\ UNCHANGED box

Did(i) == op' = i
Keep == UNCHANGED <<closure, frames, globals, building, status>>

Fail == /\ status' \notin {"running", "done"}
        /\ cells' = <<>> /\ box' = [u \in UpValues |-> NULL]
        /\ frames' = SubSeq(frames, 1, 1) /\ building' = NULL
        /\ UNCHANGED <<closure, globals>>

(* Constants and operators: any datum may be the result.                   *)
Compute == /\ Did(Other)
           /\ \/ \E n \in 0 .. 2, v \in Data : Operands(n) /\ Replace(n, v) /\ Keep
              \/ Fail

Discard == /\ Operands(1)
           /\ Did(Other)
           /\ cells' = SubSeq(cells, 1, Top - 1)
           /\ UNCHANGED box /\ Keep

LoadGlobal(g) == /\ Did(Other)
                 /\ \/ globals[g] # NULL /\ Replace(0, globals[g]) /\ Keep
                    \/ globals[g] = NULL /\ Fail

DefineGlobal(g) == /\ Operands(1)
                   /\ Did(Other)
                   /\ globals' = [globals EXCEPT ![g] = Read(Top)]
                   /\ cells' = SubSeq(cells, 1, Top - 1)
                   /\ UNCHANGED <<box, closure, frames, building, status>>

StoreGlobal(g) == /\ Operands(1)
                  /\ Did(Other)
                  /\ \/ /\ globals[g] # NULL
                        /\ globals' = [globals EXCEPT ![g] = Read(Top)]
                        /\ UNCHANGED <<cells, box, closure, frames, building, status>>
                     \/ globals[g] = NULL /\ Fail

LoadLocal(slot) == /\ Did(<<"LOAD_LOC", slot>>)
                   /\ Replace(0, Read(Frame.slots + slot)) /\ Keep

StoreLocal(slot) == /\ Operands(1)
                    /\ Did(<<"STORE_LOC", slot>>)
                    /\ Write(Frame.slots + slot, Read(Top)) /\ Keep

LoadUpvalue(i) == /\ Did(<<"LOAD_UVAL", i>>)
                  /\ Replace(0, box[closure[Frame.fn].upvalues[i]]) /\ Keep

StoreUpvalue(i) == /\ Operands(1)
                   /\ Did(<<"STORE_UVAL", i>>)
                   /\ box' = [box EXCEPT ![closure[Frame.fn].upvalues[i]] = Read(Top)]
                   /\ UNCHANGED cells /\ Keep

PushFunction(f) == Did(Other) /\ Replace(0, f) /\ Keep

(* A closure takes one box per captured variable; a variable that has none *)
(* yet gets one, with the value it holds.                                  *)
BeginClosure(f) == /\ Did(Other)
                   /\ \E c \in Closures :
                        /\ closure[c] = NULL
                        /\ closure' = [closure EXCEPT
                                         ![c] = [prototype |-> f, upvalues |-> <<>>]]
                        /\ building' = c
                   /\ UNCHANGED <<cells, box, frames, globals, status>>

NextCapture == Captures[closure[building].prototype][Len(closure[building].upvalues) + 1]

Capture ==
  /\ building # NULL
  /\ Len(closure[building].upvalues) < Len(Captures[closure[building].prototype])
  /\ LET a == Frame.slots + NextCapture.index
         Gets(b) == closure' = [closure EXCEPT ![building].upvalues = Append(@, b)]
     IN  \/ /\ NextCapture.type = "UVAL_UVAL"
            /\ Gets(closure[Frame.fn].upvalues[NextCapture.index])
            /\ UNCHANGED <<cells, box>>
         \/ /\ NextCapture.type = "UVAL_LOC" /\ cells[a] \in UpValues
            /\ Gets(cells[a])
            /\ UNCHANGED <<cells, box>>
         \/ /\ NextCapture.type = "UVAL_LOC" /\ cells[a] \notin UpValues
            /\ \E b \in UpValues : /\ box[b] = NULL
                                   /\ Gets(b)
                                   /\ box' = [box EXCEPT ![b] = cells[a]]
                                   /\ cells' = [cells EXCEPT ![a] = b]
  /\ UNCHANGED <<frames, globals, building, status, op>>

EndClosure == /\ building # NULL
              /\ Len(closure[building].upvalues) = Len(Captures[closure[building].prototype])
              /\ Replace(0, building)
              /\ building' = NULL
              /\ UNCHANGED <<closure, frames, globals, status, op>>

Call(argc) ==
  /\ Operands(argc + 1) /\ Did(Other)
  /\ \/ Fail
     \/ /\ Read(Top - argc) \in Natives
        /\ \E v \in Data : Replace(argc + 1, v)
        /\ Keep
     \/ /\ Read(Top - argc) \in Fns \cup Closures
        /\ Arity[Prototype(Read(Top - argc))] = argc
        /\ frames' = Append(frames, [fn |-> Read(Top - argc), slots |-> Top - argc + 1])
        /\ UNCHANGED <<cells, box, closure, globals, building, status>>

(* The cells of the frame go; the boxes some closure holds stay.           *)
Return ==
  /\ Did(Other)
  /\ IF Len(frames) = 1
     THEN /\ status' = "done" /\ frames' = <<>>
          /\ UNCHANGED <<cells, box, closure, globals, building>>
     ELSE /\ Operands(1)
          /\ cells' = Append(SubSeq(cells, 1, Frame.slots - 2), Read(Top))
          /\ frames' = SubSeq(frames, 1, Len(frames) - 1)
          /\ UNCHANGED <<box, closure, globals, building, status>>

Instruction ==
  \/ Compute \/ Discard \/ Return
  \/ \E g \in Globals : DefineGlobal(g) \/ LoadGlobal(g) \/ StoreGlobal(g)
  \/ \E slot \in 0 .. Top - Frame.slots : LoadLocal(slot) \/ StoreLocal(slot)
  \/ Frame.fn \in Closures /\ \E i \in DOMAIN closure[Frame.fn].upvalues :
                                LoadUpvalue(i) \/ StoreUpvalue(i)
  \/ \E f \in Fns : PushFunction(f) \/ BeginClosure(f)
  \/ \E argc \in 0 .. Top : Call(argc)

Next == /\ status = "running"
        /\ \/ building = NULL /\ Instruction
           \/ Capture \/ EndClosure

Spec == Init /\ [][Next]_vars
=============================================================================
