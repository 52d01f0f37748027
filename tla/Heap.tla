-------------------------------- MODULE Heap ---------------------------------
(***************************************************************************)
(* The object heap of obj.c and function.c and its mark-sweep collector,   *)
(* gc.c.                                                                   *)
(*                                                                         *)
(* Every allocation starts with heapCheck, which may run a collection in   *)
(* the middle of the instruction that allocates: what that instruction     *)
(* keeps in C variables only is then no root.  An instruction that         *)
(* allocates is therefore a step that starts it, one step per allocation   *)
(* and, in between, the steps of a collection.                             *)
(*                                                                         *)
(* An object is its kind, the set of objects that were stored in it and,   *)
(* for an array literal in progress, the addresses that the elements not   *)
(* yet stored read as.  Characters, numbers and the order of elements are  *)
(* left out, and heap->objects is the set of addresses that hold an        *)
(* object.  The VM is reduced to its stack and globals: the callees of the *)
(* frames are stack cells (see FramesNested of VM).  The behaviours        *)
(* explored end where the program would use an object that is not there.   *)
(***************************************************************************)
EXTENDS Integers, Sequences, FiniteSets

CONSTANTS Objs,        \* addresses of objects
          Datum,       \* a value that is no object
          NULL,
          Strings,     \* strings made by the compiler
          Functions,   \* functions made by the compiler
          Constants,   \* Constants[c]: the constants in the chunk of c, for
          Script,      \*   c a function or the script (for a function, its
                       \*   name too)
          FreshMarks,  \* what the field marked of a new object may read as
          FreshElements, \* what the elements of a new array may read as: sets
                       \*   of addresses
          Size,        \* Size[k]: bytes of an object of kind k
          InitNextGC,  \* INIT_NEXT_GC
          GrowFactor,  \* GC_HEAP_GROW_FACTOR
          StackBound   \* bound: cells of the stack

Kinds == {"string", "array", "fn", "closure", "upvalue"}
Object == [kind : Kinds, refs : SUBSET Objs, blank : (SUBSET Objs) \cup {NULL}]
New(kind, refs) == [kind |-> kind, refs |-> refs, blank |-> NULL]

ASSUME ObjsAssumption ==
  /\ Strings \subseteq Objs /\ Functions \subseteq Objs
  /\ Strings \cap Functions = {}
  /\ Constants \in [Functions \cup {Script} -> SUBSET (Strings \cup Functions)]
  /\ NULL \notin Objs \cup Object /\ Datum \notin Objs /\ Datum # NULL
  /\ IsFiniteSet(Objs)
  /\ FreshMarks \subseteq BOOLEAN /\ FreshMarks # {}
  /\ FreshElements \subseteq SUBSET Objs /\ FreshElements # {}

ASSUME NumbersAssumption ==
  /\ Size \in [Kinds -> Nat \ {0}]
  /\ InitNextGC \in Nat /\ GrowFactor \in Nat \ {0} /\ StackBound \in Nat

VARIABLES obj,       \* obj[o]: the object at o, NULL if there is none
          marked,    \* marked[o]: the mark of the object at o
          pool,      \* the keys of heap->strings
          bytes,     \* heap->bytes_allocated
          nextGC,    \* heap->next_gc
          gray,      \* the objects on gc->gray_stack
          stack,     \* the cells below stack_top
          globals,   \* globals[s]: the value under the name s, NULL if none
          pending,   \* the allocating instruction in progress, or NULL
          phase,     \* "run", or the phase of the collection
          spared     \* auxiliary: objects whose mark was set before marking

gcVars == <<marked, pool, bytes, nextGC, gray, spared>>
vmVars == <<stack, globals>>
vars == <<obj, gcVars, vmVars, pending, phase>>

Alive == {o \in Objs : obj[o] # NULL}
IsKind(o, k) == o \in Alive /\ obj[o].kind = k
Top == Len(stack)
Peek(d) == stack[Top - d]
InUse == {stack[i] : i \in 1 .. Top}

(* The bytes of the objects of S, counted one by one.                       *)
SizeOf(S) == Cardinality(UNION {{o} \X (1 .. Size[obj[o].kind]) : o \in S})

(* The script was compiled with the collector disabled: strings and        *)
(* functions are in the heap, the strings also in the pool.                *)
Init ==
  /\ obj = [o \in Objs |->
              CASE o \in Strings -> New("string", {})
                [] o \in Functions -> New("fn", Constants[o])
                [] OTHER -> NULL]
  /\ marked \in {m \in [Objs -> BOOLEAN] :
                   \A o \in Objs : m[o] \in IF o \in Alive THEN FreshMarks ELSE {FALSE}}
  /\ pool = Strings
  /\ bytes = SizeOf(Alive)
  /\ nextGC = InitNextGC
  /\ gray = {}
  /\ stack = <<>>
  /\ globals = [o \in Objs |-> NULL]
  /\ pending = NULL /\ phase = "run" /\ spared = {}
-----------------------------------------------------------------------------
(* Instructions that do not allocate.                                      *)
Idle == phase = "run" /\ pending = NULL
Replace(n, v) == /\ Top - n < StackBound
                 /\ stack' = Append(SubSeq(stack, 1, Top - n), v)

(* What OP_CONST and the other instructions with a constant can name: the  *)
(* constants of the script and of the functions in use, which may be the   *)
(* prototypes of closures.                                                 *)
InCode == {f \in Functions : \/ f \in InUse
                             \/ \E c \in InUse : IsKind(c, "closure") /\ f \in obj[c].refs}
Loadable == UNION {Constants[c] : c \in InCode \cup {Script}}

PushValue(v) ==
  /\ Idle
  /\ v \in (Loadable \cap Alive) \cup {Datum}
  /\ Replace(0, v)
  /\ UNCHANGED <<obj, gcVars, globals, pending, phase>>

Drop == stack' = SubSeq(stack, 1, Top - 1)

(* n operands on the stack.  A literal in progress is no operand of any    *)
(* instruction but OP_COLLECT (see ArraysFilled of CodeRun), and in no     *)
(* local yet.                                                              *)
Complete(v) == v \in Alive => obj[v].blank = NULL
Operands(n) == Top >= n /\ \A d \in 0 .. n - 1 : Complete(Peek(d))

LoadLocal(i) ==
  /\ Idle /\ Complete(stack[i])
  /\ Replace(0, stack[i])
  /\ UNCHANGED <<obj, gcVars, globals, pending, phase>>

StoreLocal(i) ==
  /\ Idle /\ Operands(1) /\ Complete(stack[i])
  /\ stack' = [stack EXCEPT ![i] = Peek(0)]
  /\ UNCHANGED <<obj, gcVars, globals, pending, phase>>

Pop == /\ Idle /\ Operands(1) /\ Drop
       /\ UNCHANGED <<obj, gcVars, globals, pending, phase>>

(* OP_DEFINE_GLOB; OP_STORE_GLOB without the pop leaves the same roots.    *)
DefineGlobal(s) ==
  /\ Idle /\ Operands(1)
  /\ s \in Loadable /\ IsKind(s, "string")
  /\ globals' = [globals EXCEPT ![s] = Peek(0)]
  /\ Drop
  /\ UNCHANGED <<obj, gcVars, pending, phase>>

LoadGlobal(s) ==
  /\ Idle /\ globals[s] # NULL
  /\ Replace(0, globals[s])
  /\ UNCHANGED <<obj, gcVars, globals, pending, phase>>

(* OP_COLLECT: n values are moved to elements of the literal below them.   *)
(* What the elements that are left read as stays; after the last batch     *)
(* none are left.                                                          *)
CollectElements(n) ==
  /\ Idle /\ Operands(n) /\ Top > n /\ ~Complete(Peek(n))
  /\ LET literal == obj[Peek(n)]
         values  == Objs \cap {Peek(d) : d \in 0 .. n - 1}
     IN  \E blank \in (SUBSET literal.blank) \cup {NULL} :
           obj' = [obj EXCEPT ![Peek(n)] = [kind  |-> literal.kind,
                                            refs  |-> literal.refs \cup values,
                                            blank |-> blank]]
  /\ stack' = SubSeq(stack, 1, Top - n)
  /\ UNCHANGED <<gcVars, globals, pending, phase>>

(* OP_SET_IND: the operands are a value, an array and an index, and the    *)
(* value stays.  An index is a number, and its cell is left out here and   *)
(* in OP_GET_IND.                                                          *)
SetElement ==
  /\ Idle /\ Operands(2) /\ IsKind(Peek(0), "array")
  /\ \E old \in {{}} \cup {{r} : r \in obj[Peek(0)].refs} :
        obj' = [obj EXCEPT ![Peek(0)].refs = (@ \ old) \cup ({Peek(1)} \cap Objs)]
  /\ Drop
  /\ UNCHANGED <<gcVars, globals, pending, phase>>

(* OP_GET_IND.                                                             *)
GetElement(r) ==
  /\ Idle /\ Operands(1) /\ IsKind(Peek(0), "array")
  /\ r \in (obj[Peek(0)].refs \cap Alive) \cup {Datum}
  /\ Replace(1, r)
  /\ UNCHANGED <<obj, gcVars, globals, pending, phase>>

(* The upvalues of closures in use.                                        *)
Reached(u) == \E c \in InUse : IsKind(c, "closure") /\ u \in obj[c].refs /\ IsKind(u, "upvalue")

(* OP_STORE_UVAL, and vmCloseUpValue when the cell is the top.             *)
StoreUpvalue(u) ==
  /\ Idle /\ Operands(1) /\ Reached(u)
  /\ obj' = [obj EXCEPT ![u].refs = {Peek(0)} \cap Objs]
  /\ UNCHANGED <<gcVars, vmVars, pending, phase>>

(* OP_LOAD_UVAL.                                                           *)
LoadUpvalue(u, r) ==
  /\ Idle /\ Reached(u)
  /\ r \in obj[u].refs \cap Alive
  /\ Replace(0, r)
  /\ UNCHANGED <<obj, gcVars, globals, pending, phase>>
-----------------------------------------------------------------------------
(* Instructions that allocate, up to their first allocation.  temp is the  *)
(* object held in a C variable.                                            *)
Begin(allocates) ==
  /\ Idle
  /\ pending' = [allocates |-> allocates, temp |-> NULL]
  /\ UNCHANGED <<obj, gcVars, vmVars, phase>>

IsString(v) == v # Datum /\ IsKind(v, "string")

(* OP_ADD on a string and a string, or anything else, which valueToObjString *)
(* first turns into a string of the pool.                                  *)
BeginAdd == /\ Operands(2) /\ IsString(Peek(1))
            /\ Begin(IF IsString(Peek(0)) THEN "concat" ELSE "convert")

(* OP_ARR and the native range.                                            *)
BeginArray == Top < StackBound /\ Begin("array")

(* OP_ADD on two arrays.                                                   *)
BeginJoin == /\ Operands(2) /\ {Peek(0), Peek(1)} \subseteq Objs
             /\ IsKind(Peek(0), "array") /\ IsKind(Peek(1), "array")
             /\ Begin("join")

(* OP_CLOSURE with one captured variable.                                  *)
BeginClosure == Top < StackBound /\ Loadable \cap Functions \cap Alive # {} /\ Begin("closure")
-----------------------------------------------------------------------------
(* heapCheck: is a collection due?  None is when one has just ended, since *)
(* next_gc is then a multiple of bytes_allocated.                          *)
Due == bytes > nextGC

(* allocateObj after heapCheck, and what its caller writes to the object.  *)
(* The field marked is not initialised.                                    *)
Create(o, object) ==
  /\ obj[o] = NULL
  /\ obj' = [obj EXCEPT ![o] = object]
  /\ \E m \in FreshMarks : marked' = [marked EXCEPT ![o] = m]
  /\ bytes' = bytes + Size[object.kind]
  /\ UNCHANGED <<nextGC, gray, spared>>

Allocating(what) == /\ phase = "run" /\ pending # NULL /\ ~Due
                    /\ pending.allocates = what
                    /\ pending.temp # NULL => pending.temp \in Alive

Then(what, o) == pending' = [allocates |-> what, temp |-> o]

(* n operands are popped and the new object is pushed.                     *)
Finish(n, o) == Replace(n, o) /\ pending' = NULL

(* concatObjString: the result is not in the pool.                         *)
Concat(o) == /\ Allocating("concat")
             /\ Create(o, New("string", {}))
             /\ Finish(2, o)
             /\ UNCHANGED <<pool, globals, phase>>

(* valueToObjString, whose result concatObjString will read.               *)
Convert(o) == /\ Allocating("convert")
              /\ Create(o, New("string", {}))
              /\ pool' = pool \cup {o}
              /\ Then("concat", o)
              /\ UNCHANGED <<vmVars, phase>>

(* makeObjArray, which OP_ARR calls without elements: they read as         *)
(* whatever the memory held before, for example pointers that an array     *)
(* freed at this place held, or the constants of a pool that has grown.    *)
(* range gives its elements, which are numbers, and {} has none.           *)
NewArray(o) == /\ Allocating("array")
               /\ \E blank \in FreshElements \cup {NULL} :
                     Create(o, [kind |-> "array", refs |-> {}, blank |-> blank])
               /\ Finish(0, o)
               /\ UNCHANGED <<pool, globals, phase>>

Elements == obj[Peek(0)].refs \cup obj[Peek(1)].refs
JoinArrays(o) == /\ Allocating("join")
                 /\ Elements \subseteq Alive
                 /\ Create(o, New("array", Elements))
                 /\ Finish(2, o)
                 /\ UNCHANGED <<pool, globals, phase>>

(* newClosure, then newUpValue, then the closure is pushed.                *)
NewClosure(o) == /\ Allocating("closure")
                 /\ \E f \in Loadable \cap Functions \cap Alive : Create(o, New("closure", {f}))
                 /\ Then("upvalue", o)
                 /\ UNCHANGED <<vmVars, pool, phase>>

NewUpValue(o) ==
  /\ Allocating("upvalue")
  /\ obj[o] = NULL
  /\ obj' = [obj EXCEPT ![o] = New("upvalue", {}),
                        ![pending.temp].refs = @ \cup {o}]
  /\ \E m \in FreshMarks : marked' = [marked EXCEPT ![o] = m]
  /\ bytes' = bytes + Size["upvalue"]
  /\ Finish(0, pending.temp)
  /\ UNCHANGED <<pool, nextGC, gray, spared, globals, phase>>
-----------------------------------------------------------------------------
(* The collector.                                                          *)

(* gcMarkRoots: the stack and the globals.  The constants of the script    *)
(* and the list of upvalues are not visited.                               *)
RootsNoNames == Objs \cap (InUse \cup {globals[s] : s \in Objs})   \* mutant: keys forgotten
Roots == Objs \cap (InUse \cup {s \in Objs : globals[s] # NULL}
                          \cup {globals[s] : s \in Objs})

(* What the blacken function of the vtable visits.  newClosure and         *)
(* newUpValue install obj_vtable, whose blacken does nothing; that of an   *)
(* array visits all elements, initialised or not.                          *)
Blackens(kind) == kind \in {"array", "fn"}
Stored(o) == IF Blackens(obj[o].kind) THEN obj[o].refs ELSE {}
Blank(o) == IF obj[o].blank = NULL THEN {} ELSE obj[o].blank
Traced(o) == Stored(o) \cup Blank(o)

(* gcMarkObj on each object of S.                                          *)
MarkOnly(S) == marked' = [o \in Objs |-> o \in S]   \* mutant: the other marks are lost
Mark(S) == marked' = [o \in Objs |-> marked[o] \/ o \in S]
GrayWhenMarked(S) == {o \in S : marked[o]}   \* mutant: the test of marked inverted
GrayAlways(S) == S   \* mutant: marked is not tested
NewlyGray(S) == {o \in S : ~marked[o]}

(* The loop over the stack also marks the cell at stack_top, which holds   *)
(* whatever was popped last.                                               *)
MarkRoots ==
  /\ phase = "run" /\ pending # NULL /\ Due
  /\ spared' = spared \cup {o \in Alive : marked[o]}
  /\ \E stale \in {{}} \cup {{o} : o \in Alive} :
        Mark(Roots \cup stale) /\ gray' = NewlyGray(Roots \cup stale)
  /\ phase' = "trace"
  /\ UNCHANGED <<obj, pool, bytes, nextGC, vmVars, pending>>

(* gcPopGray and gcBlackenObj; the order of the gray objects is left open. *)
Trace(o) ==
  /\ phase = "trace" /\ o \in gray
  /\ Traced(o) \subseteq Alive
  /\ Mark(Traced(o))
  /\ gray' = (gray \ {o}) \cup NewlyGray(Traced(o))
  /\ UNCHANGED <<obj, pool, bytes, nextGC, spared, vmVars, pending, phase>>

(* tableRemoveWhite.                                                       *)
StillInternedAll == pool   \* mutant: the pool is left alone
StillInterned == {s \in pool : marked[s]}

RemoveWhite ==
  /\ phase = "trace" /\ gray = {}
  /\ pool' = StillInterned
  /\ phase' = "sweep"
  /\ UNCHANGED <<obj, marked, bytes, nextGC, gray, spared, vmVars, pending>>

(* gcSweep: unmarked objects are unlinked and freed, marks taken back.      *)
White == {o \in Alive : ~marked[o]}
AfterSweepTwice == bytes - 2 * SizeOf(White)   \* mutant: freeObj subtracts too
AfterSweepSame == bytes   \* mutant: not updated
AfterSweep == bytes - SizeOf(White)

Sweep ==
  /\ phase = "sweep"
  /\ obj' = [o \in Objs |-> IF o \in White THEN NULL ELSE obj[o]]
  /\ marked' = [o \in Objs |-> FALSE]
  /\ bytes' = AfterSweep
  /\ nextGC' = IF AfterSweep * GrowFactor < InitNextGC THEN InitNextGC ELSE AfterSweep * GrowFactor
  /\ spared' = spared \ White
  /\ phase' = "run"
  /\ UNCHANGED <<pool, gray, vmVars, pending>>
-----------------------------------------------------------------------------
Allocate == \E o \in Objs : \/ Concat(o) \/ Convert(o) \/ NewArray(o)
                              \/ JoinArrays(o) \/ NewClosure(o) \/ NewUpValue(o)

Collect == MarkRoots \/ (\E o \in Objs : Trace(o)) \/ RemoveWhite \/ Sweep

Instruction == \/ \E v \in Objs \cup {Datum} : PushValue(v)
               \/ Pop \/ BeginAdd \/ BeginArray \/ BeginJoin \/ BeginClosure
               \/ \E s \in Objs : DefineGlobal(s) \/ LoadGlobal(s)
               \/ \E i \in 1 .. Top : LoadLocal(i) \/ StoreLocal(i) \/ CollectElements(i)
               \/ SetElement
               \/ \E r \in Objs \cup {Datum} : GetElement(r)
               \/ \E u \in Objs : StoreUpvalue(u)
               \/ \E u, r \in Objs : LoadUpvalue(u, r)

Next == Instruction \/ Allocate \/ Collect

Spec == Init /\ [][Next]_vars

(* A collection runs to its end: nothing suspends the thread.              *)
FairSpec == Spec /\ WF_vars(Collect)
-----------------------------------------------------------------------------
(* Properties.                                                             *)

(* The variables have their types.                                         *)
TypeOK ==
  /\ obj \in [Objs -> Object \cup {NULL}]
  /\ marked \in [Objs -> BOOLEAN]
  /\ pool \subseteq Objs /\ gray \subseteq Objs /\ spared \subseteq Objs
  /\ bytes \in Nat /\ nextGC \in Nat
  /\ stack \in Seq(Objs \cup {Datum}) /\ Top <= StackBound
  /\ globals \in [Objs -> Objs \cup {Datum, NULL}]
  /\ phase \in {"run", "trace", "sweep"}

(* The objects this collection keeps, once the roots are marked.           *)
Kept == IF phase = "run" THEN Alive ELSE {o \in Alive : marked[o]}

(* While marking, no object whose children were visited has an unmarked    *)
(* child, except one that was spared because its mark was set before; in   *)
(* the sweep, what is kept is closed under the pointers the vtables trace. *)
TriColour ==
  phase # "run" =>
    /\ gray \subseteq Kept
    /\ \A o \in Kept \ (gray \cup spared) : Traced(o) \subseteq Kept

(* What the stack and the globals hold survives each collection.           *)
RootsAlive ==
  InUse \cup {globals[s] : s \in Objs} \cup {s \in Objs : globals[s] # NULL}
    \subseteq Kept \cup {Datum, NULL}

(* What was stored in arrays and functions exists, whatever was collected, *)
(* assigned and overwritten meanwhile, unless the array or the function    *)
(* was spared once.                                                        *)
StoredAlive == \A o \in Alive \ spared : Stored(o) \subseteq Alive

(* The pool never keeps a string that was freed or will be: its keys are   *)
(* weak, and a search of the pool reads the strings it passes.             *)
PoolAlive == pool \subseteq IF phase = "sweep" THEN Kept ELSE Alive

(* bytes_allocated is the sum of the sizes of the objects there are, so    *)
(* that collections are due when the heap has grown.                       *)
BytesExact == bytes = SizeOf(Alive)

(* The collector is about to visit an object that is not there.            *)
Astray == phase = "trace" /\ \E o \in gray : ~(Traced(o) \subseteq Alive)

(* Each collection ends, also when arrays contain each other, unless it    *)
(* goes astray, after which nothing is defined.                            *)
CollectionEnds == (phase # "run") ~> (phase = "run" \/ Astray)

(* "use array instruction allocate a fixed-size blank array on stack"      *)
(* (README.md:44): a blank array has nothing to visit, so what the         *)
(* collector visits exists.                                                *)
NeverAstray == ~Astray

(* The comments in blacken_obj_closure: marking a closure marks its        *)
(* prototype and its upvalues.                                             *)
ClosurePartsKept ==
  phase = "sweep" => \A o \in Kept \ spared :
                       IsKind(o, "closure") => obj[o].refs \subseteq Kept

(* What the code still has to name, or the instruction in progress has yet *)
(* to read, is not freed: in test/gc-test.lox the constant "x[" is printed *)
(* 200 times and each number is turned into a string to be appended.       *)
OperandsKept ==
  phase = "sweep" =>
    Constants[Script] \cup {pending.temp} \subseteq Kept \cup {NULL}
=============================================================================
