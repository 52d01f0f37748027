# clox-compiler-llvm in TLA+

Specifications of the Lox compiler and virtual machine in `src/`, model-checked
with TLC and, for the hash table, the machine, the collector, the resolver and the
code generator, proved with TLAPS.  Paths below are relative to
the repository; `src/src/` holds the C files and `src/lib/` the headers.

The program is one process and one thread: it scans, parses, resolves and compiles
a source text, then interprets the bytecode.  Nothing is persisted and nothing is
concurrent.  What makes it hard is elsewhere: data structures whose correctness
depends on long sequences of calls (the hash table, the list of open upvalues), a
collector that can run in the middle of almost every instruction, and a contract
between compiler and machine that the machine does not check.

## 1. Inventory

| component | files | state | operations | used by / uses |
|---|---|---|---|---|
| hash table | `table.c`, `memory.c` | array of buckets, capacity, count of buckets in use | `tableSet` (with `adjustCapacity`), `tableGet`, `tableDelete`, `tableFindString` | globals of the VM, string pool of the heap, `tableRemoveWhite` of the collector |
| virtual machine | `vm.c`, `function.c` | value stack, call frames, globals, list of open upvalues, closures and upvalues | one per opcode; `call`, `vmCaptureValue`, `vmCloseUpValue`, `vmCloseCallFrame`, `runtimeError` | runs a chunk; allocates through the heap |
| object heap and collector | `obj.c`, `function.c`, `gc.c` | list of objects with marks, string pool, `bytes_allocated`, `next_gc`, gray stack | allocation of each kind of object, `heapCheck`, mark, trace, clear the pool, sweep | called by VM, natives and compiler; reads the VM's stack, frames and globals as roots |
| bytecode container | `chunk.c` | code, constants | `writeChunk`, `addConstant` | filled by the code generator, read by the VM |
| values | `value.c` | none | equality, printing, truth | all |
| scanner, parser, syntax tree | `compiler/scanner.c`, `token.c`, `parser.c`, `expression.c`, `statement.c` | cursor in the text, cursor in the tokens | tokens, tree | code generator's driver |
| scope resolver | `compiler/resolve_scope.c` | tree of scopes, next slot, per function the list of captured variables | declare, look up, capture | annotates the tree for the code generator |
| code generator | `compiler/compiler.c`, `resolve_loop.c` | chunk being filled, loops with jumps to patch | one per statement and expression | uses resolver, heap (strings, functions), chunk |
| native functions | `natfn.c` | none | `clock`, `range`, ... | called by `OP_CALL` |
| interpreter, REPL | `interpreter.c` | the VM across lines | `interpret` per line | compiler, VM |

Interactions that matter: every allocation can start a collection, which reads the
VM's state as it is in the middle of the instruction; the string pool is a table
whose keys the collector removes; the VM trusts slots, stack depth and constant
indexes computed by resolver and code generator; open upvalues alias stack cells.

What makes each component correct:

- *table*: it behaves as a map whatever the history of collisions, tombstones and
  rehashes; searches end.
- *machine*: frames nest, upvalues refer to live cells, closures sharing a variable
  see each other's assignments before and after the variable's frame is gone.
- *collector*: what the program can still use is kept, what is freed is not
  referred to by heap, pool or roots; collections end; the accounting that triggers
  them is exact.
- *resolver and generator*: each name refers to the variable the language says; the
  emitted code keeps the machine's contract on every path.
- *session*: after a failed line the next line starts from a sound state.

`PROJECT.json` lists the hazards line by line, including those no property covers yet.

## 2. Modules

    TableMap  <--implements--  Table     <-- MCTable       (TLC)
                                         <-- Table_proofs                       (TLAPS)
    Boxes     <--implements--  VM        <-- MCVM          (TLC)
                                         <-- VM_proofs     <-- Boxes_proofs     (TLAPS)
                               Heap      <-- MCHeap        (TLC)
                                         <-- Heap_proofs                        (TLAPS)
    Scanner, Parser  <--       Frontend  <-- MCFrontend    (TLC)
                               Resolver  <-- MCResolver    (TLC)
                                         <-- Resolver_proofs                    (TLAPS)
    Codegen, Flow    <--       CodeRun   <-- MCCodegen     (TLC)
    Codegen          <--                     Codegen_proofs                    (TLAPS)
    CodeRun, Codegen_proofs              <-- CodeRun_proofs                    (TLAPS)
                               Session                     (TLC)
    Basics: lemmas on numbers and sequences for VM_, Resolver_ and Codegen_proofs

The modules follow the program: Frontend turns a text into a tree, Resolver gives
the names of the tree their variables, Codegen turns the tree into code and CodeRun
runs it, VM is the machine with everything CodeRun leaves out, Session is what is
kept from one text to the next.  Resolver computes what VM takes as the constant
`Captures`: `ChainsGrounded` of Resolver is the assumption `CodeAssumption` of VM
about the indexes in it, and both are proved: UpvaluesAreGrounded there gives what
UpvalueOperandsInBounds here assumes.  `SlotsDense` of Resolver is what Codegen assumes of slots
(`FreeSlot`, `NewSymbol`), and `LocalsKept` of CodeRun is part of what VM assumes of
the code (section "Compiled code").

### Table and TableMap

`TableMap` is what callers see: a map and the results of calls.  Several string
objects may hold the same bytes (`newObjString` does not search the pool, and
`valueToObjString` gives hash 0), so keys are objects with a `Text` and a `Hash`,
and `tableFindString` may answer with any of the matching objects.

`Table` keeps `entries`, `capacity` and `count` of the C structure.  A bucket with a
null key is empty (value nil) or a tombstone (value true).  A search is one
expression, the bucket the loop of `findEntry` stops at: `Stops` is the set of steps
at which the loop would return and `Least` takes the first.  `tableSet` is split in
`SetBegin` (load test), `Move` (one turn of the loop of `adjustCapacity`), `Swap` and
`Store`, so that properties hold also half-way through a rehash; no other call is
possible in between, as in the code.  `tableRemoveWhite` deletes white keys with the
same tombstone, hence needs no action of its own.

Bounds: three keys, two of which share bytes, hashes chosen so that they share the
last bucket (the probe wraps around) and spread after a rehash; capacities 2, 4, 8
with the code's growth by doubling and the code's load limit 0.8.  `MinCapacity` is 8
in the code; 2 makes crowding possible with few keys.  A deleted bucket stays
counted, so three keys are enough for two rehashes.  The theorems of section 4 cover
all keys, hashes and capacities.

### VM and Boxes

`VM` has one action per group of opcodes with the same effect: stack, frames,
globals, closure objects, upvalue objects and the list `open` (`vm->upvalues`).
Which opcode comes next is left open, so every program that keeps the contract is
covered, within the bounds.  `OP_CLOSURE` is a loop over captured variables and
takes several steps (`BeginClosure`, `CaptureLocal` / `CaptureUpvalue`,
`EndClosure`); `OP_RETURN`, `OP_CALL` and `OP_CLOSE_UVAL` are one step each.
`OP_STORE_GLOB` stores first and, when `tableSet` says that the name was new, deletes
the pair again (`Deleted`) before the program stops; that this leaves no trace is part of
`ImplementsBoxes`: in `Boxes` the failing assignment does not touch the globals.
Jump instructions only move `ip` and would add nothing to a machine whose next
instruction is free.

The contract of the compiler with the machine is written as guards in the section
"Compiled code" (operands are above the parameters, slots are live, captured locals
are closed before they are popped, `OP_CLOSURE` for functions with captured
variables only).  The runs of VM say: *if* code keeps this contract, *then* the
machine does its part.  The compiler at this commit does not always keep it
(section 5); Codegen and CodeRun show where it does, as far as they model it.
VM is also more general than today's resolver: its programs capture locals of a
function's body, for which `OP_CLOSE_UVAL` exists, while the resolver captures
parameters only (section 5).

`Boxes` is the memory model of the language: a captured variable is a shared box.
There is no list, no open or closed state and no search.  `ImplementsBoxes` maps
each open upvalue's cell to its box and says that a program cannot tell whether an
upvalue is open or closed.  `op` records which variable an instruction reads or
writes, so that the two have to agree on each access and not only on the sum.

Bounds: `MCVM` nests functions three deep: `g` captures two variables of `f`, the
later one first (so the list must be searched); `k` captures one of them too
(sharing) and hands it on to `h` (`UVAL_UVAL`).  Two closures, two upvalues, four
frames and five cells suffice for a closure that runs below, beside and after its
sibling.  Once a global was assigned or a native is on the stack, `Instance` keeps
two frames, three cells and closures of `k`, which is what it takes for a closure to
outlive the frame of its variable and to be called afterwards.  Closures and
upvalues are symmetric: nothing orders them, and the properties checked under
symmetry are safety properties.  `View` leaves `op` out of the comparison of states,
because no step and no invariant reads it; TLC checks `ImplementsBoxes` on every
step, also on those that lead to a state seen before.

### Heap

An object is a kind, the set of objects that were stored in it and, for an array literal
in progress, what its remaining elements read as.  The machine is reduced
to stack and globals, because these are the roots; each allocating instruction is
split at its allocations, so a collection can run in the middle of `OP_ADD`
(`Convert`, then `Concat`) or `OP_CLOSURE` (`NewClosure`, then `NewUpValue`).  A
collection is `MarkRoots`, one `Trace` per gray object, `RemoveWhite`, `Sweep`.
`MarkRoots` also marks the cell at `stack_top`, which the loop bound `<=` includes.

Two fields of a new object are not initialised:

- `allocateObj` does not set `marked`: the mark of a new object is any member of
  `FreshMarks`.  The auxiliary `spared` names the objects whose mark was set before
  marking; these keep their children unvisited for one collection.
- `OP_ARR` makes an array without elements to copy, so `makeObjArray` sets `len` and
  leaves `elements`.  `NewArray` therefore gives the array any member of
  `FreshElements` as `blank`, addresses that its elements read as, whether or not there
  is an object; or none, for `range` and for an empty literal.  The array is on the
  stack from then on, and `obj_array_blacken` visits blank elements like stored ones
  (`Traced`).  `CollectElements` is one `OP_COLLECT`; the last batch leaves nothing
  blank.  Until then the literal is no operand of other instructions and in no variable
  (`Complete`), which is what the compiler emits.

`Astray` says that the collector is about to visit an object that is not there.  The
behaviours explored end in such a state, and likewise where the program would read a
freed object: what follows is undefined.  `StoredAlive` is about stored elements only;
what blank elements lead to is the subject of `NeverAstray`, which the run `heap_blanks`
shows violated.  Either field is enough: with `FreshElements = {{}}` in its cfg (blank
elements read as no object) TLC finds a trace that begins with an array whose mark reads as
set; it is passed by, the string it holds is freed, and the next collection follows the
pointer.  With `FreshMarks = {FALSE}` besides, `NeverAstray` holds, which is the theorem
`AstrayOnlyUninitialised`.

Bounds: one string and one function of the compiler and one fresh address; the first two are
freed when nothing refers to them, and their addresses reused, so arrays can contain
each other, and a closure has its prototype and an upvalue.  Two cells, as the index of an
element, a number, is left out.  `InitNextGC` 2 and sizes 1 and 2, so collections happen
from the first allocations on.  `GC_HEAP_GROW_FACTOR` is 4 in the code; factor 1 makes
collections as frequent as the code's test allows.  In the run `heap` marks read as FALSE,
which is what keeps it small enough for its liveness property; the theorems are about any
marks.  The violations have two fresh addresses.

### Resolver

The resolver walks a syntax tree; the specification chooses the tree while walking
it.  An action that opens a scope (`Script`, `Block`, `FnDecl`) chooses the
declarations of the block, because `resolve()` declares them all before it walks the
statements; `todo` keeps those whose statement is still to come, and every function
declared is opened exactly once.  `Resolve` is one use of a name: `UseNear` when
`lookUpSymbol` finds it in the running function or the script, `UseFar` when it
crosses a function, which is `resolveUpValue` with all its recursive calls and
`fnInfoAddUpVal` for each function on the way.  The first error ends the walk.

`use.found` remembers the declaration `lookUpSymbol` found, and `Variable` follows
an upvalue from function to function to the declaration it stands for; the
properties compare the two.

Bounds: two names (enough for shadowing and for two variables captured by one
function), seven open scopes (three functions in each other), two declarations or
parameters per scope and five symbols in all open scopes.  Five are what it takes for
an innermost function to capture variables from two levels: three function names and
two parameters.

### Scanner, Parser and Frontend

`Scanner` has one operator per function of `scanner.c`, on a text and a position.  A
glyph is a character, or a keyword: `scanWord` takes the longest run of letters and
looks it up as a whole.  `Parser` has one operator per parse function, on tokens and a
position; the functions of the levels of precedence differ only in their operators, so
they are one (`ParseBinary`, with the loop `ChainLeft`).  After an error every parse
function returns NULL to its caller, which the operators do as well.

`Frontend` composes them as `compile()` does.  A text is typed glyph by glyph or
loaded as a whole program.  What the front end should do is stated without a parser:
`Printed` writes a tree with the tokens of the grammar, `Binds` says which trees
precedence and association allow.  `TreePrintsText` and `TreeBinds` say that an
accepted text has such a tree, `ProgramsParse` that every program is accepted with the
tree it was written from.  These modules use RECURSIVE operators and are for TLC only.

Bounds: five keyboards, each with the glyphs of one question (words, strings, numbers,
comments and lines; operators and calls; ifs and blocks; loops; declarations) and texts
of four to nine glyphs, longer ones typed on only while they may become a program; and
all programs of expressions and statements two constructs deep.  An array literal at
the start of a statement is read as a block, as the code does, and is not among the
programs.  The buffer of `scanWord` (32 bytes) and freeing trees are left out.

### Codegen, Flow and CodeRun

`compileStatement` walks a tree and calls itself; Codegen chooses the tree while it
walks.  `open` is the stack of calls in progress with the C variables that live across
the inner calls (offsets of jumps to patch, starts of loops).  An action begins or ends
a statement and emits what the code emits there; an expression is a sequence of nodes
in postorder.  Bytes are cut as `emitBytes` cuts them, jumps are patched at noted
offsets in whatever chunk is current, loops lie on one stack for all functions, the
tests of `patchJump` and `emitLoop` fail where the code's do.

`Flow` is the structured program's own control flow: statements as points, edges with
the outcome of the condition they start from, no offsets and no jumps.  `CodeRun`
builds it beside the code while Codegen emits, then runs the chunk of the script, one
action per group of opcodes, and compares.  Conditions may go either way; the values of
globals, calls and sums are unknown, those of locals and literals are not.

Bounds: a byte has 5 values, so a jump spans at most 24 bytes, and programs are large
enough to reach "too far" in `Else`, `EndIf` and `EndWhile`.  `SlotSize` is 2, so
a literal of three elements has a full and a partial batch; the other has none.  Five
profiles say what programs are made of: globals with all branches and loops; a local in
blocks, branches and loops; two locals with assignments and temporaries; functions with
`return` and loops; array literals, calls and locals.  `MaxLeft` is the number of
values earlier lines left on the stack; `StackBound` ends a run whose loop leaves a
value per turn.  Two bounds keep programs out that the code compiles wrongly; both are constants:

- `LexicalJumps = TRUE`: no `break` or `skip` in a function belongs to a loop around
  it; without it `codegen_breaks` fails;
- `Orderly = TRUE`: a block declares its locals before inner blocks that have locals.
  Slots are handed out in the order resolver and block are entered, values are pushed
  in the order of the program: with the bound off TLC finds `LocalsKept` violated by
  `{ var a = 0; { var b = 1; print 5 + b; } var c = 3; ... }`, where the temporaries of
  the inner block are pushed to the cell of `c`.

Uses of a local before its declaration (the resolver accepts `{ var a = a; }`, which reads
a slot that nothing was pushed to) and captured locals are not among the programs.  Nor are a
`break` and a `skip` outside of any loop (`CanJump`): neither parser nor resolver rejects
one, and the code generator follows the null pointer that `topLoop` returns.

### Session

What survives a text: the pools of the resolver, the array of the loop stack,
`compile_error`, and of the machine `gc.enabled`, `frame_count` and `has_error`.  A text
is known by the stage that ends it.  Each block of memory is a number and `freed` counts
how often it was freed; after a second free the model stops, as nothing is defined then.

## 3. Runs

| run | bounds | shows |
|---|---|---|
| `table` | 3 keys, capacity up to 8 | types, exact count, empty bucket left, unique and reachable keys, loss-free rehash, refinement of the map, each `tableSet` returns |
| `vm` | 4 functions, 2 closures, 2 upvalues, 4 frames, 5 cells; 2 globals, 1 native | types, nested frames, sorted and live list of upvalues, complete closures, checks of upvalue indexes never fail, refinement of boxes |
| `heap` | 1 string, 1 function, 1 fresh object, 2 cells, any blank elements | types, tri-colour invariant, roots kept, stored elements alive, pool kept, exact accounting, collections end |
| `resolver` | 2 names, 7 scopes, 5 symbols | types, dense and distinct slots, grounded chains of upvalues, one upvalue per variable, the right parameter captured |
| `resolver_locals` | 5 scopes, 4 symbols | **violation**: a captured local of a body becomes the parameter of the same name |
| `frontend` | texts up to 9 glyphs, programs 2 deep | tokens tile the text, accepted texts have the tree of the grammar, programs are accepted, escapes are read back |
| `codegen` | bytes of 5 values, 5 profiles | types, jumps land on instructions, operands name their constants, the stack covers the locals, locals keep their values, literals are filled, control flow is that of the program |
| `codegen_breaks` | a loop around a function | **violation**: a `break` in a function patches the chunk around it |
| `session` | 3 lines, 1 block per pool | **violation**: the second text frees the first one's memory again |
| `heap_blanks` | 1 string constant, 2 fresh objects, any marks and blank elements | **violation**: the collector follows an uninitialised element |
| `heap_closures` | 1 function, 2 fresh objects | **violation**: a closure's prototype or upvalue is freed |
| `heap_operands` | 1 string constant, 2 fresh objects | **violation**: a constant of the running script is freed |

`CHECK_DEADLOCK FALSE` is set for VM, where a run ends by returning from the script
or by a runtime error, and for Heap, where the bounded stack and address space end
the behaviours (or the use of an object that is not there does), for Resolver, which stops at
the first error, for Frontend, where a program was loaded or a line is full, for
CodeRun, where compilation failed, the script returned or the stack is full, and for
Session, which ends with its lines.

Fairness: `WF_vars(SetStep)` in Table and `WF_vars(Collect)` in Heap.  The program
has one thread and no blocking call in these loops, so a call that has begun goes on
until it returns; `CollectionEnds` excepts a collection that goes astray.  Nothing is assumed about which call is made next.

## 4. Proofs

Each theorem holds for every value of the constants that the named assumptions
admit.  The bounds of the instances (`MaxCapacity`, `StackBound`, `FrameMax`,
`MaxScopes`, `MaxDecls`, `MaxSymbols`) play no part in an argument: they may be any numbers.

| module | theorems | property |
|---|---|---|
| `Table_proofs` | `TypeCorrect`, `CountIsExact`, `SearchesEnd`, `KeysFound`, `UniqueBuckets`, `RehashExact` | all invariants of run `table` |
| | `TableIsAMap` | Table implements TableMap |
| `VM_proofs` | `TypeCorrect`, `FramesStayNested`, `OpenListSorted`, `NoUpvalueOutlivesItsCell`, `ClosuresAreComplete`, `UpvalueOperandsInBounds` | all invariants of run `vm` |
| `Boxes_proofs` | `UpvaluesAreBoxes` | VM implements Boxes |
| `Heap_proofs` | `TypeCorrect`, `MarkingIsTriColour`, `RootsSurvive`, `StoredPointersAlive`, `PoolIsWeak`, `AccountingIsExact`; `OnlyGarbageIsFreed`; `AstrayOnlyUninitialised` | all invariants of run `heap`; an action property of its own; `NeverAstray` where allocation initialises |
| `Resolver_proofs` | `TypeCorrect`, `SlotsAreDense`, `UpvaluesAreGrounded`, `NoVariableTwice`, `TheRightParameter` | all invariants of run `resolver` |
| `Codegen_proofs` | `TypeCorrect`, `OperandsDenote`, `JumpsLandOnInstructions` | `TypeOK`, `ConstantsDenote` and `JumpsLand` of run `codegen` |
| `CodeRun_proofs` | `RunsCode`, `StackStaysCovered`, `LocalsStayKept`, `ArraysComeFilled` | CodeRun is a behaviour of Codegen; `StackCovers`, `LocalsKept` and `ArraysFilled` of run `codegen` |

All proofs have the same shape.  `IInv` (`Inv` in Table_proofs) is the inductive
invariant, one lemma per action shows that the action keeps it, and the theorems are
consequences of `Spec => []IInv`.  Where a definition is recursive or the argument is by
induction, the least counterexample takes the place of induction (`LeastExists` of Basics,
`Least` of Table); `Iterates` of Basics is this argument for a recursive function that
takes one step per number.

### Table

`CountIsExact` counts non-empty buckets, tombstones included; `SearchesEnd` says that the
array searched always has an empty bucket, so the loops of `findEntry` and
`tableFindString`, which have no other exit, end; `KeysFound` and `UniqueBuckets` that a
key lies on the path its search takes, once; `RehashExact` that half-way through
`adjustCapacity` the new array holds the pairs of the buckets visited.

None of the parts is inductive alone.  That an empty bucket is left needs that `count` is
exact and stays below the load limit; that `count` is exact needs that `Store` finds an
existing key instead of adding it, which needs that every key is reachable; reachability
after `Store` needs that every bucket before the one `findEntry` returns is in use, which
needs that the search stops at all.  `FindEntryFinds` and `PutEntry` are the lemmas that
carry this.

`TableIsAMap` maps the array to the map of its live buckets.  A key has one bucket, so the
map is a function of the pairs alone; a rehash moves exactly the pairs, so each of its
steps is a stutter; the answer of `findEntry` or `tableFindString` is the map's because
the key is on the path before the first empty bucket.

Assumptions: `KeysAssumption` (types; null is no key, the two values that tell tombstones
apart differ) and `CapacityAssumption` (the first capacity is at least 2; 8 in the code).

### Machine

`IInv` has a part that always holds (types, the sorted list, complete closures, operands
in bounds) and a part for a running machine: frames nest and hold a callee that may run
(`FramesOK`), the list holds the open upvalues and they refer to cells (`OpenLive`), and
no value of the stack, the globals or an upvalue is a bare function with captured
variables or an incomplete closure (`ValuesUsable`, `BuildingOK`).

The checks on operands of `OP_LOAD_UVAL` never fail because only complete closures run.
That a frame runs a complete closure depends on what a callee's cell holds, which an
assignment through an upvalue could change, were the callee captured; so `OpenLive` must
exclude callees.  That no open upvalue outlives its cell when a frame is closed depends on
`vmCloseUpValue` finding all of them from the head of the list, which depends on its
order.  `CaptureLocal` keeps the order because it inserts where the search stops.

`UpvaluesAreBoxes`: a cell maps to the open upvalue that refers to it, if there is one; an
upvalue to the value `getUpValue` reads.  The heart is the lemma `Shrunk`: a step that
shortens the stack keeps every box, because exactly the upvalues of the cells that go are
closed, with the value they had.

Assumptions: `ValueAssumption` (the kinds of values do not overlap), `CodeAssumption`
(captured variables are given for each function and one handed on is one of the parent's;
for the indexes this is what `UpvaluesAreGrounded` proves of the resolver) and
`BoundAssumption`.  The theorems are about programs that keep the guards of the section
"Compiled code", as the run is.

### Collector

`RootsSurvive`, `StoredPointersAlive` and `PoolIsWeak` are one argument over the phases.
Marking: every marked object is gray, spared or has marked children.  Sweep: no object is
gray (`GrayWhileTracing`), so the marked objects contain the roots and are closed under
the pointers the collector follows, and those are what the sweep leaves.  Between
collections an instruction stores only what the stack, the globals or an object held by
them refers to, so the heap stays closed; `PendingOK` says it of what an instruction in
progress holds.  `OnlyGarbageIsFreed` is the other direction: for a freed object there is
a set of live objects that holds the roots and is closed, and does not have the object in
it.

`AccountingIsExact` needs sums over sets of objects.  `SizeOf` is the cardinality of the
set of bytes `{o} \X (1 .. size)`, so the theorems about finite sets do the arithmetic.

`AstrayOnlyUninitialised` assumes `Initialised`: `FreshMarks` is `{FALSE}` and elements not
yet stored read as no object.  Its invariant `Clean` adds to `IInv` that no object is spared
between collections and that no array has a blank element that reads as an object, so what
the collector traces is what was stored, and that is alive.

What the other theorems do not say: they are about the behaviours of Heap, which end where
the collector goes astray, as `heap_blanks` shows it can, and a spared object's children are
not covered.  `Stored` are the pointers the vtables of
the code follow, not those of a closure or an upvalue, which is the finding `heap_closures`.

Assumptions: `ObjsAssumption` (objects are finitely many, strings and functions differ)
and `NumbersAssumption` (sizes are positive).

### Resolver

A function is a stretch of the open scopes (`Shape`): the scope of its parameters, the
block of its body, further blocks.  `SlotsOf` says there is a sequence `ends` such that
each scope of a stretch has the slots from the end of the one below it (0 for
parameters) to its own end, that `slot` is the last end and `saved` of a function the end
of the stretch around it.  Hence `endScope` and the end of a function put `slot` back to
the right place.  `SlotsAreDense` follows: the places of a stretch are numbered in
adjoining intervals, so numbering is a bijection (`NumberedPlaces`).

`UpvaluesAreGrounded` is inductive together with `Shape` and `SlotsOf`: the index of a
captured parameter is its place less one, because parameters start at slot 0.
`TheRightParameter` needs the walk from an upvalue down to its declaration to be defined
(`WalksExist`), to stay as it was when upvalues are added elsewhere, and, for a chain of
new and existing upvalues in any mixture, to end at the parameter (`CapturedVariable`).
`NoVariableTwice` holds because `fnInfoAddUpVal` keeps the upvalues of a function different
(`Different`) and two different ones cannot stand for one variable: their parents' would
not be different, down to a function whose own parameters they are (`OneEach`).

Assumption: `NamesAssumption` (finitely many native functions).

### Code generator

The theorems are about programs of any length and depth: `Profiles`, which bounds the
programs TLC compiles, may be any set, and so may the width of a byte and the size of a
batch.  `TypeCorrect` holds for all of them.  The other two assume `LexicalJumps`: without
it the code breaks `JumpsLand` (finding `codegen_breaks`), as the patch of an inner
`break` is written to whatever is at that offset of the outer chunk.

`Sound(ch, holes)` is what is said of a chunk at any time.  It is a sequence of whole
instructions (`Whole`): each opcode is followed, after its operands, by the next opcode or
the end.  Every jump lands on an instruction, except those whose operand is one of `holes`;
these are blank, and each hole is the operand of an `OP_JIF` or an `OP_JMP`
(`JumpsLanded`).  What an instruction names is in the pool at the index its operand was
cut from (`Pooled`).

`JumpsLand` alone is not inductive: it lets any jump of an unfinished chunk be blank, but
says neither that somebody will patch it nor where.  `Structured` says which holes a
chunk has, `HolesAt`: those the statements in progress hold in their C variables (the exit
jump of a loop, the jump over a branch) and the `break`s and `skip`s of the loops around
them, counted per function, since chunk and `enclosing` are patched through the same
`open` and `loops`.  When a statement ends it patches its holes to the end of the code
(`EndIf`, `Else`, `EndWhile`) and they are holes no longer; a finished function has
none left.  It also says that the noted starts of loops are beginnings of
instructions, which is why `emitLoop` lands.

The lemmas follow the code.  `EmitType` and `InstructionKept`: to append keeps every
instruction before the end.  Writing two bytes into a hole keeps the beginnings, because
the hole is inside a jump and no other instruction overlaps it, and keeps every constant
operand, because no jump names a constant.  The lemmas about expressions are about
sequences of nodes, since a program's expressions are not bounded either.  `StartsAre` shows that
`Starts`, which reads the chunk from its first byte on as the disassembler does, finds
exactly the cells with an opcode.

Assumption: `CodegenAssumption` (a byte has at least 2 values, a batch at least one
element, types of the bounds).

### Compiled code at run time

`RunsCode`: a step of CodeRun is a step of Codegen or leaves its variables alone, so the
three theorems above hold of the chunks that are run.

Three theorems are about the stack while a script runs, whatever way its conditions turn
out.  `StackStaysCovered`: the machine comes to a statement with a cell on the stack for
every local alive there.  `LocalsStayKept`: a local that is read has been stored, and its
slot holds the value stored last.  `ArraysComeFilled`: an array that is printed has every
element of its literal at its index, and none beyond.

The properties speak of some instructions; what keeps them is said of all.  A chart `d` of a
chunk (`Charts`) gives each beginning of an instruction the shape that the stack has when it
is reached on any path: a depth it has at least, the locals (`Symbols`, id and slot) that
are in their slots, and the array literal in progress, as its length, the elements stored
in the array and those on the stack above it.  Each instruction leads from its shape to the
one behind it (`Leads`):

- what follows is no deeper than what the instruction leaves (`Effect`);
- what is written on the stack lies above the slots of the locals that stay; a local that
  is read is in the shape; one that is stored has a slot below the depth, its own name and
  no other local's slot (`KeepsLocals`);
- in a literal each constant is the next number, and a batch is collected at the index
  where the ones before it ended (`FillsArray`); elsewhere no array is in progress.

Where a jump lands the shape asks for no more than where it starts (`Under`), except for
the jumps that wait to be patched.  For a finished script no jump waits, and then the cells
are as the chart says after every step (`On`, `Covered`, in `RunInv`); the values that
earlier lines left are below.

That there is a chart is the invariant of compilation (`Drawing`, beside the `IInv` of
Codegen_proofs).  It is drawn while code is emitted: what was charted stays as it was
(`Prolongs`), and `B` gives each statement in progress the floor it finds: the locals of
the frames up to it, in as many cells.  The jumps that wait in a frame start at a shape no
poorer than the floor below the frame (`Waits`).  So when the frame ends and they are
patched to the end of the code, the shape charted there is the one the frame began with,
which may ask for less than there is: a branch that leaves a value behind is no obstacle,
one that took a value too many would be.  An expression leaves one value, an array literal
the array; `break` and `skip` wait in the frame of their loop.  Functions have chunks of
their own; while one is compiled, the chart is that of the saved chunk of the script.

A declaration stores its local at the slot that the resolver chose, while the value was
pushed at the depth the compiler happens to be at.  That the two are the same is the second
invariant of compilation (`Placing`): a block's slots begin behind those of all blocks
around it (`PlacedAt`), and where an inner block has locals those around it have declared
all of theirs, which is what `Orderly` asks for and where the argument breaks without it.

The theorems do not say that there is nothing but the locals on the stack; that is not so
(a loop around an `if` without `else` leaves a value per turn).  They are about scripts, as
CodeRun is; in functions the same instructions are emitted by the same actions.

Assumptions: `CodegenAssumption`, `CodeRunAssumption` (bounds of the stack and of the values
left by earlier lines, which lie on it) and `LexicalJumps`, without which a patch overwrites
any operand.  `StackStaysCovered` assumes nothing else.  `LocalsStayKept` also assumes
`Orderly` and `LocalsFit`: the slots of nested blocks fit the byte to which `emitBytes` cuts
an operand.  `ArraysComeFilled` assumes in addition `ArraysFit` (a literal's length and the
size of a batch fit a byte) and states its property while the pool of constants fits one: a
constant's index is cut before the test for too many constants.  The run `codegen` has
values that meet all of these.

### Only model-checked

- Liveness (`SetReturns`, `CollectionEnds`), which the prover does not cover.
- Scanner, Parser and Frontend: what a recursive function computes for all texts and trees
  takes induction over data, and their operators are RECURSIVE.
- `FlowFollowed` of CodeRun, an action property.  A chart says what the stack has at an
  instruction, not which statement it belongs to or which exits of the flow wait with
  which jump.

## 5. Findings

- `resolver_locals`: `resolveUpValue` searches the parameters of the parent function
  only.  `fun f(x){ var x = 2; fun g(){ return x; } return g; }` captures the
  argument, not the local; without a parameter of that name the program is rejected.
- `heap_closures`: `newClosure` and `newUpValue` install `obj_vtable`, whose
  `blacken` does nothing; `obj_closure_vtable` and `blacken_obj_closure`, which mark
  prototype and upvalues, are used by nobody.  A collection frees what a closure
  needs.
- `heap_operands`: the constants of the running script are no roots, nor is what an
  instruction holds in C variables.
- `heap_blanks`: `OP_ARR` leaves the elements of a literal uninitialised while they are
  evaluated, which may allocate; a collection then follows whatever they read as, such as
  the pointers of an array that was freed at the same place.
- `codegen_breaks`: `compile` of a function body does not put the enclosing function's
  loops aside.  A `break` in `while (a) { fun f() { break; } }` is noted in the outer
  loop; `patchJump` later writes its distance into the outer chunk at an offset of the
  inner one, and the inner jump stays blank.
- `session`: `freeScopesAndSymbols` and `freeLoopStack` leave their pointers as they
  are, so a second text in a session frees everything again and the process aborts.

Not findings of a run, but met on the way: a loop around an `if` without `else` leaves
a value on the stack per turn (`StackCovers` allows more cells than locals, never
fewer); the test for too many constants comes after the index was cut to a byte, so
`ConstantsDenote` holds only while the pool fits one; `for (;;)` without a condition is
accepted by the parser and gives `compileExpr` a null pointer; `break` and `skip` outside of
any loop are accepted too and give `loopAddBreak` and `loopAddSkip` one; `allocateObj` leaves
`marked` uninitialised (section 2, Heap); an unknown escape in a
string loses the character after the backslash.

## 6. Not modelled

Left out for good: the disassembler and printing, what natives compute, the bytes of
strings, freeing syntax trees (each node is freed by its parent; the error paths of
`parseArray` and `parseCallExpr` are listed as hazards), the fixed buffers for words
and messages.

Left out because the program does not get there: what a runtime error leaves to the
next line (`vm->upvalues`, `has_error`, `frame_count`).  Session keeps the variables,
but `FreedOnce` fails first.

Not done: the index check of arrays (`OP_GET_IND`, `OP_SET_IND`), and upvalue instructions
in Codegen, which emits those of locals and globals.
