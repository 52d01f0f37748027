----------------------------- MODULE Heap_proofs ------------------------------
(***************************************************************************)
(* Proofs about Heap, for any number of objects, any constants in the code *)
(* and whatever the uninitialised fields of new objects read as, in the    *)
(* behaviours Heap has: up to where the program or the collector uses an   *)
(* object that is not there.                                               *)
(*                                                                         *)
(* That a collection frees nothing in use is an argument over its three    *)
(* phases: after the roots are marked every marked object is gray or was   *)
(* spared; each trace keeps every black object's children marked; when     *)
(* no object is gray, the marked objects are closed under the pointers the *)
(* collector follows, hold the roots and the pool, and are what the sweep  *)
(* leaves.  Between collections instructions store what the stack holds.   *)
(* Neither half holds without the other.                                   *)
(***************************************************************************)
EXTENDS Heap, FiniteSetTheorems, SequenceTheorems, TLAPS

-----------------------------------------------------------------------------
(* Counting bytes.                                                         *)

(* The bytes of the objects of S in the heap h.                            *)
BytesOf(h, S) == UNION {{o} \X (1 .. Size[h[o].kind]) : o \in S}
Typed(h, S) == \A o \in S : h[o].kind \in Kinds

LEMMA BytesFinite ==
  ASSUME NEW h, NEW S, IsFiniteSet(S), Typed(h, S)
  PROVE  IsFiniteSet(BytesOf(h, S)) /\ Cardinality(BytesOf(h, S)) \in Nat
<1> DEFINE most == Size["string"] + Size["array"] + Size["fn"] + Size["closure"] + Size["upvalue"]
<1>1. most \in Nat /\ \A k \in Kinds : Size[k] \in Nat /\ Size[k] <= most
  BY NumbersAssumption DEF Kinds
<1>2. IsFiniteSet(1 .. most)
  BY <1>1, FS_Interval
<1>3. IsFiniteSet(S \X (1 .. most))
  BY <1>2, FS_Product, Zenon
<1>4. BytesOf(h, S) \subseteq S \X (1 .. most)
  <2> SUFFICES ASSUME NEW o \in S, NEW i \in 1 .. Size[h[o].kind]
               PROVE  i \in 1 .. most
    BY DEF BytesOf
  <2> HIDE DEF most
  <2> QED
    BY <1>1 DEF Typed
<1> QED
  BY <1>3, <1>4, FS_Subset, FS_CardinalityType

(* A new object adds its size.                                             *)
LEMMA BytesAdd ==
  ASSUME NEW h, NEW g, NEW S, NEW o, IsFiniteSet(S), Typed(h, S), o \notin S,
         \A p \in S : g[p].kind = h[p].kind, g[o].kind \in Kinds
  PROVE  Cardinality(BytesOf(g, S \cup {o})) =
           Cardinality(BytesOf(h, S)) + Size[g[o].kind]
<1> DEFINE n == Size[g[o].kind]
           new == {o} \X (1 .. n)
<1>1. n \in Nat /\ n = Size[g[o].kind]
  BY NumbersAssumption
<1> HIDE DEF n
<1>2. BytesOf(g, S \cup {o}) = BytesOf(h, S) \cup new
  BY <1>1 DEF BytesOf
<1>3. BytesOf(h, S) \cap new = {}
  BY DEF BytesOf
<1>4. IsFiniteSet(new) /\ Cardinality(new) = n
  <2>1. IsFiniteSet(1 .. n) /\ Cardinality(1 .. n) = IF 1 > n THEN 0 ELSE n - 1 + 1
    <3>1. n \in Int /\ 1 \in Int
      BY <1>1
    <3> QED
      BY <3>1, FS_Interval
  <2>2. IsFiniteSet({o}) /\ Cardinality({o}) = 1
    BY FS_Singleton
  <2>3. IsFiniteSet(new) /\ Cardinality(new) = Cardinality({o}) * Cardinality(1 .. n)
    BY <2>1, <2>2, FS_Product, Zenon
  <2> QED
    BY <1>1, <2>1, <2>2, <2>3
<1>5. Cardinality(BytesOf(h, S) \cup new) =
        Cardinality(BytesOf(h, S)) + Cardinality(new) - Cardinality({})
  <2>1. IsFiniteSet(BytesOf(h, S))
    BY BytesFinite
  <2> QED
    BY <1>3, <1>4, <2>1, FS_Union
<1>6. Cardinality({}) = 0 /\ Cardinality(BytesOf(h, S)) \in Nat
  BY FS_EmptySet, BytesFinite
<1>7. Cardinality(BytesOf(h, S) \cup new) = Cardinality(BytesOf(h, S)) + n
  BY <1>1, <1>4, <1>5, <1>6
<1> QED
  BY <1>1, <1>2, <1>7

(* What is freed takes its bytes with it.                                  *)
LEMMA BytesRemove ==
  ASSUME NEW h, NEW S, NEW W, IsFiniteSet(S), Typed(h, S), W \subseteq S
  PROVE  Cardinality(BytesOf(h, S \ W)) =
           Cardinality(BytesOf(h, S)) - Cardinality(BytesOf(h, W))
<1>1. /\ IsFiniteSet(S \ W) /\ Typed(h, S \ W)
      /\ IsFiniteSet(W) /\ Typed(h, W)
  BY FS_Subset DEF Typed
<1>2. BytesOf(h, S) = BytesOf(h, S \ W) \cup BytesOf(h, W)
  BY DEF BytesOf
<1>3. BytesOf(h, S \ W) \cap BytesOf(h, W) = {}
  BY DEF BytesOf
<1>4. /\ IsFiniteSet(BytesOf(h, S \ W)) /\ Cardinality(BytesOf(h, S \ W)) \in Nat
      /\ IsFiniteSet(BytesOf(h, W)) /\ Cardinality(BytesOf(h, W)) \in Nat
  BY <1>1, BytesFinite
<1>5. Cardinality(BytesOf(h, S \ W) \cup BytesOf(h, W)) =
        Cardinality(BytesOf(h, S \ W)) + Cardinality(BytesOf(h, W)) - Cardinality({})
  BY <1>3, <1>4, FS_Union
<1> QED
  BY <1>2, <1>4, <1>5, FS_EmptySet
-----------------------------------------------------------------------------
(* The inductive invariant.                                                *)

Instructions == {"concat", "convert", "array", "join", "closure", "upvalue"}

(* The second allocation of OP_CLOSURE has the closure in hand; the        *)
(* operands of OP_ADD are still on the stack.                              *)
PendingOK ==
  /\ pending \in {NULL} \cup [allocates : Instructions, temp : Objs \cup {NULL}]
  /\ pending # NULL /\ pending.allocates = "upvalue" => pending.temp \in Objs
  /\ pending # NULL /\ pending.allocates \in {"concat", "convert", "join"} => Top > 1

(* The gray stack is empty except while marking.                           *)
GrayWhileTracing == phase # "trace" => gray = {}

(* What the collector promises, and what it takes to show it.              *)
Collector == TriColour /\ StoredAlive /\ PoolAlive /\ GrayWhileTracing
IInv == TypeOK /\ PendingOK /\ Collector /\ RootsAlive /\ BytesExact

LEMMA AliveFinite ==
  ASSUME TypeOK
  PROVE  IsFiniteSet(Alive) /\ Typed(obj, Alive)
<1>1. Alive \subseteq Objs
  BY DEF Alive
<1>2. IsFiniteSet(Alive)
  BY <1>1, ObjsAssumption, FS_Subset
<1>3. Typed(obj, Alive)
  BY DEF TypeOK, Typed, Alive, Object
<1> QED
  BY <1>2, <1>3

LEMMA SizeIsCard ==
  /\ \A S : SizeOf(S) = Cardinality(BytesOf(obj, S))
  /\ \A S : (SizeOf(S) = Cardinality(BytesOf(obj, S)))'
BY DEF SizeOf, BytesOf

LEMMA NewTyped ==
  ASSUME NEW kind \in Kinds, NEW refs \in SUBSET Objs
  PROVE  /\ New(kind, refs) \in Object /\ New(kind, refs) # NULL
         /\ New(kind, refs).kind = kind /\ New(kind, refs).refs = refs
<1>1. New(kind, refs) \in Object
  BY DEF New, Object
<1> QED
  BY <1>1, ObjsAssumption DEF New

LEMMA InitInv == Init => IInv
<1> SUFFICES ASSUME Init PROVE IInv
  OBVIOUS
<1>1. Alive = Strings \cup Functions
  BY ObjsAssumption, NewTyped DEF Alive, Init, Kinds
<1>2. obj \in [Objs -> Object \cup {NULL}]
  BY ObjsAssumption, NewTyped DEF Init, Kinds
<1>3. bytes \in Nat
  <2>1. Alive \subseteq Objs
    BY DEF Alive
  <2>2. IsFiniteSet(Alive)
    BY <2>1, ObjsAssumption, FS_Subset
  <2>3. Typed(obj, Alive)
    BY <1>2 DEF Typed, Alive, Object
  <2> QED
    BY <2>2, <2>3, BytesFinite, SizeIsCard DEF Init
<1>4. TypeOK
  BY <1>2, <1>3, ObjsAssumption, NumbersAssumption DEF Init, TypeOK, Top
<1>5. \A o \in Alive : Stored(o) \subseteq Alive
  BY <1>1, ObjsAssumption DEF Init, Stored, Blackens, New
<1>6. Collector
  BY <1>1, <1>5 DEF Init, Collector, TriColour, StoredAlive, PoolAlive, GrayWhileTracing
<1>7. RootsAlive
  BY DEF Init, RootsAlive, InUse, Top
<1> QED
  BY <1>4, <1>6, <1>7 DEF Init, IInv, PendingOK, BytesExact
-----------------------------------------------------------------------------
(* What changes the stack.                                                 *)

LEMMA Prefix ==
  ASSUME NEW S, NEW s \in Seq(S), NEW m \in Int, m <= Len(s)
  PROVE  /\ SubSeq(s, 1, m) \in Seq(S)
         /\ Len(SubSeq(s, 1, m)) = IF m > 0 THEN m ELSE 0
         /\ \A i \in 1 .. Len(SubSeq(s, 1, m)) : i <= m /\ SubSeq(s, 1, m)[i] = s[i]
<1>1. \A i \in 1 .. m : s[i] \in S
  BY ElementOfSeq
<1>2. /\ SubSeq(s, 1, m) \in Seq(S)
      /\ Len(SubSeq(s, 1, m)) = IF 1 <= m THEN m - 1 + 1 ELSE 0
      /\ \A i \in 1 .. m - 1 + 1 : SubSeq(s, 1, m)[i] = s[1 + i - 1]
  BY <1>1, SubSeqProperties
<1> QED
  BY <1>2

LEMMA ReplaceStack ==
  ASSUME TypeOK, NEW n \in Nat, n <= Top, NEW v \in Objs \cup {Datum}, Replace(n, v)
  PROVE  /\ stack' \in Seq(Objs \cup {Datum}) /\ Top' <= StackBound
         /\ InUse' \subseteq InUse \cup {v}
<1> DEFINE low == SubSeq(stack, 1, Top - n)
<1>1. Top \in Nat /\ StackBound \in Nat
  BY NumbersAssumption DEF TypeOK, Top
<1>2. /\ low \in Seq(Objs \cup {Datum}) /\ Len(low) <= Top
      /\ Len(low) + 1 <= StackBound
      /\ \A i \in 1 .. Len(low) : i \in 1 .. Top /\ low[i] = stack[i]
  <2>1. /\ low \in Seq(Objs \cup {Datum})
        /\ Len(low) = IF Top - n > 0 THEN Top - n ELSE 0
        /\ \A i \in 1 .. Len(low) : i <= Top - n /\ low[i] = stack[i]
    BY <1>1, Prefix DEF TypeOK, Top
  <2>2. Top - n < StackBound /\ Top <= StackBound
    BY DEF TypeOK, Replace
  <2> HIDE DEF low
  <2> QED
    BY <1>1, <2>1, <2>2
<1> HIDE DEF low
<1>3. stack' = Append(low, v)
  BY DEF Replace, low
<1>4. /\ stack' \in Seq(Objs \cup {Datum}) /\ Len(stack') = Len(low) + 1
      /\ \A i \in 1 .. Len(stack') : stack'[i] = IF i <= Len(low) THEN low[i] ELSE v
  BY <1>2, <1>3
<1> QED
  BY <1>2, <1>4 DEF InUse, Top

LEMMA DropStack ==
  ASSUME TypeOK, NEW n \in Nat, n <= Top, stack' = SubSeq(stack, 1, Top - n)
  PROVE  /\ stack' \in Seq(Objs \cup {Datum}) /\ Top' <= StackBound
         /\ InUse' \subseteq InUse
<1>1. Top \in Nat /\ StackBound \in Nat
  BY NumbersAssumption DEF TypeOK, Top
<1>2. /\ stack' \in Seq(Objs \cup {Datum}) /\ Len(stack') = Top - n
      /\ \A i \in 1 .. Len(stack') : stack'[i] = stack[i]
  <2>1. Top - n \in Nat /\ stack \in Seq(Objs \cup {Datum})
    BY <1>1 DEF TypeOK
  <2>2. /\ stack' \in Seq(Objs \cup {Datum})
        /\ Len(stack') = IF Top - n > 0 THEN Top - n ELSE 0
        /\ \A i \in 1 .. Len(stack') : stack'[i] = stack[i]
    BY <1>1, <2>1, Prefix DEF Top
  <2> QED
    BY <2>1, <2>2
<1> QED
  BY <1>1, <1>2 DEF TypeOK, InUse, Top

(* The operands of an instruction are in use.                              *)
LEMMA PeekInUse ==
  ASSUME TypeOK, NEW d \in Nat, Top > d
  PROVE  Peek(d) \in InUse /\ Peek(d) \in Objs \cup {Datum}
<1>1. Top \in Nat /\ Top - d \in 1 .. Top
  BY DEF TypeOK, Top
<1> QED
  BY <1>1 DEF TypeOK, Top, Peek, InUse

(* The heap does not change.                                               *)
LEMMA SameHeap ==
  ASSUME IInv, UNCHANGED <<obj, gcVars, phase>>
  PROVE  Collector' /\ BytesExact' /\ Alive' = Alive /\ Kept' = Kept
<1>1. Alive' = Alive /\ Kept' = Kept /\ \A o : Traced(o)' = Traced(o) /\ Stored(o)' = Stored(o)
  BY DEF Alive, Kept, Traced, Stored, Blank, gcVars
<1>2. Collector'
  BY <1>1 DEF IInv, Collector, TriColour, StoredAlive, PoolAlive, GrayWhileTracing, gcVars
<1>3. BytesExact'
  BY <1>1 DEF IInv, BytesExact, SizeOf, gcVars
<1> QED
  BY <1>1, <1>2, <1>3
-----------------------------------------------------------------------------
(* Instructions.                                                           *)

(* An instruction that only changes the stack: v is what it may add.       *)
LEMMA StackInv ==
  ASSUME IInv, Idle, NEW v \in Alive \cup {Datum, NULL},
         stack' \in Seq(Objs \cup {Datum}), Top' <= StackBound,
         InUse' \subseteq InUse \cup {v},
         UNCHANGED <<obj, gcVars, globals, pending, phase>>
  PROVE  IInv'
<1>1. Collector' /\ BytesExact' /\ Alive' = Alive /\ Kept' = Kept
  BY SameHeap
<1>2. TypeOK' /\ PendingOK'
  BY DEF Idle, IInv, TypeOK, PendingOK, gcVars
<1>3. RootsAlive'
  BY <1>1 DEF Idle, IInv, RootsAlive, Kept
<1> QED
  BY <1>1, <1>2, <1>3 DEF IInv

(* An instruction that stores values in use in the object at o.            *)
LEMMA StoreInv ==
  ASSUME IInv, Idle, NEW o \in Alive, NEW new \in Object, new.kind = obj[o].kind,
         new.refs \subseteq obj[o].refs \cup Alive, obj' = [obj EXCEPT ![o] = new],
         stack' \in Seq(Objs \cup {Datum}), Top' <= StackBound, InUse' \subseteq InUse,
         UNCHANGED <<gcVars, globals, pending, phase>>
  PROVE  IInv' /\ Alive' = Alive
<1>1. /\ o \in Objs /\ obj[o] \in Object /\ new # NULL
      /\ obj' \in [Objs -> Object \cup {NULL}]
      /\ obj'[o] = new /\ \A p \in Objs \ {o} : obj'[p] = obj[p]
  BY ObjsAssumption DEF IInv, TypeOK, Alive
<1>2. Alive' = Alive /\ Kept' = Kept
  <2>1. Alive' = Alive
    BY <1>1 DEF Alive
  <2> QED
    BY <2>1 DEF Kept, gcVars
<1>3. \A p \in Alive : obj'[p].kind = obj[p].kind /\ obj'[p].refs \subseteq obj[p].refs \cup Alive
  BY <1>1 DEF Alive
<1>4. \A p \in Alive : Stored(p)' \subseteq Stored(p) \cup Alive
  BY <1>3 DEF Stored
<1>5. Collector'
  BY <1>2, <1>4
     DEF Idle, IInv, Collector, TriColour, StoredAlive, PoolAlive, GrayWhileTracing, gcVars
<1>6. BytesExact'
  <2>1. SizeOf(Alive)' = SizeOf(Alive)
    BY <1>2, <1>3 DEF SizeOf
  <2> QED
    BY <2>1 DEF IInv, BytesExact, gcVars
<1>7. TypeOK' /\ PendingOK'
  BY <1>1 DEF Idle, IInv, TypeOK, PendingOK, gcVars
<1>8. RootsAlive'
  BY <1>2 DEF IInv, RootsAlive
<1> QED
  BY <1>2, <1>5, <1>6, <1>7, <1>8 DEF IInv

LEMMA Rewritten ==
  ASSUME NEW x \in Object, NEW refs
  PROVE  [x EXCEPT !.refs = refs] = [kind |-> x.kind, refs |-> refs, blank |-> x.blank]
<1>1. x = [kind |-> x.kind, refs |-> x.refs, blank |-> x.blank]
  BY DEF Object
<1>2. PICK k, r, b : x = [kind |-> k, refs |-> r, blank |-> b]
  BY <1>1
<1> QED
  BY <1>2

(* What is in use exists between collections.                              *)
LEMMA UsedAlive ==
  ASSUME IInv, Idle
  PROVE  InUse \cap Objs \subseteq Alive /\ \A s \in Objs : globals[s] \in Alive \cup {Datum, NULL}
<1>1. Datum \notin Objs /\ NULL \notin Objs
  BY ObjsAssumption
<1> QED
  BY <1>1 DEF Idle, IInv, TypeOK, RootsAlive, Kept

LEMMA StackInstructions ==
  ASSUME IInv,
         \/ \E v \in Objs \cup {Datum} : PushValue(v) \/ GetElement(v)
         \/ \E s \in Objs : LoadGlobal(s)
         \/ \E i \in 1 .. Top : LoadLocal(i) \/ StoreLocal(i)
         \/ \E u, r \in Objs : LoadUpvalue(u, r)
         \/ Pop
  PROVE  IInv' /\ UNCHANGED obj
<1> USE DEF Idle
<1>1. Top \in Nat /\ TypeOK
  BY DEF IInv, TypeOK, Top
<1>2. ASSUME NEW n \in Nat, n <= Top, NEW v \in Alive \cup {Datum}, Replace(n, v), Idle,
             UNCHANGED <<obj, gcVars, globals, pending, phase>>
      PROVE  IInv'
  <2>1. v \in Objs \cup {Datum}
    BY DEF Alive
  <2>2. /\ stack' \in Seq(Objs \cup {Datum}) /\ Top' <= StackBound
        /\ InUse' \subseteq InUse \cup {v}
    BY <1>1, <1>2, <2>1, ReplaceStack
  <2> QED
    BY <1>2, <2>2, StackInv
<1>3. ASSUME NEW v \in Objs \cup {Datum}, PushValue(v)
      PROVE  IInv'
  BY <1>1, <1>2, <1>3 DEF PushValue
<1>4. ASSUME NEW r \in Objs \cup {Datum}, GetElement(r)
      PROVE  IInv'
  BY <1>1, <1>2, <1>4 DEF GetElement, Operands
<1>5. ASSUME NEW s \in Objs, LoadGlobal(s)
      PROVE  IInv'
  <2>1. globals[s] \in Alive \cup {Datum}
    BY <1>5, UsedAlive DEF LoadGlobal
  <2> QED
    BY <1>1, <1>2, <1>5, <2>1 DEF LoadGlobal
<1>6. ASSUME NEW i \in 1 .. Top, LoadLocal(i)
      PROVE  IInv'
  <2>1. stack[i] \in InUse /\ stack[i] \in Objs \cup {Datum}
    BY <1>1 DEF TypeOK, Top, InUse
  <2>2. stack[i] \in Alive \cup {Datum}
    BY <1>6, <2>1, UsedAlive DEF LoadLocal
  <2> QED
    BY <1>1, <1>2, <1>6, <2>2 DEF LoadLocal
<1>7. ASSUME NEW i \in 1 .. Top, StoreLocal(i)
      PROVE  IInv'
  <2>1. Peek(0) \in InUse /\ Peek(0) \in Objs \cup {Datum}
    BY <1>1, <1>7, PeekInUse DEF StoreLocal, Operands
  <2>2. /\ stack' \in Seq(Objs \cup {Datum}) /\ Top' = Top
        /\ \A j \in 1 .. Top : stack'[j] = stack[j] \/ stack'[j] = Peek(0)
    BY <1>1, <1>7, <2>1 DEF StoreLocal, TypeOK, Top
  <2>3. Top' <= StackBound /\ InUse' \subseteq InUse \cup {Datum}
    BY <1>1, <2>1, <2>2 DEF TypeOK, InUse
  <2> QED
    BY <1>7, <2>2, <2>3, StackInv DEF StoreLocal
<1>8. ASSUME NEW u \in Objs, NEW r \in Objs, LoadUpvalue(u, r)
      PROVE  IInv'
  BY <1>1, <1>2, <1>8 DEF LoadUpvalue
<1>9. ASSUME Pop
      PROVE  IInv'
  <2>1. 1 <= Top /\ stack' = SubSeq(stack, 1, Top - 1)
    BY <1>9 DEF Pop, Drop, Operands
  <2>2. /\ stack' \in Seq(Objs \cup {Datum}) /\ Top' <= StackBound
        /\ InUse' \subseteq InUse \cup {Datum}
    BY <1>1, <2>1, DropStack
  <2> QED
    BY <1>9, <2>2, StackInv DEF Pop
<1>10. UNCHANGED obj
  BY DEF PushValue, GetElement, LoadGlobal, LoadLocal, StoreLocal, LoadUpvalue, Pop
<1> QED
  BY <1>3, <1>4, <1>5, <1>6, <1>7, <1>8, <1>9, <1>10

LEMMA StoreInstructions ==
  ASSUME IInv,
         \/ \E i \in 1 .. Top : CollectElements(i)
         \/ SetElement
         \/ \E u \in Objs : StoreUpvalue(u)
  PROVE  IInv' /\ Alive' = Alive
<1> USE DEF Idle
<1>1. Top \in Nat /\ TypeOK
  BY DEF IInv, TypeOK, Top
<1>2. ASSUME NEW d \in Nat, Top > d, Idle
      PROVE  Peek(d) \in Alive \cup {Datum}
  BY <1>1, <1>2, PeekInUse, UsedAlive
<1>3. ASSUME NEW i \in 1 .. Top, CollectElements(i)
      PROVE  IInv' /\ Alive' = Alive
  <2> DEFINE o == Peek(i)
             values == Objs \cap {Peek(d) : d \in 0 .. i - 1}
  <2> DEFINE new(blank) ==
               [kind |-> obj[o].kind, refs |-> obj[o].refs \cup values, blank |-> blank]
  <2>1. PICK blank \in (SUBSET obj[o].blank) \cup {NULL} : obj' = [obj EXCEPT ![o] = new(blank)]
    BY <1>3 DEF CollectElements
  <2>2. Top > i /\ i \in Nat /\ o \in Alive /\ obj[o] \in Object /\ obj[o].blank \in SUBSET Objs
    <3>1. Top > i /\ i \in Nat
      BY <1>1, <1>3 DEF CollectElements
    <3>2. o \in Alive /\ obj[o].blank # NULL
      BY <1>3 DEF CollectElements, Complete
    <3> QED
      BY <1>1, <3>1, <3>2 DEF TypeOK, Alive, Object
  <2>3. values \subseteq Alive
    <3> SUFFICES ASSUME NEW d \in 0 .. i - 1, Peek(d) \in Objs PROVE Peek(d) \in Alive
      OBVIOUS
    <3>1. d \in Nat /\ Top > d
      BY <1>1, <2>2
    <3> QED
      BY <1>2, <1>3, <3>1, ObjsAssumption DEF CollectElements
  <2>4. /\ new(blank) \in Object /\ new(blank).kind = obj[o].kind
        /\ new(blank).refs \subseteq obj[o].refs \cup Alive
    <3> HIDE DEF o, values
    <3> QED
      BY <2>2, <2>3 DEF Object, Alive
  <2>5. /\ stack' \in Seq(Objs \cup {Datum}) /\ Top' <= StackBound
        /\ InUse' \subseteq InUse
    <3>1. i <= Top /\ stack' = SubSeq(stack, 1, Top - i)
      BY <1>3 DEF CollectElements
    <3> QED
      BY <1>1, <2>2, <3>1, DropStack
  <2>6. UNCHANGED <<gcVars, globals, pending, phase>> /\ Idle
    BY <1>3 DEF CollectElements
  <2> HIDE DEF new, o, values
  <2> QED
    BY <2>1, <2>2, <2>4, <2>5, <2>6, StoreInv
<1>4. ASSUME SetElement
      PROVE  IInv' /\ Alive' = Alive
  <2> DEFINE o == Peek(0)
  <2>1. PICK old \in {{}} \cup {{r} : r \in obj[o].refs} :
           obj' = [obj EXCEPT ![o].refs = (@ \ old) \cup ({Peek(1)} \cap Objs)]
    BY <1>4 DEF SetElement
  <2>2. /\ Top >= 2 /\ o \in Alive /\ obj[o] \in Object
        /\ {Peek(1)} \cap Objs \subseteq Alive
    <3>1. Top >= 2 /\ o \in Alive /\ Idle
      BY <1>4 DEF SetElement, Operands, IsKind
    <3>2. Peek(1) \in Alive \cup {Datum} /\ Datum \notin Objs
      BY <1>1, <1>2, <3>1, ObjsAssumption
    <3> QED
      BY <1>1, <3>1, <3>2 DEF TypeOK, Alive
  <2> DEFINE new == [kind |-> obj[o].kind, refs |-> (obj[o].refs \ old) \cup ({Peek(1)} \cap Objs),
                     blank |-> obj[o].blank]
  <2>3. new \in Object /\ new.kind = obj[o].kind /\ new.refs \subseteq obj[o].refs \cup Alive
    BY <2>2 DEF Object
  <2>4. obj' = [obj EXCEPT ![o] = new]
    <3> HIDE DEF o
    <3>1. [obj[o] EXCEPT !.refs = (@ \ old) \cup ({Peek(1)} \cap Objs)] = new
      BY <2>2, Rewritten
    <3>2. obj' = [obj EXCEPT ![o] = [obj[o] EXCEPT !.refs = (@ \ old) \cup ({Peek(1)} \cap Objs)]]
      BY <2>1
    <3> QED
      BY <3>1, <3>2
  <2>5. /\ stack' \in Seq(Objs \cup {Datum}) /\ Top' <= StackBound
        /\ InUse' \subseteq InUse
    <3>1. 1 \in Nat /\ 1 <= Top /\ stack' = SubSeq(stack, 1, Top - 1)
      BY <1>1, <1>4, <2>2 DEF SetElement, Drop
    <3> QED
      BY <1>1, <3>1, DropStack
  <2> HIDE DEF new, o
  <2> QED
    BY <1>4, <2>2, <2>3, <2>4, <2>5, StoreInv DEF SetElement
<1>5. ASSUME NEW u \in Objs, StoreUpvalue(u)
      PROVE  IInv' /\ Alive' = Alive
  <2>1. /\ u \in Alive /\ obj[u] \in Object
        /\ {Peek(0)} \cap Objs \subseteq Alive
    BY <1>1, <1>2, <1>5, ObjsAssumption DEF StoreUpvalue, Operands, Reached, IsKind, TypeOK, Alive
  <2> DEFINE new == [kind |-> obj[u].kind, refs |-> {Peek(0)} \cap Objs, blank |-> obj[u].blank]
  <2>2. new \in Object /\ new.kind = obj[u].kind /\ new.refs \subseteq obj[u].refs \cup Alive
    BY <2>1 DEF Object
  <2>3. obj' = [obj EXCEPT ![u] = new]
    <3>1. [obj[u] EXCEPT !.refs = {Peek(0)} \cap Objs] = new
      BY <2>1, Rewritten
    <3>2. obj' = [obj EXCEPT ![u] = [obj[u] EXCEPT !.refs = {Peek(0)} \cap Objs]]
      BY <1>5 DEF StoreUpvalue
    <3> QED
      BY <3>1, <3>2
  <2>4. /\ stack' \in Seq(Objs \cup {Datum}) /\ Top' <= StackBound
        /\ InUse' \subseteq InUse
    BY <1>1, <1>5 DEF StoreUpvalue, vmVars, TypeOK, InUse, Top
  <2> HIDE DEF new
  <2> QED
    BY <1>5, <2>1, <2>2, <2>3, <2>4, StoreInv DEF StoreUpvalue, vmVars
<1> QED
  BY <1>3, <1>4, <1>5

LEMMA InstructionInv ==
  ASSUME IInv, Instruction
  PROVE  IInv' /\ Alive \subseteq Alive'
<1> USE DEF Idle
<1>1. ASSUME NEW s \in Objs, DefineGlobal(s)
      PROVE  IInv' /\ UNCHANGED obj
  <2>1. Collector' /\ BytesExact' /\ Alive' = Alive /\ Kept' = Kept
    BY <1>1, SameHeap DEF DefineGlobal
  <2>2. 1 <= Top /\ TypeOK
    BY <1>1 DEF DefineGlobal, Operands, IInv
  <2>3. /\ stack' \in Seq(Objs \cup {Datum}) /\ Top' <= StackBound
        /\ InUse' \subseteq InUse
    BY <1>1, <2>2, DropStack DEF DefineGlobal, Drop
  <2>4. Peek(0) \in InUse /\ Peek(0) \in Objs \cup {Datum}
    BY <2>2, PeekInUse DEF TypeOK, Top
  <2>5. TypeOK' /\ PendingOK'
    BY <1>1, <2>3, <2>4 DEF DefineGlobal, IInv, TypeOK, PendingOK, gcVars
  <2>6. RootsAlive'
    BY <1>1, <2>1, <2>3, <2>4 DEF DefineGlobal, IInv, TypeOK, RootsAlive, Kept, IsKind
  <2> QED
    BY <1>1, <2>1, <2>5, <2>6 DEF DefineGlobal, IInv
<1>2. ASSUME NEW what \in Instructions, Begin(what), what # "upvalue",
             what \in {"concat", "convert", "join"} => Top > 1
      PROVE  IInv' /\ UNCHANGED obj
  <2>1. Collector' /\ BytesExact' /\ Alive' = Alive /\ Kept' = Kept
    BY <1>2, SameHeap DEF Begin
  <2>2. TypeOK' /\ PendingOK'
    BY <1>2 DEF Begin, IInv, TypeOK, PendingOK, gcVars, vmVars, Top
  <2>3. RootsAlive'
    BY <1>2, <2>1 DEF Begin, IInv, RootsAlive, InUse, Top, vmVars
  <2> QED
    BY <1>2, <2>1, <2>2, <2>3 DEF Begin, IInv
<1>3. BeginAdd \/ BeginArray \/ BeginJoin \/ BeginClosure => IInv' /\ UNCHANGED obj
  <2>1. Top \in Nat
    BY DEF IInv, TypeOK, Top
  <2> QED
    BY <1>2, <2>1 DEF BeginAdd, BeginArray, BeginJoin, BeginClosure, Operands, Instructions
<1>4. UNCHANGED obj => Alive' = Alive
  BY DEF Alive
<1> QED
  BY <1>1, <1>3, <1>4, StackInstructions, StoreInstructions DEF Instruction
-----------------------------------------------------------------------------
(* Allocations.                                                            *)

(* An object at a free address, to which a living object may then point.   *)
LEMMA NewObject ==
  ASSUME IInv, phase = "run", phase' = "run",
         NEW o \in Objs, obj[o] = NULL,
         obj' \in [Objs -> Object \cup {NULL}], obj'[o] \in Object,
         \A p \in Objs \ {o} : obj[p] = NULL => obj'[p] = NULL,
         \A p \in Alive : /\ obj'[p] \in Object /\ obj'[p].kind = obj[p].kind
                          /\ obj'[p].refs \subseteq obj[p].refs \cup {o},
         obj'[o].refs \subseteq Alive,
         pool' \subseteq pool \cup {o}, bytes' = bytes + Size[obj'[o].kind],
         UNCHANGED <<gray, spared>>
  PROVE  Collector' /\ BytesExact' /\ bytes' \in Nat /\ Alive' = Alive \cup {o}
<1>1. Alive' = Alive \cup {o} /\ o \notin Alive
  <2>1. NULL \notin Object
    BY ObjsAssumption
  <2> QED
    BY <2>1 DEF Alive
<1>2. \A p \in Alive : Stored(p)' \subseteq Stored(p) \cup {o}
  BY DEF Stored
<1>3. Stored(o)' \subseteq Alive
  BY DEF Stored
<1>4. Collector'
  BY <1>1, <1>2, <1>3
     DEF IInv, Collector, TriColour, StoredAlive, PoolAlive, GrayWhileTracing
<1>5. obj'[o].kind \in Kinds /\ Size[obj'[o].kind] \in Nat
  BY NumbersAssumption DEF Object
<1>6. BytesExact'
  <2>1. IsFiniteSet(Alive) /\ Typed(obj, Alive)
    BY AliveFinite DEF IInv
  <2>2. Cardinality(BytesOf(obj', Alive \cup {o})) =
          Cardinality(BytesOf(obj, Alive)) + Size[obj'[o].kind]
    <3> SUFFICES ASSUME NEW g, g = obj', NEW S, S = Alive
                 PROVE  Cardinality(BytesOf(g, S \cup {o})) =
                          Cardinality(BytesOf(obj, S)) + Size[g[o].kind]
      OBVIOUS
    <3>1. /\ IsFiniteSet(S) /\ Typed(obj, S) /\ o \notin S
          /\ \A p \in S : g[p].kind = obj[p].kind
          /\ g[o].kind \in Kinds
      BY <1>1, <1>5, <2>1
    <3> QED
      BY ONLY <3>1, BytesAdd, SMTT(30)
  <2>3. bytes = Cardinality(BytesOf(obj, Alive))
    BY SizeIsCard DEF IInv, BytesExact
  <2>4. SizeOf(Alive)' = Cardinality(BytesOf(obj', Alive'))
    BY DEF SizeOf, BytesOf
  <2> QED
    BY <1>1, <2>2, <2>3, <2>4 DEF BytesExact
<1> QED
  BY <1>1, <1>4, <1>5, <1>6 DEF IInv, TypeOK

(* allocateObj, with what the instruction then does to the stack.          *)
LEMMA CreateInv ==
  ASSUME IInv, phase = "run", UNCHANGED <<globals, phase>>,
         NEW o \in Objs, NEW object \in Object, object.refs \subseteq Alive,
         Create(o, object), pool' \subseteq pool \cup {o},
         stack' \in Seq(Objs \cup {Datum}), Top' <= StackBound,
         InUse' \subseteq InUse \cup {o}, PendingOK'
  PROVE  IInv'
<1>1. /\ obj[o] = NULL
      /\ obj' = [obj EXCEPT ![o] = object]
      /\ marked' \in [Objs -> BOOLEAN]
      /\ bytes' = bytes + Size[object.kind]
      /\ UNCHANGED <<nextGC, gray, spared>>
  BY ObjsAssumption DEF Create, IInv, TypeOK
<1>2. /\ obj' \in [Objs -> Object \cup {NULL}]
      /\ obj'[o] = object
      /\ \A p \in Objs \ {o} : obj'[p] = obj[p]
  BY <1>1 DEF IInv, TypeOK
<1>3. \A p \in Alive : p \in Objs \ {o} /\ obj[p] \in Object
  BY <1>1 DEF IInv, TypeOK, Alive
<1>4. Collector' /\ BytesExact' /\ bytes' \in Nat /\ Alive' = Alive \cup {o}
  BY <1>1, <1>2, <1>3, NewObject
<1>5. TypeOK'
  BY <1>1, <1>2, <1>4 DEF IInv, TypeOK
<1>6. RootsAlive'
  BY <1>4 DEF IInv, RootsAlive, Kept
<1> QED
  BY <1>4, <1>5, <1>6 DEF IInv

(* newUpValue: the closure in hand gets it.                                *)
LEMMA NewUpValueInv ==
  ASSUME IInv, NEW o \in Objs, NewUpValue(o)
  PROVE  IInv'
<1> DEFINE c == pending.temp
<1>1. /\ phase = "run" /\ phase' = "run" /\ c \in Alive
      /\ obj[o] = NULL /\ obj[c] \in Object /\ o # c
  BY ObjsAssumption DEF NewUpValue, Allocating, IInv, PendingOK, TypeOK, Alive
<1> HIDE DEF c
<1>2. obj' = [obj EXCEPT ![o] = [kind |-> "upvalue", refs |-> {}, blank |-> NULL],
                         ![c].refs = @ \cup {o}]
  BY DEF NewUpValue, New, c
<1>3. /\ obj'[o] = [kind |-> "upvalue", refs |-> {}, blank |-> NULL]
      /\ obj'[c] = [kind |-> obj[c].kind, refs |-> obj[c].refs \cup {o}, blank |-> obj[c].blank]
      /\ \A p \in Objs \ {o, c} : obj'[p] = obj[p]
      /\ DOMAIN obj' = Objs
      /\ obj' = [p \in Objs |-> obj'[p]]
  BY <1>1, <1>2 DEF IInv, TypeOK, Alive, Object
<1>4. /\ obj'[o] \in Object /\ obj'[c] \in Object
      /\ obj' \in [Objs -> Object \cup {NULL}]
  <2>1. obj'[o] \in Object
    BY <1>3 DEF Object, Kinds
  <2>2. obj'[c] \in Object
    BY <1>1, <1>3 DEF Object
  <2>3. \A p \in Objs : obj'[p] \in Object \cup {NULL}
    BY <1>3, <2>1, <2>2 DEF IInv, TypeOK
  <2> QED
    BY <1>3, <2>1, <2>2, <2>3
<1>5. /\ marked' \in [Objs -> BOOLEAN]
      /\ bytes' = bytes + Size[obj'[o].kind]
      /\ UNCHANGED <<pool, nextGC, gray, spared, globals>>
  BY <1>3, ObjsAssumption DEF NewUpValue, IInv, TypeOK
<1>6. /\ \A p \in Alive : /\ obj'[p] \in Object /\ obj'[p].kind = obj[p].kind
                          /\ obj'[p].refs \subseteq obj[p].refs \cup {o}
      /\ \A p \in Objs \ {o} : obj[p] = NULL => obj'[p] = NULL
      /\ obj'[o].refs \subseteq Alive
  <2>1. \A p \in Alive : p \in Objs \ {o} /\ obj[p] \in Object
    BY <1>1 DEF Alive, IInv, TypeOK
  <2>2. \A p \in Alive : p # c => obj'[p] = obj[p]
    BY <1>3, <2>1
  <2>3. obj'[c].kind = obj[c].kind /\ obj'[c].refs = obj[c].refs \cup {o}
    BY <1>3
  <2>4. \A p \in Objs \ {o} : obj[p] = NULL => p # c /\ obj'[p] = NULL
    BY <1>1, <1>3 DEF Alive
  <2>5. obj'[o].refs = {}
    BY <1>3
  <2> QED
    BY <1>4, <2>1, <2>2, <2>3, <2>4, <2>5
<1>7. Collector' /\ BytesExact' /\ bytes' \in Nat /\ Alive' = Alive \cup {o}
  BY <1>1, <1>4, <1>5, <1>6, NewObject
<1>8. /\ stack' \in Seq(Objs \cup {Datum}) /\ Top' <= StackBound
      /\ InUse' \subseteq InUse \cup {c}
  <2>1. c \in Objs /\ Replace(0, c) /\ 0 <= Top
    BY <1>1 DEF NewUpValue, Finish, c, Alive, IInv, TypeOK, Top
  <2> QED
    BY <2>1, ReplaceStack DEF IInv
<1>9. TypeOK' /\ PendingOK'
  BY <1>4, <1>5, <1>7, <1>8, <1>1 DEF IInv, TypeOK, PendingOK, NewUpValue, Finish
<1>10. RootsAlive'
  BY <1>1, <1>5, <1>7, <1>8 DEF IInv, RootsAlive, Kept
<1> QED
  BY <1>7, <1>9, <1>10 DEF IInv

LEMMA AllocateInv ==
  ASSUME IInv, Allocate
  PROVE  IInv'
<1> SUFFICES ASSUME NEW o \in Objs,
                    Concat(o) \/ Convert(o) \/ NewArray(o) \/ JoinArrays(o) \/ NewClosure(o)
             PROVE  IInv'
  BY NewUpValueInv DEF Allocate
<1>1. /\ phase = "run" /\ UNCHANGED <<globals, phase>>
      /\ pending \in [allocates : Instructions, temp : Objs \cup {NULL}]
      /\ pending # NULL
  BY DEF Concat, Convert, NewArray, JoinArrays, NewClosure, vmVars, Allocating, IInv, PendingOK
<1>2. Top \in Nat
  BY DEF IInv, TypeOK, Top
<1>3. CASE Concat(o)
  <2>1. Replace(2, o) /\ 2 <= Top /\ pending' = NULL
    BY <1>1, <1>2, <1>3 DEF Concat, Allocating, Finish, IInv, PendingOK
  <2>2. /\ stack' \in Seq(Objs \cup {Datum}) /\ Top' <= StackBound
        /\ InUse' \subseteq InUse \cup {o}
    BY <2>1, ReplaceStack DEF IInv
  <2>3. Create(o, New("string", {})) /\ "string" \in Kinds /\ UNCHANGED pool
    BY <1>3 DEF Concat, Kinds
  <2> QED
    BY <1>1, <2>1, <2>2, <2>3, NewTyped, CreateInv DEF PendingOK
<1>4. CASE Convert(o)
  <2>1. Create(o, New("string", {})) /\ "string" \in Kinds /\ pool' = pool \cup {o}
    BY <1>4 DEF Convert, Kinds
  <2>2. UNCHANGED stack /\ Top > 1 /\ pending' = [allocates |-> "concat", temp |-> o]
    BY <1>1, <1>4 DEF Convert, vmVars, Allocating, IInv, PendingOK, Then
  <2>3. /\ stack' \in Seq(Objs \cup {Datum}) /\ Top' <= StackBound /\ Top' > 1
        /\ InUse' \subseteq InUse \cup {o}
    BY <2>2 DEF IInv, TypeOK, InUse, Top
  <2>4. PendingOK'
    BY <2>2, <2>3 DEF PendingOK, Instructions
  <2> QED
    BY <1>1, <2>1, <2>3, <2>4, NewTyped, CreateInv
<1>5. CASE NewArray(o)
  <2>1. Replace(0, o) /\ 0 <= Top /\ pending' = NULL
    BY <1>2, <1>5 DEF NewArray, Finish
  <2>2. /\ stack' \in Seq(Objs \cup {Datum}) /\ Top' <= StackBound
        /\ InUse' \subseteq InUse \cup {o}
    BY <2>1, ReplaceStack DEF IInv
  <2>3. PICK blank \in FreshElements \cup {NULL} :
           Create(o, [kind |-> "array", refs |-> {}, blank |-> blank])
    BY <1>5 DEF NewArray
  <2> DEFINE object == [kind |-> "array", refs |-> {}, blank |-> blank]
  <2>4. object \in Object /\ object.refs \subseteq Alive /\ UNCHANGED pool
    BY <1>5, ObjsAssumption DEF NewArray, Object, Kinds
  <2> HIDE DEF object
  <2> QED
    BY <1>1, <2>1, <2>2, <2>3, <2>4, CreateInv DEF PendingOK, object
<1>6. CASE JoinArrays(o)
  <2>1. Replace(2, o) /\ 2 <= Top /\ pending' = NULL
    BY <1>1, <1>2, <1>6 DEF JoinArrays, Allocating, Finish, IInv, PendingOK
  <2>2. /\ stack' \in Seq(Objs \cup {Datum}) /\ Top' <= StackBound
        /\ InUse' \subseteq InUse \cup {o}
    BY <2>1, ReplaceStack DEF IInv
  <2>3. /\ Create(o, New("array", Elements)) /\ Elements \subseteq Alive /\ Elements \subseteq Objs
        /\ "array" \in Kinds /\ UNCHANGED pool
    BY <1>6 DEF JoinArrays, Kinds, Alive
  <2> QED
    BY <1>1, <2>1, <2>2, <2>3, NewTyped, CreateInv DEF PendingOK
<1>7. CASE NewClosure(o)
  <2>1. PICK f \in Alive : Create(o, New("closure", {f}))
    BY <1>7 DEF NewClosure
  <2>2. UNCHANGED <<stack, pool>> /\ pending' = [allocates |-> "upvalue", temp |-> o]
    BY <1>7 DEF NewClosure, vmVars, Then
  <2>3. /\ stack' \in Seq(Objs \cup {Datum}) /\ Top' <= StackBound
        /\ InUse' \subseteq InUse \cup {o}
    BY <2>2 DEF IInv, TypeOK, InUse, Top
  <2>4. PendingOK'
    BY <2>2 DEF PendingOK, Instructions
  <2>5. "closure" \in Kinds /\ {f} \subseteq Objs
    BY DEF Kinds, Alive
  <2> QED
    BY <1>1, <2>1, <2>2, <2>3, <2>4, <2>5, NewTyped, CreateInv
<1> QED
  BY <1>3, <1>4, <1>5, <1>6, <1>7
-----------------------------------------------------------------------------
(* The collector.                                                          *)

LEMMA RootsLive ==
  ASSUME IInv
  PROVE  Roots \subseteq Kept
<1>1. NULL \notin Objs /\ Datum \notin Objs
  BY ObjsAssumption
<1> QED
  BY <1>1 DEF IInv, RootsAlive, Roots

LEMMA MarkRootsInv ==
  ASSUME IInv, MarkRoots
  PROVE  IInv'
<1>1. PICK stale \in {{}} \cup {{o} : o \in Alive} :
         Mark(Roots \cup stale) /\ gray' = NewlyGray(Roots \cup stale)
  BY DEF MarkRoots
<1>2. phase = "run" /\ phase' = "trace" /\ pending # NULL
      /\ spared' = spared \cup {o \in Alive : marked[o]}
      /\ UNCHANGED <<obj, pool, bytes, nextGC, vmVars, pending>>
  BY DEF MarkRoots
<1> DEFINE S == Roots \cup stale
<1>3. S \subseteq Alive /\ Alive \subseteq Objs
  BY <1>1, <1>2, RootsLive DEF Kept, Alive
<1>4. marked' = [o \in Objs |-> marked[o] \/ o \in S] /\ gray' = {o \in S : ~marked[o]}
  BY <1>1 DEF Mark, NewlyGray
<1>5. /\ Alive' = Alive /\ Roots' = Roots /\ InUse' = InUse
      /\ \A p : Stored(p)' = Stored(p)
  BY <1>2 DEF Alive, Roots, InUse, Top, vmVars, Stored
<1> HIDE DEF S
<1>6. Kept' = {o \in Alive : marked[o] \/ o \in S}
  BY <1>2, <1>3, <1>4, <1>5 DEF Kept
<1>7. TypeOK'
  BY <1>2, <1>3, <1>4 DEF IInv, TypeOK, vmVars, Top, Alive
<1>8. Collector'
  <2>1. gray' \subseteq Kept' /\ Kept' \ (gray' \cup spared') = {}
    BY <1>2, <1>3, <1>4, <1>6
  <2>2. TriColour'
    BY <2>1 DEF TriColour
  <2> QED
    BY <1>2, <1>5, <2>2 DEF IInv, Collector, StoredAlive, PoolAlive, GrayWhileTracing
<1>9. RootsAlive'
  <2>1. InUse \cup {globals[s] : s \in Objs} \subseteq Roots \cup {Datum, NULL}
    <3>1. InUse \subseteq Objs \cup {Datum}
      BY DEF IInv, TypeOK, InUse, Top
    <3> QED
      BY <3>1 DEF IInv, TypeOK, Roots
  <2>2. {s \in Objs : globals[s] # NULL} \subseteq Roots
    BY DEF Roots
  <2>3. Roots \subseteq Kept'
    BY <1>2, <1>6, RootsLive DEF Kept, S
  <2>4. globals' = globals
    BY <1>2 DEF vmVars
  <2> QED
    BY <1>5, <2>1, <2>2, <2>3, <2>4 DEF RootsAlive
<1>10. BytesExact' /\ PendingOK'
  BY <1>2, <1>5 DEF IInv, BytesExact, PendingOK, SizeOf, vmVars, Top
<1> QED
  BY <1>7, <1>8, <1>9, <1>10 DEF IInv

(* Marking leaves the program's state and the objects alone.               *)
LEMMA WhileMarking ==
  ASSUME IInv, UNCHANGED <<obj, bytes, vmVars, pending>>, Kept \subseteq Kept'
  PROVE  RootsAlive' /\ BytesExact' /\ PendingOK' /\ Alive' = Alive
<1>1. Alive' = Alive /\ InUse' = InUse /\ globals' = globals
  BY DEF Alive, InUse, Top, vmVars
<1>2. RootsAlive'
  BY <1>1 DEF IInv, RootsAlive
<1>3. BytesExact' /\ PendingOK'
  BY <1>1 DEF IInv, BytesExact, PendingOK, SizeOf, vmVars, Top
<1> QED
  BY <1>1, <1>2, <1>3

LEMMA TraceInv ==
  ASSUME IInv, NEW o \in Objs, Trace(o)
  PROVE  IInv'
<1> DEFINE S == Traced(o)
<1>1. /\ phase = "trace" /\ phase' = "trace" /\ o \in gray /\ S \subseteq Alive
      /\ UNCHANGED <<obj, pool, bytes, nextGC, spared, vmVars, pending>>
  BY DEF Trace
<1>2. /\ marked' = [p \in Objs |-> marked[p] \/ p \in S]
      /\ gray' = (gray \ {o}) \cup {p \in S : ~marked[p]}
  BY DEF Trace, Mark, NewlyGray
<1>3. Alive' = Alive /\ Alive \subseteq Objs /\ \A p : Traced(p)' = Traced(p) /\ Stored(p)' = Stored(p)
  BY <1>1 DEF Alive, Traced, Stored, Blank
<1> HIDE DEF S
<1>4. Kept' = Kept \cup S
  BY <1>1, <1>2, <1>3 DEF Kept
<1>5. TypeOK'
  BY <1>1, <1>2, <1>3 DEF IInv, TypeOK, vmVars, Top
<1>6. gray' \subseteq Kept'
  BY <1>1, <1>2, <1>4 DEF IInv, Collector, TriColour
<1>7. ASSUME NEW p \in Kept' \ (gray' \cup spared')
      PROVE  Traced(p) \subseteq Kept'
  <2>1. CASE p = o
    BY <2>1, <1>4 DEF S
  <2>2. CASE p # o
    <3>1. p \in Kept \ (gray \cup spared)
      BY <1>1, <1>2, <1>4, <1>7, <2>2 DEF Kept
    <3> QED
      BY <1>1, <1>4, <3>1 DEF IInv, Collector, TriColour
  <2> QED
    BY <2>1, <2>2
<1>8. Collector'
  BY <1>1, <1>3, <1>6, <1>7
     DEF IInv, Collector, TriColour, StoredAlive, PoolAlive, GrayWhileTracing
<1>9. RootsAlive' /\ BytesExact' /\ PendingOK'
  BY <1>1, <1>4, WhileMarking
<1> QED
  BY <1>5, <1>8, <1>9 DEF IInv

LEMMA RemoveWhiteInv ==
  ASSUME IInv, RemoveWhite
  PROVE  IInv'
<1>1. /\ phase = "trace" /\ phase' = "sweep" /\ gray = {}
      /\ pool' = {s \in pool : marked[s]}
      /\ UNCHANGED <<obj, marked, bytes, nextGC, gray, spared, vmVars, pending>>
  BY DEF RemoveWhite, StillInterned
<1>2. Alive' = Alive /\ Kept' = Kept /\ \A p : Traced(p)' = Traced(p) /\ Stored(p)' = Stored(p)
  BY <1>1 DEF Alive, Kept, Traced, Stored, Blank
<1>3. TypeOK'
  BY <1>1 DEF IInv, TypeOK, vmVars, Top
<1>4. pool' \subseteq Kept
  BY <1>1 DEF IInv, Collector, PoolAlive, Kept
<1>5. Collector'
  BY <1>1, <1>2, <1>4
     DEF IInv, Collector, TriColour, StoredAlive, PoolAlive, GrayWhileTracing
<1>6. RootsAlive' /\ BytesExact' /\ PendingOK'
  BY <1>1, <1>2, WhileMarking
<1> QED
  BY <1>3, <1>5, <1>6 DEF IInv

(* The sweep leaves what is marked, and what that points to is marked too. *)
LEMMA SweepInv ==
  ASSUME IInv, Sweep
  PROVE  IInv'
<1>1. /\ phase = "sweep" /\ phase' = "run"
      /\ obj' = [o \in Objs |-> IF o \in White THEN NULL ELSE obj[o]]
      /\ marked' = [o \in Objs |-> FALSE]
      /\ bytes' = bytes - SizeOf(White)
      /\ nextGC' = IF bytes' * GrowFactor < InitNextGC THEN InitNextGC ELSE bytes' * GrowFactor
      /\ spared' = spared \ White
      /\ UNCHANGED <<pool, gray, vmVars, pending>>
  BY DEF Sweep, AfterSweep
<1>2. /\ White \subseteq Alive /\ Alive \subseteq Objs
      /\ Kept = Alive \ White /\ gray = {}
  BY <1>1 DEF White, Alive, Kept, IInv, Collector, GrayWhileTracing
<1>3. Alive' = Kept /\ Kept' = Kept
  BY <1>1, <1>2 DEF Alive, Kept
<1>4. \A p \in Kept : obj'[p] = obj[p] /\ Stored(p)' = Stored(p) /\ Stored(p) \subseteq Traced(p)
  BY <1>1, <1>2 DEF Traced, Stored, Kept
<1>5. BytesExact' /\ bytes' \in Nat
  <2>1. IsFiniteSet(Alive) /\ Typed(obj, Alive)
    BY AliveFinite DEF IInv
  <2>2. Cardinality(BytesOf(obj, Kept)) =
          Cardinality(BytesOf(obj, Alive)) - Cardinality(BytesOf(obj, White))
    BY <1>2, <2>1, BytesRemove
  <2>3. BytesOf(obj', Kept) = BytesOf(obj, Kept)
    BY <1>4 DEF BytesOf
  <2>4. SizeOf(Alive)' = Cardinality(BytesOf(obj', Kept))
    BY <1>3 DEF SizeOf, BytesOf
  <2>5. /\ bytes = Cardinality(BytesOf(obj, Alive))
        /\ SizeOf(White) = Cardinality(BytesOf(obj, White))
    BY SizeIsCard DEF IInv, BytesExact
  <2>6. IsFiniteSet(Kept) /\ Typed(obj, Kept)
    BY <1>2, <2>1, FS_Subset DEF Typed
  <2>7. Cardinality(BytesOf(obj, Kept)) \in Nat
    BY <2>6, BytesFinite
  <2> QED
    BY <1>1, <2>2, <2>3, <2>4, <2>5, <2>7 DEF BytesExact
<1>6. TypeOK'
  <2>1. nextGC' \in Nat
    BY <1>1, <1>5, NumbersAssumption
  <2>2. obj' \in [Objs -> Object \cup {NULL}]
    BY <1>1 DEF IInv, TypeOK
  <2>3. spared' \subseteq Objs /\ bytes' \in Nat /\ marked' \in [Objs -> BOOLEAN]
    BY <1>1, <1>5 DEF IInv, TypeOK
  <2> QED
    BY <1>1, <2>1, <2>2, <2>3 DEF IInv, TypeOK, vmVars, Top
<1>7. Collector'
  <2>1. StoredAlive'
    <3>1. Alive' \ spared' \subseteq Kept \ (gray \cup spared)
      BY <1>1, <1>2, <1>3
    <3>2. \A p \in Alive' \ spared' : Traced(p) \subseteq Kept
      BY <1>1, <3>1 DEF IInv, Collector, TriColour
    <3> QED
      BY <1>3, <1>4, <3>2 DEF StoredAlive
  <2>2. PoolAlive'
    BY <1>1, <1>3 DEF IInv, Collector, PoolAlive
  <2> QED
    BY <1>1, <1>2, <2>1, <2>2 DEF Collector, TriColour, GrayWhileTracing
<1>8. RootsAlive' /\ PendingOK'
  <2>1. InUse' = InUse /\ globals' = globals
    BY <1>1 DEF InUse, Top, vmVars
  <2> QED
    BY <1>1, <1>3, <2>1 DEF IInv, RootsAlive, PendingOK, vmVars, Top
<1> QED
  BY <1>5, <1>6, <1>7, <1>8 DEF IInv
-----------------------------------------------------------------------------
LEMMA Inductive == IInv /\ [Next]_vars => IInv'
<1> SUFFICES ASSUME IInv, [Next]_vars PROVE IInv'
  OBVIOUS
<1>1. CASE Instruction
  BY <1>1, InstructionInv
<1>2. CASE Allocate
  BY <1>2, AllocateInv
<1>3. CASE Collect
  BY <1>3, MarkRootsInv, TraceInv, RemoveWhiteInv, SweepInv DEF Collect
<1>4. CASE UNCHANGED vars
  <2>1. UNCHANGED <<obj, gcVars, vmVars, pending, phase>>
    BY <1>4 DEF vars
  <2>2. Collector' /\ BytesExact' /\ Kept' = Kept
    BY <2>1, SameHeap
  <2>3. TypeOK' /\ PendingOK'
    BY <2>1 DEF IInv, TypeOK, PendingOK, gcVars, vmVars, Top
  <2>4. RootsAlive'
    BY <2>1, <2>2 DEF IInv, RootsAlive, InUse, Top, vmVars
  <2> QED
    BY <2>2, <2>3, <2>4 DEF IInv
<1> QED
  BY <1>1, <1>2, <1>3, <1>4 DEF Next

LEMMA Invariance == Spec => []IInv
BY InitInv, Inductive, PTL DEF Spec

(* The variables keep their types.                                         *)
THEOREM TypeCorrect == Spec => []TypeOK
BY Invariance, PTL DEF IInv

(* The tri-colour invariant: while the collector of gc.c marks, no object  *)
(* it is done with has an unmarked child, and what it keeps in the end is  *)
(* closed under the pointers the vtables trace, but for objects whose      *)
(* uninitialised mark made the collector pass them by.                     *)
THEOREM MarkingIsTriColour == Spec => []TriColour
BY Invariance, PTL DEF IInv, Collector

(* No collection frees what the stack or the globals hold.                 *)
THEOREM RootsSurvive == Spec => []RootsAlive
BY Invariance, PTL DEF IInv

(* What instructions stored in an array or a function is not freed before  *)
(* it, unless its uninitialised mark made the collector pass it by.  What  *)
(* the elements of a literal in progress read as was never stored, see     *)
(* AstrayOnlyUninitialised.                                                *)
THEOREM StoredPointersAlive == Spec => []StoredAlive
BY Invariance, PTL DEF IInv, Collector

(* The string pool is purged before its strings are freed.                 *)
THEOREM PoolIsWeak == Spec => []PoolAlive
BY Invariance, PTL DEF IInv, Collector

(* The accounting that decides when to collect is exact.                   *)
THEOREM AccountingIsExact == Spec => []BytesExact
BY Invariance, PTL DEF IInv
-----------------------------------------------------------------------------
(* Only garbage is freed.                                                  *)

(* K holds the roots and, but for spared objects, whatever its objects     *)
(* point to: what is outside of it cannot be reached.                      *)
Reaches(K) == Roots \subseteq K /\ \A p \in K \ spared : Traced(p) \subseteq K

FreesGarbage ==
  \A o \in Alive \ Alive' : \E K \in SUBSET Alive : o \notin K /\ Reaches(K)

LEMMA AllocateFreesNothing ==
  ASSUME IInv, Allocate
  PROVE  Alive \subseteq Alive'
<1> SUFFICES ASSUME NEW o \in Objs, obj[o] # NULL PROVE obj'[o] # NULL
  BY DEF Alive
<1>1. ASSUME NEW p \in Objs, NewUpValue(p)
      PROVE  obj'[o] # NULL
  <2> DEFINE c == pending.temp
             both == [kind |-> obj[c].kind, refs |-> obj[c].refs \cup {p}, blank |-> obj[c].blank]
  <2>1. obj[p] = NULL /\ c \in Objs /\ c # p /\ obj[c] \in Object
    BY <1>1, ObjsAssumption DEF NewUpValue, Allocating, IInv, PendingOK, TypeOK, Alive
  <2>2. obj' = [obj EXCEPT ![p] = New("upvalue", {}), ![c].refs = @ \cup {p}]
    BY <1>1 DEF NewUpValue
  <2>3. both \in Object
    BY <2>1 DEF Object
  <2> HIDE DEF c
  <2>4. obj'[c] = both /\ \A q \in Objs \ {p, c} : obj'[q] = obj[q]
    BY <2>1, <2>2 DEF IInv, TypeOK, Object
  <2>5. o # p
    BY <2>1
  <2> HIDE DEF both
  <2> QED
    BY <2>3, <2>4, <2>5, ObjsAssumption
<1>2. ASSUME NEW p \in Objs, NEW object, Create(p, object)
      PROVE  obj'[o] # NULL
  BY <1>2 DEF Create, IInv, TypeOK
<1>3. ASSUME NEW p \in Objs,
             Concat(p) \/ Convert(p) \/ NewArray(p) \/ JoinArrays(p) \/ NewClosure(p)
      PROVE  obj'[o] # NULL
  <2>1. PICK object : Create(p, object)
    BY <1>3 DEF Concat, Convert, NewArray, JoinArrays, NewClosure
  <2> QED
    BY <1>2, <2>1
<1> QED
  BY <1>1, <1>3 DEF Allocate

(* gcSweep frees no object that can be reached from the roots, and nothing *)
(* else frees one.                                                         *)
THEOREM OnlyGarbageIsFreed == Spec => [][FreesGarbage]_vars
<1>1. ASSUME IInv, Sweep
      PROVE  FreesGarbage
  <2>1. phase = "sweep" /\ gray = {} /\ TriColour
    BY <1>1 DEF Sweep, IInv, Collector, GrayWhileTracing
  <2>2. Kept = Alive \ White
    BY <2>1 DEF Kept, White
  <2>3. Reaches(Kept)
    BY <1>1, <2>1, RootsLive DEF Reaches, TriColour
  <2>4. Alive \ Alive' \subseteq White
    BY <1>1 DEF Sweep, Alive
  <2> QED
    BY <2>2, <2>3, <2>4 DEF FreesGarbage
<1>2. ASSUME IInv, Instruction \/ Allocate
      PROVE  FreesGarbage
  BY <1>2, AllocateFreesNothing, InstructionInv DEF FreesGarbage
<1>3. ASSUME MarkRoots \/ (\E o \in Objs : Trace(o)) \/ RemoveWhite
      PROVE  FreesGarbage
  <2>1. Alive' = Alive
    BY <1>3 DEF MarkRoots, Trace, RemoveWhite, Alive
  <2> QED
    BY <2>1 DEF FreesGarbage
<1>4. IInv /\ [Next]_vars => [FreesGarbage]_vars
  BY <1>1, <1>2, <1>3 DEF Next, Collect
<1> QED
  BY <1>4, Invariance, PTL DEF Spec
-----------------------------------------------------------------------------
(* The fields that are not initialised.                                    *)

(* A build in which the mark of a new object reads as FALSE and no element *)
(* of a new array as an object.                                            *)
Initialised == FreshMarks = {FALSE} /\ FreshElements = {{}}

(* Then no mark is set outside of a collection and no literal in progress  *)
(* points anywhere but to what was stored in it.                           *)
Clean ==
  /\ spared = {}
  /\ phase = "run" => \A o \in Objs : ~marked[o]
  /\ \A o \in Alive : obj[o].blank \in {NULL, {}}

LEMMA InitClean ==
  ASSUME Initialised, Init
  PROVE  Clean
<1>1. \A o \in Objs : ~marked[o]
  BY DEF Initialised, Init
<1>2. \A o \in Alive : obj[o].blank = NULL
  BY ObjsAssumption DEF Init, New, Alive
<1> QED
  BY <1>1, <1>2 DEF Init, Clean

LEMMA CreateClean ==
  ASSUME Initialised, IInv, Clean, phase = "run", UNCHANGED phase,
         NEW o \in Objs, NEW object, object.blank \in {NULL, {}}, Create(o, object)
  PROVE  Clean'
<1>1. PICK m \in {FALSE} : marked' = [marked EXCEPT ![o] = m]
  BY DEF Create, Initialised
<1>2. \A p \in Objs : ~marked'[p]
  BY <1>1 DEF Clean, IInv, TypeOK
<1>3. obj' = [obj EXCEPT ![o] = object] /\ spared' = spared
  BY DEF Create
<1>4. \A p \in Objs : obj'[p] = obj[p] \/ obj'[p] = object
  BY <1>3 DEF IInv, TypeOK
<1> QED
  BY <1>2, <1>3, <1>4 DEF Clean, Alive

LEMMA InstructionClean ==
  ASSUME IInv, Clean, Instruction
  PROVE  Clean'
<1> USE DEF Idle
<1>1. phase = "run" /\ UNCHANGED <<marked, spared, phase>>
  BY DEF Instruction, PushValue, GetElement, LoadGlobal, LoadLocal, StoreLocal, LoadUpvalue, Pop,
         DefineGlobal, CollectElements, SetElement, StoreUpvalue,
         Begin, BeginAdd, BeginArray, BeginJoin, BeginClosure, gcVars
<1>2. \A p \in Objs : ~marked'[p]
  BY <1>1 DEF Clean
<1>3. CASE UNCHANGED obj
  BY <1>1, <1>3 DEF Clean, Alive
<1>4. ASSUME NEW n \in 1 .. Top, CollectElements(n)
      PROVE  Clean'
  <2> DEFINE o == Peek(n)
  <2>1. PICK blank \in (SUBSET obj[o].blank) \cup {NULL} : \E refs :
           obj' = [obj EXCEPT ![o] = [kind |-> obj[o].kind, refs |-> refs, blank |-> blank]]
    BY <1>4 DEF CollectElements
  <2> PICK refs : obj' = [obj EXCEPT ![o] = [kind |-> obj[o].kind, refs |-> refs, blank |-> blank]]
    BY <2>1
  <2>2. o \in Objs /\ obj[o].blank = {}
    BY <1>4 DEF CollectElements, Complete, Alive, Clean
  <2> DEFINE new == [kind |-> obj[o].kind, refs |-> refs, blank |-> blank]
  <2>3. new.blank \in {NULL, {}} /\ obj' = [obj EXCEPT ![o] = new]
    BY <2>1, <2>2
  <2> HIDE DEF o, new
  <2>4. \A p \in Objs : obj'[p] = obj[p] \/ obj'[p] = new
    BY <2>2, <2>3 DEF IInv, TypeOK
  <2> QED
    BY <1>1, <1>2, <2>3, <2>4 DEF Clean, Alive
<1>5. ASSUME NEW o \in Alive, NEW refs, obj' = [obj EXCEPT ![o] = [obj[o] EXCEPT !.refs = refs]]
      PROVE  Clean'
  <2>1. o \in Objs /\ obj[o] \in Object /\ obj[o].blank \in {NULL, {}}
    BY DEF Alive, IInv, TypeOK, Clean
  <2> DEFINE new == [obj[o] EXCEPT !.refs = refs]
  <2>2. new.blank \in {NULL, {}} /\ obj' = [obj EXCEPT ![o] = new]
    BY <1>5, <2>1, Rewritten
  <2> HIDE DEF new
  <2>3. \A p \in Objs : obj'[p] = obj[p] \/ obj'[p] = new
    BY <2>1, <2>2 DEF IInv, TypeOK
  <2> QED
    BY <1>1, <1>2, <2>2, <2>3 DEF Clean, Alive
<1>6. SetElement => Clean'
  <2>1. SetElement => /\ Peek(0) \in Alive
                      /\ \E refs : obj' = [obj EXCEPT ![Peek(0)] = [obj[Peek(0)] EXCEPT !.refs = refs]]
    BY DEF SetElement, IsKind
  <2> QED
    BY <1>5, <2>1
<1>7. ASSUME NEW u \in Objs, StoreUpvalue(u)
      PROVE  Clean'
  <2>1. /\ u \in Alive
        /\ obj' = [obj EXCEPT ![u] = [obj[u] EXCEPT !.refs = {Peek(0)} \cap Objs]]
    BY <1>7 DEF StoreUpvalue, Reached, IsKind
  <2> QED
    BY <1>5, <2>1
<1>8. \/ UNCHANGED obj
      \/ \E n \in 1 .. Top : CollectElements(n)
      \/ SetElement
      \/ \E u \in Objs : StoreUpvalue(u)
  BY DEF Instruction, PushValue, GetElement, LoadGlobal, LoadLocal, StoreLocal, LoadUpvalue, Pop,
         DefineGlobal, Begin, BeginAdd, BeginArray, BeginJoin, BeginClosure
<1> QED
  BY <1>3, <1>4, <1>6, <1>7, <1>8

LEMMA AllocateClean ==
  ASSUME Initialised, IInv, Clean, Allocate
  PROVE  Clean'
<1>1. ASSUME NEW o \in Objs,
             Concat(o) \/ Convert(o) \/ NewArray(o) \/ JoinArrays(o) \/ NewClosure(o)
      PROVE  Clean'
  <2>1. phase = "run" /\ UNCHANGED phase
    BY <1>1 DEF Concat, Convert, NewArray, JoinArrays, NewClosure, Allocating
  <2>2. \E object : object.blank \in {NULL, {}} /\ Create(o, object)
    <3>1. CASE Concat(o) \/ Convert(o) \/ JoinArrays(o) \/ NewClosure(o)
      <4>1. PICK kind, refs : Create(o, New(kind, refs))
        BY <3>1 DEF Concat, Convert, JoinArrays, NewClosure
      <4>2. New(kind, refs).blank = NULL
        BY DEF New
      <4> QED
        BY <4>1, <4>2
    <3>2. CASE NewArray(o)
      <4>1. PICK blank \in {{}} \cup {NULL} :
               Create(o, [kind |-> "array", refs |-> {}, blank |-> blank])
        BY <3>2 DEF NewArray, Initialised
      <4>2. [kind |-> "array", refs |-> {}, blank |-> blank].blank \in {NULL, {}}
        BY <4>1
      <4> QED
        BY <4>1, <4>2
    <3> QED
      BY <1>1, <3>1, <3>2
  <2> QED
    BY <2>1, <2>2, CreateClean
<1>2. ASSUME NEW o \in Objs, NewUpValue(o)
      PROVE  Clean'
  <2> DEFINE c == pending.temp
  <2>1. /\ phase = "run" /\ UNCHANGED <<phase, spared>>
        /\ c \in Alive /\ c # o /\ obj[c] \in Object
    BY <1>2, ObjsAssumption DEF NewUpValue, Allocating, IInv, PendingOK, TypeOK, Alive
  <2>2. PICK m \in {FALSE} : marked' = [marked EXCEPT ![o] = m]
    BY <1>2 DEF NewUpValue, Initialised
  <2>3. \A p \in Objs : ~marked'[p]
    BY <2>1, <2>2 DEF Clean, IInv, TypeOK
  <2>4. obj' = [obj EXCEPT ![o] = New("upvalue", {}), ![c].refs = @ \cup {o}]
    BY <1>2 DEF NewUpValue
  <2> HIDE DEF c
  <2>5. /\ obj'[o] = New("upvalue", {})
        /\ obj'[c] = [obj[c] EXCEPT !.refs = @ \cup {o}]
        /\ \A p \in Objs \ {o, c} : obj'[p] = obj[p]
    BY <2>1, <2>4 DEF IInv, TypeOK, Alive
  <2>6. obj'[o].blank = NULL /\ obj'[c].blank = obj[c].blank
    BY <2>1, <2>5, Rewritten DEF New
  <2>7. \A p \in Alive' : obj'[p].blank \in {NULL, {}}
    BY <2>1, <2>5, <2>6 DEF Clean, Alive
  <2> QED
    BY <2>1, <2>3, <2>7 DEF Clean
<1> QED
  BY <1>1, <1>2 DEF Allocate

LEMMA CollectClean ==
  ASSUME IInv, Clean, Collect
  PROVE  Clean'
<1>1. CASE MarkRoots
  <2>1. {o \in Alive : marked[o]} = {}
    BY <1>1 DEF MarkRoots, Clean, Alive
  <2> QED
    BY <1>1, <2>1 DEF MarkRoots, Clean, Alive
<1>2. CASE (\E o \in Objs : Trace(o)) \/ RemoveWhite
  BY <1>2 DEF Trace, RemoveWhite, Clean, Alive
<1>3. CASE Sweep
  <2>1. \A o \in Alive' : o \in Alive /\ obj'[o] = obj[o]
    BY <1>3 DEF Sweep, Alive
  <2> QED
    BY <1>3, <2>1 DEF Sweep, Clean
<1> QED
  BY <1>1, <1>2, <1>3 DEF Collect

(* Only the two fields that allocation leaves uninitialised lead the       *)
(* collector astray: with both of them initialised each object it visits   *)
(* is there, whatever the program allocates, stores and overwrites.        *)
THEOREM AstrayOnlyUninitialised ==
  ASSUME Initialised
  PROVE  Spec => []NeverAstray
<1>1. Init => IInv /\ Clean
  BY InitInv, InitClean
<1>2. IInv /\ Clean /\ [Next]_vars => IInv' /\ Clean'
  <2> SUFFICES ASSUME IInv, Clean, [Next]_vars PROVE IInv' /\ Clean'
    OBVIOUS
  <2>1. CASE UNCHANGED vars
    BY <2>1, Inductive DEF vars, gcVars, Clean, Alive
  <2> QED
    BY <2>1, Inductive, InstructionClean, AllocateClean, CollectClean DEF Next
<1>3. IInv /\ Clean => NeverAstray
  <2> SUFFICES ASSUME IInv, Clean, phase = "trace", NEW o \in gray
               PROVE  Traced(o) \subseteq Alive
    BY DEF NeverAstray, Astray
  <2>1. o \in Alive
    BY DEF IInv, Collector, TriColour, Kept
  <2>2. Stored(o) \subseteq Alive /\ Blank(o) = {}
    BY <2>1 DEF IInv, Collector, StoredAlive, Clean, Blank
  <2> QED
    BY <2>2 DEF Traced
<1> QED
  BY <1>1, <1>2, <1>3, PTL DEF Spec
=============================================================================
