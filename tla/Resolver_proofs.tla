---------------------------- MODULE Resolver_proofs ----------------------------
(***************************************************************************)
(* Proofs about Resolver, for any names, any depth of scopes and functions *)
(* and any number of declarations.                                         *)
(*                                                                         *)
(* A function is a stretch of the open scopes: that of its parameters and  *)
(* the blocks above it, up to the next function.  In a stretch each scope  *)
(* goes on with the slots where the one below it ends, which is why slots  *)
(* are dense and why slot comes back to the right place when a scope ends. *)
(* That upvalues are grounded and differ from each other makes the walk    *)
(* from an upvalue to its variable end, and end in a variable of its own.  *)
(***************************************************************************)
EXTENDS Resolver, Basics, FiniteSetTheorems, FunctionTheorems, SequenceTheorems, TLAPS

-----------------------------------------------------------------------------
(* Lists of declarations and the symbols made from them.                   *)

LEMMA ListsAreSeqs ==
  ASSUME NEW S, NEW room, NEW l \in Lists(S, room)
  PROVE  l \in Seq(S)
<1>1. PICK n \in {m \in 0 .. MaxDecls : m <= room} : l \in [1 .. n -> S]
  BY DEF Lists
<1>2. n \in Nat
  BY <1>1, NamesAssumption
<1> QED
  BY <1>1, <1>2

LEMMA SymbolsType ==
  ASSUME NEW names \in Seq(Names), NEW first \in Nat
  PROVE  /\ Symbols(names, first) \in Seq(Symbol)
         /\ Len(Symbols(names, first)) = Len(names)
         /\ \A i \in 1 .. Len(names) : Symbols(names, first)[i].slot = first + i - 1
<1> DEFINE syms == [i \in 1 .. Len(names) |->
                      [name |-> names[i], slot |-> first + i - 1, captured |-> FALSE]]
<1>1. Symbols(names, first) = syms
  <2>1. DOMAIN names = 1 .. Len(names)
    OBVIOUS
  <2> QED
    BY <2>1 DEF Symbols
<1>2. ASSUME NEW i \in 1 .. Len(names)
      PROVE  syms[i] \in Symbol /\ syms[i].slot = first + i - 1
  BY <1>2 DEF Symbol
<1>3. syms \in [1 .. Len(names) -> Symbol]
  BY <1>2
<1>4. Len(names) \in Nat
  OBVIOUS
<1>5. syms \in Seq(Symbol) /\ Len(syms) = Len(names)
  BY <1>3, <1>4
<1> QED
  BY <1>1, <1>2, <1>5

LEMMA NamesType ==
  ASSUME NEW decls \in Seq(Declaration)
  PROVE  NamesOf(decls) \in Seq(Names) /\ Len(NamesOf(decls)) = Len(decls)
<1>1. DOMAIN decls = 1 .. Len(decls)
  OBVIOUS
<1>2. ASSUME NEW i \in 1 .. Len(decls)
      PROVE  decls[i].name \in Names
  <2>1. decls[i] \in Declaration
    OBVIOUS
  <2> QED
    BY <2>1 DEF Declaration
<1>3. NamesOf(decls) \in [1 .. Len(decls) -> Names]
  BY <1>1, <1>2 DEF NamesOf
<1> QED
  BY <1>3

LEMMA NewScopeType ==
  ASSUME NEW type \in {"SCRIPT_TYPE", "BLOCK_TYPE", "FUNCTION_TYPE"},
         NEW locals \in Seq(Symbol), NEW todo \in Seq(Declaration)
  PROVE  /\ NewScope(type, locals, todo) \in Scope
         /\ NewScope(type, locals, todo).type = type
         /\ NewScope(type, locals, todo).locals = locals
BY DEF NewScope, Scope

(* The names of the native functions in some order.                        *)
LEMMA NativesList == SetToSeq(Natives) \in Seq(Names)
<1> DEFINE n == Cardinality(Natives)
<1>1. n \in Nat /\ ExistsBijection(1 .. n, Natives)
  BY NamesAssumption, FS_CardinalityType
<1>2. PICK f : f \in Bijection(1 .. n, Natives)
  BY <1>1 DEF ExistsBijection
<1>3. f \in [1 .. n -> Natives] /\ IsInjective(f)
  BY <1>2 DEF Bijection, Injection, IsInjective
<1>4. SetToSeq(Natives) \in [1 .. n -> Natives]
  BY <1>3 DEF SetToSeq
<1> QED
  BY <1>1, <1>4, NamesAssumption
-----------------------------------------------------------------------------
(* The inductive invariant.                                                *)

(* The scope of the parameters of each function is open, with the scope of *)
(* the body above it; there are no others of that type.                    *)
Shape(sc, fs) ==
  /\ sc = <<>> => fs = <<>>
  /\ \A q \in DOMAIN fs : 1 < fs[q].scope /\ fs[q].scope < Len(sc)
  /\ \A q, r \in DOMAIN fs : q < r => fs[q].scope + 1 < fs[r].scope
  /\ \A s \in DOMAIN sc :
       sc[s].type = "FUNCTION_TYPE" <=> \E q \in DOMAIN fs : fs[q].scope = s

(* ends[s]: the slot after those of scope s and of the scopes below it in  *)
(* its function.                                                           *)
First(sc, ends, s) == IF sc[s].type = "FUNCTION_TYPE" THEN 0 ELSE ends[s - 1]
Filled(sc, ends, s) ==
  /\ ends[s] = First(sc, ends, s) + Len(sc[s].locals)
  /\ \A i \in DOMAIN sc[s].locals : sc[s].locals[i].slot = First(sc, ends, s) + i - 1
Ends(sc, fs, ends) ==
  /\ ends \in [0 .. Len(sc) -> Nat]
  /\ ends[0] = 0 /\ (sc # <<>> => ends[1] = 0)
  /\ \A s \in 2 .. Len(sc) : Filled(sc, ends, s)
  /\ \A q \in DOMAIN fs : fs[q].saved = ends[fs[q].scope - 1]
SlotsOf(sc, fs, sl) == \E ends : Ends(sc, fs, ends) /\ sl = ends[Len(sc)]

Grounded(sc, fs) ==
  \A q \in DOMAIN fs : \A i \in DOMAIN fs[q].upvalues :
    LET uv == fs[q].upvalues[i] IN
    /\ q > 1
    /\ uv.type = "UVAL_LOC" =>
         \E p \in DOMAIN sc[fs[q - 1].scope].locals :
           LET param == sc[fs[q - 1].scope].locals[p]
           IN  param.slot = uv.index /\ param.captured
    /\ uv.type = "UVAL_UVAL" => uv.index \in DOMAIN fs[q - 1].upvalues

Different(fs) ==
  \A q \in DOMAIN fs : \A i, j \in DOMAIN fs[q].upvalues :
    fs[q].upvalues[i] = fs[q].upvalues[j] => i = j

IInv == /\ TypeOK
        /\ status = "start" => scopes = <<>>
        /\ scopes = <<>> => use = NoUse
        /\ Shape(scopes, fns) /\ SlotsOf(scopes, fns, slot)
        /\ Grounded(scopes, fns) /\ Different(fns)
        /\ use.type = "SYM_UVAL" => use.found[1] \in DOMAIN scopes
        /\ ParametersCaptured

LEMMA FnInfoType ==
  ASSUME NEW fs \in Seq(FnInfo), NEW q \in DOMAIN fs
  PROVE  fs[q].scope \in Nat /\ fs[q].saved \in Nat /\ fs[q].upvalues \in Seq(UpValue)
<1>1. fs[q] \in FnInfo
  OBVIOUS
<1> QED
  BY <1>1 DEF FnInfo

LEMMA ScopeType ==
  ASSUME NEW sc \in Seq(Scope), NEW s \in 1 .. Len(sc)
  PROVE  sc[s].locals \in Seq(Symbol) /\ sc[s].todo \in Seq(Declaration)
<1>1. sc[s] \in Scope
  OBVIOUS
<1> QED
  BY <1>1 DEF Scope

LEMMA GroundedIs == ChainsGrounded <=> Grounded(scopes, fns)
BY DEF ChainsGrounded, Grounded

LEMMA InitInv == Init => IInv
<1> SUFFICES ASSUME Init PROVE IInv
  OBVIOUS
<1> USE DEF Init
<1>1. TypeOK
  BY DEF TypeOK, NoUse, Use
<1>2. Shape(scopes, fns) /\ Grounded(scopes, fns) /\ Different(fns)
  BY DEF Shape, Grounded, Different
<1>3. SlotsOf(scopes, fns, slot)
  <2>1. Ends(<<>>, <<>>, [s \in 0 .. 0 |-> 0])
    BY DEF Ends
  <2> QED
    BY <2>1 DEF SlotsOf
<1>4. ParametersCaptured /\ use.type # "SYM_UVAL"
  BY DEF ParametersCaptured, NoUse
<1> QED
  BY <1>1, <1>2, <1>3, <1>4 DEF IInv
-----------------------------------------------------------------------------
(* Steps on the scopes: what stays the same in the scopes up to n, and     *)
(* that a function keeps its scope and its slot.                           *)

Alike(sc, tc, n) ==
  \A s \in 1 .. n :
    /\ tc[s].type = sc[s].type
    /\ Len(tc[s].locals) = Len(sc[s].locals)
    /\ \A i \in DOMAIN sc[s].locals :
         /\ tc[s].locals[i].slot = sc[s].locals[i].slot
         /\ sc[s].locals[i].captured => tc[s].locals[i].captured

SameFrames(fs, gs, n) ==
  \A q \in 1 .. n : gs[q].scope = fs[q].scope /\ gs[q].saved = fs[q].saved

(* Scopes whose marks or statements to come change.                        *)
LEMMA KeptShape ==
  ASSUME NEW sc \in Seq(Scope), NEW tc \in Seq(Scope), Len(tc) = Len(sc),
         Alike(sc, tc, Len(sc)),
         NEW fs \in Seq(FnInfo), NEW gs \in Seq(FnInfo), Len(gs) = Len(fs),
         SameFrames(fs, gs, Len(fs)), Shape(sc, fs)
  PROVE  Shape(tc, gs)
<1>1. DOMAIN gs = 1 .. Len(fs) /\ DOMAIN fs = 1 .. Len(fs)
      /\ DOMAIN tc = 1 .. Len(sc) /\ DOMAIN sc = 1 .. Len(sc)
  OBVIOUS
<1>2. tc = <<>> => gs = <<>>
  BY SMTT(30) DEF Shape
<1>3. \A q \in 1 .. Len(fs) : gs[q].scope = fs[q].scope
  BY DEF SameFrames
<1>4. \A s \in 1 .. Len(sc) : tc[s].type = sc[s].type
  BY DEF Alike
<1> QED
  BY <1>1, <1>2, <1>3, <1>4, ZenonT(60) DEF Shape

LEMMA KeptSlots ==
  ASSUME NEW sc \in Seq(Scope), NEW tc \in Seq(Scope), Len(tc) = Len(sc),
         Alike(sc, tc, Len(sc)),
         NEW fs \in Seq(FnInfo), NEW gs \in Seq(FnInfo), Len(gs) = Len(fs),
         SameFrames(fs, gs, Len(fs)), NEW sl, SlotsOf(sc, fs, sl)
  PROVE  SlotsOf(tc, gs, sl)
<1>1. PICK ends : Ends(sc, fs, ends) /\ sl = ends[Len(sc)]
  BY DEF SlotsOf
<1>2. \A s \in 2 .. Len(sc) : Filled(tc, ends, s)
  <2> SUFFICES ASSUME NEW s \in 2 .. Len(sc) PROVE Filled(tc, ends, s)
    OBVIOUS
  <2>1. Filled(sc, ends, s)
    BY <1>1 DEF Ends
  <2>2. s \in 1 .. Len(sc) /\ sc[s].locals \in Seq(Symbol) /\ tc[s].locals \in Seq(Symbol)
    BY ScopeType
  <2>3. DOMAIN tc[s].locals = DOMAIN sc[s].locals
    BY <2>2 DEF Alike
  <2> QED
    BY <2>1, <2>2, <2>3 DEF Alike, Filled, First
<1>3. Ends(tc, gs, ends)
  <2>1. DOMAIN gs = DOMAIN fs /\ DOMAIN fs = 1 .. Len(fs)
    OBVIOUS
  <2>2. \A q \in DOMAIN gs : gs[q].saved = ends[gs[q].scope - 1]
    BY <1>1, <2>1 DEF Ends, SameFrames
  <2>3. tc # <<>> => sc # <<>>
    OBVIOUS
  <2> QED
    BY <1>1, <1>2, <2>2, <2>3 DEF Ends
<1> QED
  BY <1>1, <1>3 DEF SlotsOf

(* Filled looks at the scope and at the ends up to it only.                *)
LEMMA FilledKept ==
  ASSUME NEW sc \in Seq(Scope), NEW tc \in Seq(Scope),
         NEW n \in 1 .. Len(sc), n <= Len(tc), Alike(sc, tc, n),
         NEW ends, NEW to, \A s \in 0 .. n : to[s] = ends[s],
         NEW s \in 2 .. n, Filled(sc, ends, s)
  PROVE  Filled(tc, to, s)
<1>1. s \in 1 .. n /\ s \in 0 .. n /\ s - 1 \in 0 .. n
  OBVIOUS
<1>2. to[s] = ends[s] /\ to[s - 1] = ends[s - 1]
  BY <1>1
<1>3. sc[s].locals \in Seq(Symbol) /\ tc[s].locals \in Seq(Symbol)
  BY ScopeType
<1>4. DOMAIN tc[s].locals = DOMAIN sc[s].locals
  BY <1>1, <1>3 DEF Alike
<1> QED
  BY <1>1, <1>2, <1>4 DEF Alike, Filled, First

(* A block opens.                                                          *)
LEMMA OpenedShape ==
  ASSUME NEW sc \in Seq(Scope), NEW tc \in Seq(Scope), sc # <<>>, Len(tc) = Len(sc) + 1,
         Alike(sc, tc, Len(sc)), tc[Len(sc) + 1].type # "FUNCTION_TYPE",
         NEW fs \in Seq(FnInfo), Shape(sc, fs)
  PROVE  Shape(tc, fs)
<1> DEFINE n == Len(sc)
<1>1. n \in Nat /\ DOMAIN tc = 1 .. n + 1 /\ DOMAIN sc = 1 .. n /\ tc # <<>>
  OBVIOUS
<1>2. \A q \in DOMAIN fs : fs[q].scope \in Nat
  BY FnInfoType
<1>3. \A q \in DOMAIN fs : 1 < fs[q].scope /\ fs[q].scope < n
  BY DEF Shape
<1>4. \A q \in DOMAIN fs : fs[q].scope < n + 1 /\ fs[q].scope # n + 1
  BY <1>1, <1>2, <1>3
<1>5. \A s \in 1 .. n + 1 : s \in 1 .. n \/ s = n + 1
  BY <1>1
<1>6. \A s \in 1 .. n : tc[s].type = sc[s].type
  BY DEF Alike
<1> HIDE DEF n
<1>7. \A s \in 1 .. n + 1 :
        tc[s].type = "FUNCTION_TYPE" <=> \E q \in DOMAIN fs : fs[q].scope = s
  BY <1>1, <1>4, <1>5, <1>6 DEF Shape, n
<1>8. Len(tc) = n + 1
  BY DEF n
<1> QED
  BY <1>1, <1>3, <1>4, <1>7, <1>8 DEF Shape

LEMMA OpenedSlots ==
  ASSUME NEW sc \in Seq(Scope), NEW tc \in Seq(Scope), sc # <<>>, Len(tc) = Len(sc) + 1,
         Alike(sc, tc, Len(sc)), tc[Len(sc) + 1].type # "FUNCTION_TYPE",
         NEW fs \in Seq(FnInfo), Shape(sc, fs), NEW sl \in Nat, SlotsOf(sc, fs, sl),
         \A i \in DOMAIN tc[Len(sc) + 1].locals :
            tc[Len(sc) + 1].locals[i].slot = sl + i - 1
  PROVE  SlotsOf(tc, fs, sl + Len(tc[Len(sc) + 1].locals))
<1> DEFINE n == Len(sc)
           k == Len(tc[n + 1].locals)
<1>1. PICK ends : Ends(sc, fs, ends) /\ sl = ends[n]
  BY DEF SlotsOf
<1> DEFINE to == [s \in 0 .. n + 1 |-> IF s <= n THEN ends[s] ELSE sl + k]
<1>2. n \in Nat \ {0} /\ n \in 1 .. Len(sc)
  OBVIOUS
<1>3. k \in Nat
  BY ScopeType
<1> HIDE DEF k
<1>4. to \in [0 .. n + 1 -> Nat]
  <2>1. \A s \in 0 .. n : ends[s] \in Nat
    BY <1>1 DEF Ends
  <2> QED
    BY <1>2, <1>3, <2>1
<1>5. (\A s \in 0 .. n : to[s] = ends[s]) /\ to[n + 1] = sl + k
  BY <1>2
<1> HIDE DEF to
<1>6. ASSUME NEW s \in 2 .. n + 1
      PROVE  Filled(tc, to, s)
  <2>1. CASE s \in 2 .. n
    <3>1. Filled(sc, ends, s)
      BY <1>1, <2>1 DEF Ends
    <3>2. n <= Len(tc)
      OBVIOUS
    <3> QED
      BY <1>2, <1>5, <2>1, <3>1, <3>2, FilledKept
  <2>2. CASE s = n + 1
    <3>1. First(tc, to, s) = sl
      BY <1>1, <1>2, <1>5, <2>2 DEF First
    <3> QED
      BY <1>5, <2>2, <3>1 DEF Filled, k
  <2> QED
    BY <1>2, <2>1, <2>2
<1>7. ASSUME NEW q \in DOMAIN fs
      PROVE  fs[q].saved = to[fs[q].scope - 1]
  <2>1. fs[q].scope \in Nat /\ 1 < fs[q].scope /\ fs[q].scope < n
    BY FnInfoType DEF Shape
  <2>2. fs[q].scope - 1 \in 0 .. n
    BY <1>2, <2>1
  <2> QED
    BY <1>1, <1>5, <2>2 DEF Ends
<1>8. to[0] = 0 /\ to[1] = 0
  BY <1>1, <1>2, <1>5 DEF Ends
<1>9. Ends(tc, fs, to)
  <2>1. Len(tc) = n + 1
    OBVIOUS
  <2> HIDE DEF n
  <2> QED
    BY <1>4, <1>6, <1>7, <1>8, <2>1 DEF Ends
<1> QED
  BY <1>5, <1>9 DEF SlotsOf, k

(* A function opens: the scope of its parameters and that of its body.     *)
Entered(sc, fs, sl, tc, gs) ==
  /\ Len(tc) = Len(sc) + 2 /\ Alike(sc, tc, Len(sc))
  /\ tc[Len(sc) + 1].type = "FUNCTION_TYPE" /\ tc[Len(sc) + 2].type = "BLOCK_TYPE"
  /\ Len(gs) = Len(fs) + 1 /\ SameFrames(fs, gs, Len(fs))
  /\ gs[Len(fs) + 1].scope = Len(sc) + 1 /\ gs[Len(fs) + 1].saved = sl

LEMMA EnteredShape ==
  ASSUME NEW sc \in Seq(Scope), NEW tc \in Seq(Scope), sc # <<>>,
         NEW fs \in Seq(FnInfo), NEW gs \in Seq(FnInfo), NEW sl,
         Entered(sc, fs, sl, tc, gs), Shape(sc, fs)
  PROVE  Shape(tc, gs)
<1> DEFINE n == Len(sc)
           k == Len(fs)
<1>1. /\ n \in Nat \ {0} /\ k \in Nat
      /\ DOMAIN tc = 1 .. n + 2 /\ DOMAIN sc = 1 .. n
      /\ DOMAIN gs = 1 .. k + 1 /\ DOMAIN fs = 1 .. k
      /\ Len(tc) = n + 2 /\ tc # <<>>
  BY DEF Entered
<1>2. \A q \in 1 .. k : fs[q].scope \in Nat /\ 1 < fs[q].scope /\ fs[q].scope < n
  BY <1>1, FnInfoType DEF Shape
<1>3. \A q, r \in 1 .. k : q < r => fs[q].scope + 1 < fs[r].scope
  BY <1>1 DEF Shape
<1>4. \A s \in 1 .. n : sc[s].type = "FUNCTION_TYPE" <=> \E q \in 1 .. k : fs[q].scope = s
  BY <1>1 DEF Shape
<1>5. /\ \A s \in 1 .. n : tc[s].type = sc[s].type
      /\ tc[n + 1].type = "FUNCTION_TYPE" /\ tc[n + 2].type = "BLOCK_TYPE"
      /\ \A q \in 1 .. k : gs[q].scope = fs[q].scope
      /\ gs[k + 1].scope = n + 1
  BY DEF Entered, Alike, SameFrames
<1> HIDE DEF n, k
<1>6. \A q \in 1 .. k + 1 : q \in 1 .. k \/ q = k + 1
  BY <1>1
<1>7. ASSUME NEW q \in 1 .. k + 1
      PROVE  1 < gs[q].scope /\ gs[q].scope < n + 2
  <2>1. CASE q \in 1 .. k
    <3>1. fs[q].scope \in Nat /\ 1 < fs[q].scope /\ fs[q].scope < n /\ gs[q].scope = fs[q].scope
      BY <1>2, <1>5, <2>1
    <3> QED
      BY <1>1, <3>1
  <2>2. CASE q = k + 1
    BY <1>1, <1>5, <2>2
  <2> QED
    BY <1>6, <2>1, <2>2
<1>8. \A q, r \in 1 .. k + 1 : q < r => gs[q].scope + 1 < gs[r].scope
  <2> SUFFICES ASSUME NEW q \in 1 .. k + 1, NEW r \in 1 .. k + 1, q < r
               PROVE  gs[q].scope + 1 < gs[r].scope
    OBVIOUS
  <2>1. q \in 1 .. k
    BY <1>1
  <2>2. fs[q].scope \in Nat /\ fs[q].scope < n /\ gs[q].scope = fs[q].scope
    BY <1>2, <1>5, <2>1
  <2>3. CASE r \in 1 .. k
    BY <1>3, <1>5, <2>1, <2>2, <2>3
  <2>4. CASE r = k + 1
    BY <1>1, <1>5, <2>2, <2>4
  <2> QED
    BY <1>6, <2>3, <2>4
<1>9. ASSUME NEW s \in 1 .. n + 2
      PROVE  tc[s].type = "FUNCTION_TYPE" <=> \E q \in 1 .. k + 1 : gs[q].scope = s
  <2>1. CASE s \in 1 .. n
    <3>1. gs[k + 1].scope # s
      BY <1>1, <1>5, <2>1
    <3>2. tc[s].type = "FUNCTION_TYPE" <=> \E q \in 1 .. k : fs[q].scope = s
      BY <1>4, <1>5, <2>1
    <3>3. (\E q \in 1 .. k + 1 : gs[q].scope = s) <=> \E q \in 1 .. k : gs[q].scope = s
      <4>1. \A q \in 1 .. k : q \in 1 .. k + 1
        BY <1>1
      <4> QED
        BY <1>6, <3>1, <4>1
    <3> QED
      BY <1>5, <3>2, <3>3
  <2>2. CASE s = n + 1
    <3>1. k + 1 \in 1 .. k + 1
      BY <1>1
    <3> QED
      BY <1>5, <2>2, <3>1
  <2>3. CASE s = n + 2
    <3>1. \A q \in 1 .. k + 1 : gs[q].scope # n + 2
      <4>1. \A q \in 1 .. k + 1 : gs[q].scope \in Nat
        BY <1>1, FnInfoType
      <4> QED
        BY <1>1, <1>7, <4>1
    <3> QED
      BY <1>5, <2>3, <3>1
  <2> QED
    BY <1>1, <2>1, <2>2, <2>3
<1> QED
  BY <1>1, <1>7, <1>8, <1>9 DEF Shape

LEMMA EnteredSlots ==
  ASSUME NEW sc \in Seq(Scope), NEW tc \in Seq(Scope), sc # <<>>,
         NEW fs \in Seq(FnInfo), NEW gs \in Seq(FnInfo), NEW sl \in Nat,
         Entered(sc, fs, sl, tc, gs), Shape(sc, fs), SlotsOf(sc, fs, sl),
         NEW p \in Nat, NEW d \in Nat,
         Len(tc[Len(sc) + 1].locals) = p, Len(tc[Len(sc) + 2].locals) = d,
         \A i \in DOMAIN tc[Len(sc) + 1].locals :
            tc[Len(sc) + 1].locals[i].slot = 0 + i - 1,
         \A i \in DOMAIN tc[Len(sc) + 2].locals :
            tc[Len(sc) + 2].locals[i].slot = p + i - 1
  PROVE  SlotsOf(tc, gs, p + d)
<1> DEFINE n == Len(sc)
           k == Len(fs)
<1>1. PICK ends : Ends(sc, fs, ends) /\ sl = ends[n]
  BY DEF SlotsOf
<1> DEFINE to == [s \in 0 .. n + 2 |-> IF s <= n THEN ends[s]
                                       ELSE IF s = n + 1 THEN p ELSE p + d]
<1>2. n \in Nat \ {0} /\ n \in 1 .. Len(sc) /\ n <= Len(tc) /\ Len(tc) = n + 2 /\ k \in Nat
      /\ DOMAIN gs = 1 .. k + 1 /\ DOMAIN fs = 1 .. k
  BY DEF Entered
<1>3. to \in [0 .. n + 2 -> Nat]
  <2>1. \A s \in 0 .. n : ends[s] \in Nat
    BY <1>1 DEF Ends
  <2> QED
    BY <1>2, <2>1
<1>4. (\A s \in 0 .. n : to[s] = ends[s]) /\ to[n + 1] = p /\ to[n + 2] = p + d
  BY <1>2
<1> HIDE DEF to
<1>5. ASSUME NEW s \in 2 .. n + 2
      PROVE  Filled(tc, to, s)
  <2>1. CASE s \in 2 .. n
    <3>1. Filled(sc, ends, s) /\ Alike(sc, tc, n)
      BY <1>1, <2>1 DEF Ends, Entered
    <3> QED
      BY <1>2, <1>4, <2>1, <3>1, FilledKept
  <2>2. CASE s = n + 1
    <3>1. First(tc, to, s) = 0
      BY <2>2 DEF First, Entered
    <3> QED
      BY <1>4, <2>2, <3>1 DEF Filled
  <2>3. CASE s = n + 2
    <3>1. First(tc, to, s) = p
      <4>1. tc[s].type # "FUNCTION_TYPE" /\ s - 1 = n + 1
        BY <1>2, <2>3 DEF Entered
      <4> QED
        BY <1>4, <4>1 DEF First
    <3> QED
      BY <1>4, <2>3, <3>1 DEF Filled
  <2> QED
    BY <1>2, <2>1, <2>2, <2>3
<1>6. ASSUME NEW q \in DOMAIN gs
      PROVE  gs[q].saved = to[gs[q].scope - 1]
  <2>1. CASE q \in 1 .. k
    <3>1. fs[q].scope \in Nat /\ 1 < fs[q].scope /\ fs[q].scope < n
      BY <1>2, <2>1, FnInfoType DEF Shape
    <3>2. fs[q].scope - 1 \in 0 .. n
      BY <1>2, <3>1
    <3>3. gs[q].scope = fs[q].scope /\ gs[q].saved = fs[q].saved
      BY <2>1 DEF Entered, SameFrames
    <3> QED
      BY <1>1, <1>2, <1>4, <2>1, <3>2, <3>3 DEF Ends
  <2>2. CASE q = k + 1
    <3>1. gs[q].scope - 1 = n /\ gs[q].saved = sl /\ n \in 0 .. n
      BY <1>2, <2>2 DEF Entered
    <3> QED
      BY <1>1, <1>4, <3>1
  <2> QED
    BY <1>2, <2>1, <2>2
<1>7. to[0] = 0 /\ to[1] = 0
  BY <1>1, <1>2, <1>4 DEF Ends
<1>8. Ends(tc, gs, to)
  <2> HIDE DEF n
  <2> QED
    BY <1>2, <1>3, <1>5, <1>6, <1>7 DEF Ends
<1> QED
  BY <1>2, <1>4, <1>8 DEF SlotsOf

(* Scopes end down to m, with the functions that are not below.            *)
Ended(sc, fs, m, tc, gs) ==
  /\ m \in 1 .. Len(sc) /\ Len(tc) = m /\ Alike(sc, tc, m)
  /\ Len(gs) <= Len(fs) /\ SameFrames(fs, gs, Len(gs))
  /\ \A q \in DOMAIN fs : q <= Len(gs) <=> fs[q].scope <= m
  /\ \A q \in DOMAIN gs : gs[q].scope < m

LEMMA EndedShape ==
  ASSUME NEW sc \in Seq(Scope), NEW tc \in Seq(Scope),
         NEW fs \in Seq(FnInfo), NEW gs \in Seq(FnInfo), NEW m,
         Ended(sc, fs, m, tc, gs), Shape(sc, fs)
  PROVE  Shape(tc, gs)
<1>1. /\ m \in Nat /\ DOMAIN tc = 1 .. m /\ DOMAIN sc = 1 .. Len(sc) /\ 1 .. m \subseteq 1 .. Len(sc)
      /\ DOMAIN gs \subseteq DOMAIN fs /\ DOMAIN gs = {q \in DOMAIN fs : q <= Len(gs)}
      /\ tc # <<>> /\ Len(tc) = m
  <2>1. m \in 1 .. Len(sc) /\ Len(tc) = m /\ Len(gs) <= Len(fs)
    BY DEF Ended
  <2>2. DOMAIN gs = 1 .. Len(gs) /\ DOMAIN fs = 1 .. Len(fs) /\ Len(gs) \in Nat /\ Len(fs) \in Nat
    OBVIOUS
  <2>3. DOMAIN gs \subseteq DOMAIN fs /\ DOMAIN gs = {q \in DOMAIN fs : q <= Len(gs)}
    BY <2>1, <2>2
  <2>4. m \in Nat /\ DOMAIN tc = 1 .. m /\ DOMAIN sc = 1 .. Len(sc) /\ 1 .. m \subseteq 1 .. Len(sc)
        /\ tc # <<>>
    BY <2>1
  <2> QED
    BY <2>1, <2>3, <2>4
<1>2. \A q \in DOMAIN gs : gs[q].scope = fs[q].scope
  BY DEF Ended, SameFrames
<1>3. \A q \in DOMAIN gs : 1 < gs[q].scope /\ gs[q].scope < m
  BY <1>1, <1>2 DEF Shape, Ended
<1>4. ASSUME NEW s \in 1 .. m
      PROVE  tc[s].type = "FUNCTION_TYPE" <=> \E q \in DOMAIN gs : gs[q].scope = s
  <2>1. tc[s].type = sc[s].type
    BY DEF Ended, Alike
  <2>2. sc[s].type = "FUNCTION_TYPE" <=> \E q \in DOMAIN fs : fs[q].scope = s
    BY <1>1 DEF Shape
  <2>3. \A q \in DOMAIN fs : fs[q].scope = s => q \in DOMAIN gs
    BY <1>1 DEF Ended
  <2> QED
    BY <1>1, <1>2, <2>1, <2>2, <2>3
<1>5. \A q, r \in DOMAIN gs : q < r => gs[q].scope + 1 < gs[r].scope
  BY <1>1, <1>2 DEF Shape
<1> QED
  BY <1>1, <1>3, <1>4, <1>5 DEF Shape

LEMMA EndedSlots ==
  ASSUME NEW sc \in Seq(Scope), NEW tc \in Seq(Scope),
         NEW fs \in Seq(FnInfo), NEW gs \in Seq(FnInfo), NEW m,
         Ended(sc, fs, m, tc, gs), Shape(sc, fs),
         NEW ends, Ends(sc, fs, ends)
  PROVE  SlotsOf(tc, gs, ends[m])
<1> DEFINE to == [s \in 0 .. m |-> ends[s]]
<1>1. m \in 1 .. Len(sc) /\ m <= Len(tc) /\ Len(tc) = m /\ Len(sc) \in Nat
  BY DEF Ended
<1>2. (\A s \in 0 .. m : to[s] = ends[s]) /\ to \in [0 .. m -> Nat]
  <2>1. ends \in [0 .. Len(sc) -> Nat] /\ \A s \in 0 .. m : s \in 0 .. Len(sc)
    BY <1>1 DEF Ends
  <2> QED
    BY <2>1
<1> HIDE DEF to
<1>3. ASSUME NEW s \in 2 .. m
      PROVE  Filled(tc, to, s)
  <2>1. Filled(sc, ends, s) /\ Alike(sc, tc, m)
    BY <1>1 DEF Ends, Ended
  <2> QED
    BY <1>1, <1>2, <2>1, FilledKept
<1>4. ASSUME NEW q \in DOMAIN gs
      PROVE  gs[q].saved = to[gs[q].scope - 1]
  <2>1. /\ q \in 1 .. Len(gs) /\ q \in DOMAIN fs
        /\ gs[q].scope = fs[q].scope /\ gs[q].saved = fs[q].saved
    BY DEF Ended, SameFrames
  <2>2. gs[q].scope \in Nat /\ 1 < gs[q].scope /\ gs[q].scope < m
    BY <2>1, FnInfoType DEF Shape, Ended
  <2>3. gs[q].scope - 1 \in 0 .. m
    BY <1>1, <2>2
  <2> QED
    BY <1>2, <2>1, <2>3 DEF Ends
<1>5. to[0] = 0 /\ to[1] = 0
  BY <1>1, <1>2 DEF Ends
<1>6. Ends(tc, gs, to)
  BY <1>1, <1>2, <1>3, <1>4, <1>5 DEF Ends
<1>7. ends[m] = to[Len(tc)]
  BY <1>1, <1>2
<1> QED
  BY <1>6, <1>7 DEF SlotsOf
-----------------------------------------------------------------------------
(* Upvalues.                                                               *)

LEMMA MaxOf ==
  ASSUME NEW n \in Nat, NEW S, S \subseteq 0 .. n, S # {}
  PROVE  Max(S) \in S /\ \A e \in S : e <= Max(S)
<1>1. PICK d \in S : \A e \in S : e <= d
  BY GreatestExists
<1>2. \A e \in S : d >= e
  BY <1>1
<1>3. Max(S) \in S /\ \A e \in S : Max(S) >= e
  BY <1>2 DEF Max
<1> QED
  BY <1>3

LEMMA MinOf ==
  ASSUME NEW S, S \subseteq Nat, S # {}
  PROVE  Min(S) \in S /\ \A e \in S : Min(S) <= e
<1>1. PICK d \in S : \A e \in S : d <= e
  BY LeastExists
<1> QED
  BY <1>1 DEF Min

Distinct(ups) == \A i, j \in DOMAIN ups : ups[i] = ups[j] => i = j

(* fnInfoAddUpVal finds or adds an upvalue and keeps the others in place.  *)
LEMMA Added ==
  ASSUME NEW ups \in Seq(UpValue), NEW uv \in UpValue
  PROVE  /\ AddUpVal(ups, uv) \in Seq(UpValue) /\ Len(ups) <= Len(AddUpVal(ups, uv))
         /\ IndexOf(ups, uv) \in 1 .. Len(AddUpVal(ups, uv))
         /\ AddUpVal(ups, uv)[IndexOf(ups, uv)] = uv
         /\ \A i \in 1 .. Len(ups) : AddUpVal(ups, uv)[i] = ups[i]
         /\ \A i \in 1 .. Len(AddUpVal(ups, uv)) :
               i \in 1 .. Len(ups) \/ AddUpVal(ups, uv)[i] = uv
         /\ Distinct(ups) => Distinct(AddUpVal(ups, uv))
<1> DEFINE n == Len(ups)
<1>1. n \in Nat /\ DOMAIN ups = 1 .. n
  OBVIOUS
<1>2. CASE Same(ups, uv) = {}
  <2>1. AddUpVal(ups, uv) = Append(ups, uv) /\ IndexOf(ups, uv) = n + 1
    BY <1>2 DEF AddUpVal, IndexOf
  <2>2. PICK aps : aps = Append(ups, uv)
    OBVIOUS
  <2>3. /\ aps \in Seq(UpValue) /\ Len(aps) = n + 1 /\ aps[n + 1] = uv
        /\ \A i \in 1 .. n : aps[i] = ups[i]
    BY <2>2, AppendProperties
  <2>4. \A i \in 1 .. n : ups[i] # uv
    BY <1>1, <1>2 DEF Same
  <2>5. \A i \in 1 .. n + 1 : i \in 1 .. n \/ i = n + 1
    BY <1>1
  <2>6. DOMAIN aps = 1 .. n + 1
    BY <2>3
  <2>7. Distinct(ups) => Distinct(aps)
    <3> HIDE DEF n
    <3> SUFFICES ASSUME Distinct(ups), NEW i \in 1 .. n + 1, NEW j \in 1 .. n + 1, aps[i] = aps[j]
                 PROVE  i = j
      BY <2>6 DEF Distinct
    <3> QED
      BY <1>1, <2>3, <2>4, <2>5 DEF Distinct
  <2>8. \A i \in 1 .. n + 1 : i \in 1 .. n \/ aps[i] = uv
    BY <2>3, <2>5
  <2>9. n <= n + 1 /\ n + 1 \in 1 .. n + 1
    BY <1>1
  <2> QED
    BY <2>1, <2>2, <2>3, <2>7, <2>8, <2>9
<1>3. CASE Same(ups, uv) # {}
  <2>1. Same(ups, uv) \subseteq Nat
    BY <1>1 DEF Same
  <2>2. IndexOf(ups, uv) \in Same(ups, uv)
    BY <1>3, <2>1, MinOf DEF IndexOf
  <2>3. AddUpVal(ups, uv) = ups
    BY <1>3 DEF AddUpVal
  <2>4. IndexOf(ups, uv) \in 1 .. n /\ ups[IndexOf(ups, uv)] = uv
    BY <1>1, <2>2 DEF Same
  <2> QED
    BY <1>1, <2>3, <2>4
<1> QED
  BY <1>2, <1>3

(* The recursion of resolveUpValue is well defined.                        *)
Handed(g, owner, param, q) ==
  IF q = owner + 1
  THEN [type |-> "UVAL_LOC", index |-> param]
  ELSE [type |-> "UVAL_UVAL", index |-> PassedOn(fns[q - 1].upvalues, g[q - 1])]

LEMMA CapturesExist ==
  ASSUME NEW owner \in Nat, NEW param, NEW m \in Nat, owner <= m
  PROVE  \E g : g = [q \in owner + 1 .. m |-> Handed(g, owner, param, q)]
<1> DEFINE Good(n) == \E g : g = [q \in owner + 1 .. n |-> Handed(g, owner, param, q)]
           bad == {n \in Nat : owner <= n /\ ~Good(n)}
<1>1. Good(owner)
  <2> DEFINE g == [q \in {} |-> 0]
  <2>1. owner + 1 .. owner = {}
    OBVIOUS
  <2>2. g = [q \in owner + 1 .. owner |-> Handed(g, owner, param, q)]
    BY <2>1
  <2> QED
    BY <2>2
<1>2. ASSUME NEW n \in Nat, owner < n, Good(n - 1)
      PROVE  Good(n)
  <2>1. PICK g : g = [q \in owner + 1 .. n - 1 |-> Handed(g, owner, param, q)]
    BY <1>2
  <2> DEFINE h == [q \in owner + 1 .. n |-> IF q < n THEN g[q] ELSE Handed(g, owner, param, n)]
  <2>2. ASSUME NEW q \in owner + 1 .. n
        PROVE  h[q] = Handed(h, owner, param, q)
    <3>1. CASE q = owner + 1
      <4>1. CASE q < n
        <5>1. q \in owner + 1 .. n - 1
          BY <4>1
        <5>2. h[q] = g[q] /\ g[q] = Handed(g, owner, param, q)
          BY <2>1, <4>1, <5>1
        <5> QED
          BY <3>1, <5>2 DEF Handed
      <4>2. CASE q = n
        BY <1>2, <3>1, <4>2 DEF Handed
      <4> QED
        BY <4>1, <4>2
    <3>2. CASE q # owner + 1
      <4>1. q - 1 \in owner + 1 .. n - 1 /\ q - 1 \in owner + 1 .. n /\ q - 1 < n
        BY <3>2
      <4>2. h[q - 1] = g[q - 1]
        BY <4>1
      <4>3. h[q] = Handed(g, owner, param, q)
        <5>1. CASE q < n
          <6>1. q \in owner + 1 .. n - 1 /\ h[q] = g[q]
            BY <5>1
          <6> QED
            BY <2>1, <6>1
        <5>2. CASE q = n
          BY <5>2
        <5> QED
          BY <5>1, <5>2
      <4> HIDE DEF h
      <4> QED
        BY <3>2, <4>2, <4>3 DEF Handed
    <3> QED
      BY <3>1, <3>2
  <2>3. h = [q \in owner + 1 .. n |-> h[q]]
    OBVIOUS
  <2> HIDE DEF h
  <2>4. h = [q \in owner + 1 .. n |-> Handed(h, owner, param, q)]
    BY <2>2, <2>3
  <2> QED
    BY <2>4
<1> HIDE DEF Good
<1>3. bad = {}
  <2> SUFFICES ASSUME bad # {} PROVE FALSE
    OBVIOUS
  <2>1. PICK n \in bad : \A e \in bad : n <= e
    BY LeastExists
  <2>2. n \in Nat /\ owner <= n /\ ~Good(n)
    OBVIOUS
  <2>3. n # owner
    BY <1>1, <2>2
  <2>4. n - 1 \in Nat /\ owner <= n - 1 /\ ~(n <= n - 1)
    BY <2>2, <2>3
  <2>5. Good(n - 1)
    BY <2>1, <2>4
  <2> QED
    BY <1>2, <2>2, <2>3, <2>5
<1>4. Good(m)
  BY <1>3
<1> QED
  BY <1>4 DEF Good

LEMMA CapturesAre ==
  ASSUME NEW owner \in Nat, NEW param, fns \in Seq(FnInfo), owner <= Len(fns),
         NEW q \in owner + 1 .. Len(fns)
  PROVE  Captures(owner, param)[q] = Handed(Captures(owner, param), owner, param, q)
<1> DEFINE uv == CHOOSE g : g = [r \in owner + 1 .. Len(fns) |-> Handed(g, owner, param, r)]
<1>1. uv = [r \in owner + 1 .. Len(fns) |-> Handed(uv, owner, param, r)]
  <2>1. Len(fns) \in Nat
    OBVIOUS
  <2>2. \E g : g = [r \in owner + 1 .. Len(fns) |-> Handed(g, owner, param, r)]
    BY <2>1, CapturesExist
  <2> QED
    BY <2>2
<1>2. Captures(owner, param) = uv
  BY DEF Captures, Handed
<1> HIDE DEF uv
<1> QED
  BY <1>1, <1>2
-----------------------------------------------------------------------------
(* From upvalues to variables.                                             *)

Stands(g, fs, q, i) ==
  IF fs[q].upvalues[i].type = "UVAL_LOC"
  THEN <<fs[q - 1].scope, fs[q].upvalues[i].index + 1>>
  ELSE g[q - 1][fs[q].upvalues[i].index]
Walk(g, fs, n) ==
  g = [q \in 1 .. n |-> [i \in DOMAIN fs[q].upvalues |-> Stands(g, fs, q, i)]]
VariableOf(fs) == CHOOSE g : Walk(g, fs, Len(fs))

LEMMA VariableIs ==
  ASSUME fns \in Seq(FnInfo), fns' \in Seq(FnInfo)
  PROVE  Variable = VariableOf(fns) /\ Variable' = VariableOf(fns')
<1>1. DOMAIN fns = 1 .. Len(fns) /\ DOMAIN fns' = 1 .. Len(fns')
  OBVIOUS
<1>2. Variable = VariableOf(fns)
  BY <1>1 DEF Variable, VariableOf, Walk, Stands
<1>3. Variable' = VariableOf(fns')
  BY <1>1 DEF Variable, VariableOf, Walk, Stands
<1> QED
  BY <1>2, <1>3

(* The walk is well defined, since a function of the script has none.      *)
LEMMA WalksExist ==
  ASSUME NEW sc, NEW fs \in Seq(FnInfo), Grounded(sc, fs), NEW m \in Nat, m <= Len(fs)
  PROVE  \E g : Walk(g, fs, m)
<1> DEFINE Good(n) == \E g : Walk(g, fs, n)
           bad == {n \in Nat : n <= Len(fs) /\ ~Good(n)}
<1>1. Good(0)
  <2> DEFINE g == [q \in {} |-> 0]
  <2>1. 1 .. 0 = {}
    OBVIOUS
  <2>2. Walk(g, fs, 0)
    BY <2>1 DEF Walk
  <2> QED
    BY <2>2
<1>2. ASSUME NEW n \in Nat, 0 < n, n <= Len(fs), Good(n - 1)
      PROVE  Good(n)
  <2>1. PICK g : Walk(g, fs, n - 1)
    BY <1>2
  <2> DEFINE row == [i \in DOMAIN fs[n].upvalues |-> Stands(g, fs, n, i)]
             h == [q \in 1 .. n |-> IF q < n THEN g[q] ELSE row]
  <2>2. ASSUME NEW q \in 1 .. n
        PROVE  h[q] = [i \in DOMAIN fs[q].upvalues |-> Stands(g, fs, q, i)]
    <3>1. CASE q < n
      <4>1. q \in 1 .. n - 1 /\ h[q] = g[q]
        BY <3>1
      <4> HIDE DEF h, row
      <4> QED
        BY <2>1, <4>1 DEF Walk
    <3>2. CASE q = n
      BY <3>2
    <3> QED
      BY <3>1, <3>2
  <2>3. ASSUME NEW q \in 1 .. n, NEW i \in DOMAIN fs[q].upvalues
        PROVE  Stands(g, fs, q, i) = Stands(h, fs, q, i)
    <3>1. q > 1
      <4>1. q \in DOMAIN fs
        BY <1>2
      <4> QED
        BY <4>1 DEF Grounded
    <3>2. q - 1 \in 1 .. n /\ q - 1 < n
      BY <3>1
    <3>3. h[q - 1] = g[q - 1]
      BY <3>2
    <3> HIDE DEF h
    <3> QED
      BY <3>3 DEF Stands
  <2>4. h = [q \in 1 .. n |-> h[q]]
    OBVIOUS
  <2> HIDE DEF h, row
  <2>5. Walk(h, fs, n)
    <3>1. ASSUME NEW q \in 1 .. n
          PROVE  h[q] = [i \in DOMAIN fs[q].upvalues |-> Stands(h, fs, q, i)]
      BY <2>2, <2>3
    <3> QED
      BY <2>4, <3>1 DEF Walk
  <2> QED
    BY <2>5
<1> HIDE DEF Good
<1>3. bad = {}
  <2> SUFFICES ASSUME bad # {} PROVE FALSE
    OBVIOUS
  <2>1. PICK n \in bad : \A e \in bad : n <= e
    BY LeastExists
  <2>2. n \in Nat /\ n <= Len(fs) /\ ~Good(n)
    OBVIOUS
  <2>3. n # 0
    BY <1>1, <2>2
  <2>4. n - 1 \in Nat /\ n - 1 <= Len(fs) /\ ~(n <= n - 1) /\ 0 < n
    BY <2>2, <2>3
  <2>5. Good(n - 1)
    BY <2>1, <2>4
  <2> QED
    BY <1>2, <2>2, <2>4, <2>5
<1>4. Good(m)
  BY <1>3
<1> QED
  BY <1>4 DEF Good

LEMMA VariablesAre ==
  ASSUME NEW sc, NEW fs \in Seq(FnInfo), Grounded(sc, fs),
         NEW q \in DOMAIN fs, NEW i \in DOMAIN fs[q].upvalues
  PROVE  VariableOf(fs)[q][i] = Stands(VariableOf(fs), fs, q, i)
<1>1. Len(fs) \in Nat /\ Len(fs) <= Len(fs) /\ q \in 1 .. Len(fs)
  OBVIOUS
<1>2. Walk(VariableOf(fs), fs, Len(fs))
  BY <1>1, WalksExist DEF VariableOf
<1>3. PICK g : g = VariableOf(fs)
  OBVIOUS
<1>4. g = [r \in 1 .. Len(fs) |-> [j \in DOMAIN fs[r].upvalues |-> Stands(g, fs, r, j)]]
  BY <1>2, <1>3 DEF Walk
<1>5. g[q] = [j \in DOMAIN fs[q].upvalues |-> Stands(g, fs, q, j)]
  BY <1>1, <1>4
<1>6. g[q][i] = Stands(g, fs, q, i)
  BY <1>5
<1> QED
  BY <1>3, <1>6
-----------------------------------------------------------------------------
(* A variable is captured from function owner, through the functions in it.*)
CapturedBy(fs, gs, owner, param, uv) ==
  /\ owner \in 1 .. Len(fs) - 1 /\ param \in Nat
  /\ Len(gs) = Len(fs) /\ SameFrames(fs, gs, Len(fs))
  /\ \A q \in 1 .. owner : gs[q].upvalues = fs[q].upvalues
  /\ \A q \in owner + 1 .. Len(fs) :
       uv[q] \in UpValue /\ gs[q].upvalues = AddUpVal(fs[q].upvalues, uv[q])
  /\ uv[owner + 1] = [type |-> "UVAL_LOC", index |-> param]
  /\ \A q \in owner + 2 .. Len(fs) :
       uv[q] = [type |-> "UVAL_UVAL", index |-> IndexOf(fs[q - 1].upvalues, uv[q - 1])]

LEMMA CapturedUpvalues ==
  ASSUME NEW fs \in Seq(FnInfo), NEW gs \in Seq(FnInfo), NEW owner, NEW param, NEW uv,
         CapturedBy(fs, gs, owner, param, uv), NEW q \in 1 .. Len(fs)
  PROVE  /\ Len(fs[q].upvalues) <= Len(gs[q].upvalues)
         /\ \A i \in DOMAIN fs[q].upvalues :
              i \in DOMAIN gs[q].upvalues /\ gs[q].upvalues[i] = fs[q].upvalues[i]
         /\ \A i \in DOMAIN gs[q].upvalues :
              i \in DOMAIN fs[q].upvalues \/ (q > owner /\ gs[q].upvalues[i] = uv[q])
         /\ Distinct(fs[q].upvalues) => Distinct(gs[q].upvalues)
         /\ q > owner => /\ IndexOf(fs[q].upvalues, uv[q]) \in DOMAIN gs[q].upvalues
                         /\ gs[q].upvalues[IndexOf(fs[q].upvalues, uv[q])] = uv[q]
<1>1. fs[q].upvalues \in Seq(UpValue) /\ gs[q].upvalues \in Seq(UpValue) /\ Len(fs[q].upvalues) \in Nat
  <2>1. q \in DOMAIN fs /\ q \in DOMAIN gs
    BY DEF CapturedBy
  <2> QED
    BY <2>1, FnInfoType
<1>2. owner \in Nat /\ (q > owner => q \in owner + 1 .. Len(fs)) /\ (~(q > owner) => q \in 1 .. owner)
  BY DEF CapturedBy
<1>3. CASE q > owner
  <2>1. uv[q] \in UpValue /\ gs[q].upvalues = AddUpVal(fs[q].upvalues, uv[q])
    BY <1>2, <1>3 DEF CapturedBy
  <2>2. PICK ups, vps, v : ups = fs[q].upvalues /\ vps = gs[q].upvalues /\ v = uv[q]
    OBVIOUS
  <2>0. ups \in Seq(UpValue) /\ v \in UpValue /\ vps = AddUpVal(ups, v)
    BY <1>1, <2>1, <2>2
  <2>3. /\ Len(ups) <= Len(vps) /\ IndexOf(ups, v) \in 1 .. Len(vps) /\ vps[IndexOf(ups, v)] = v
        /\ \A i \in 1 .. Len(ups) : vps[i] = ups[i]
        /\ \A i \in 1 .. Len(vps) : i \in 1 .. Len(ups) \/ vps[i] = v
        /\ Distinct(ups) => Distinct(vps)
    BY ONLY <2>0, Added
  <2>4. DOMAIN ups = 1 .. Len(ups) /\ DOMAIN vps = 1 .. Len(vps) /\ 1 .. Len(ups) \subseteq 1 .. Len(vps)
    BY <1>1, <2>2, <2>3
  <2> QED
    BY <1>3, <2>2, <2>3, <2>4
<1>4. CASE ~(q > owner)
  <2>1. gs[q].upvalues = fs[q].upvalues
    BY <1>2, <1>4 DEF CapturedBy
  <2> QED
    BY <1>1, <1>4, <2>1
<1> QED
  BY <1>3, <1>4

LEMMA CapturedGrounded ==
  ASSUME NEW sc \in Seq(Scope), NEW tc \in Seq(Scope), Len(tc) = Len(sc), Alike(sc, tc, Len(sc)),
         NEW fs \in Seq(FnInfo), NEW gs \in Seq(FnInfo), NEW owner, NEW param, NEW uv,
         CapturedBy(fs, gs, owner, param, uv),
         Shape(sc, fs), Grounded(sc, fs), Different(fs),
         NEW p \in DOMAIN tc[fs[owner].scope].locals,
         tc[fs[owner].scope].locals[p].slot = param, tc[fs[owner].scope].locals[p].captured
  PROVE  Grounded(tc, gs) /\ Different(gs)
<1>1. /\ DOMAIN fs = 1 .. Len(fs) /\ DOMAIN gs = 1 .. Len(fs) /\ owner \in Nat \ {0}
      /\ \A q \in 1 .. Len(fs) : gs[q].scope = fs[q].scope
  BY DEF CapturedBy, SameFrames
<1>2. Different(gs)
  <2>1. ASSUME NEW q \in 1 .. Len(fs)
        PROVE  Distinct(gs[q].upvalues)
    <3>1. Distinct(fs[q].upvalues)
      BY <1>1 DEF Different, Distinct
    <3> QED
      BY <3>1, CapturedUpvalues
  <2> QED
    BY <1>1, <2>1 DEF Different, Distinct
<1>3. ASSUME NEW q \in 1 .. Len(fs), NEW i \in DOMAIN gs[q].upvalues
      PROVE  LET v == gs[q].upvalues[i] IN
             /\ q > 1
             /\ v.type = "UVAL_LOC" =>
                  \E r \in DOMAIN tc[gs[q - 1].scope].locals :
                    /\ tc[gs[q - 1].scope].locals[r].slot = v.index
                    /\ tc[gs[q - 1].scope].locals[r].captured
             /\ v.type = "UVAL_UVAL" => v.index \in DOMAIN gs[q - 1].upvalues
  <2>1. CASE i \in DOMAIN fs[q].upvalues
    <3>1. PICK v : v = fs[q].upvalues[i] /\ v = gs[q].upvalues[i]
      BY <2>1, CapturedUpvalues
    <3>2. /\ q > 1
          /\ v.type = "UVAL_LOC" =>
               \E r \in DOMAIN sc[fs[q - 1].scope].locals :
                 /\ sc[fs[q - 1].scope].locals[r].slot = v.index
                 /\ sc[fs[q - 1].scope].locals[r].captured
          /\ v.type = "UVAL_UVAL" => v.index \in DOMAIN fs[q - 1].upvalues
      BY <1>1, <2>1, <3>1, ZenonT(60) DEF Grounded
    <3>3. q - 1 \in 1 .. Len(fs) /\ gs[q - 1].scope = fs[q - 1].scope
      BY <1>1, <3>2
    <3>4. v.type = "UVAL_UVAL" => v.index \in DOMAIN gs[q - 1].upvalues
      BY <3>2, <3>3, CapturedUpvalues, SMTT(30)
    <3>5. ASSUME v.type = "UVAL_LOC"
          PROVE  \E r \in DOMAIN tc[gs[q - 1].scope].locals :
                    /\ tc[gs[q - 1].scope].locals[r].slot = v.index
                    /\ tc[gs[q - 1].scope].locals[r].captured
      <4>1. PICK s : s = fs[q - 1].scope
        OBVIOUS
      <4>2. s \in 1 .. Len(sc)
        <5>1. q - 1 \in DOMAIN fs /\ Len(sc) \in Nat
          BY <1>1, <3>3
        <5>2. s \in Nat /\ 1 < s /\ s < Len(sc)
          BY <4>1, <5>1, FnInfoType DEF Shape
        <5> QED
          BY <5>1, <5>2
      <4>3. PICK r \in DOMAIN sc[s].locals : sc[s].locals[r].slot = v.index /\ sc[s].locals[r].captured
        BY <3>2, <3>5, <4>1
      <4>4. sc[s].locals \in Seq(Symbol) /\ tc[s].locals \in Seq(Symbol)
        BY <4>2, ScopeType
      <4>5. DOMAIN tc[s].locals = DOMAIN sc[s].locals
        BY <4>2, <4>4 DEF Alike
      <4>6. tc[s].locals[r].slot = v.index /\ tc[s].locals[r].captured
        BY <4>2, <4>3 DEF Alike
      <4> QED
        BY <3>3, <4>1, <4>3, <4>5, <4>6
    <3> QED
      BY <3>1, <3>2, <3>4, <3>5
  <2>2. CASE i \notin DOMAIN fs[q].upvalues
    <3>1. q > owner /\ gs[q].upvalues[i] = uv[q]
      BY <2>2, CapturedUpvalues
    <3>2. q > 1
      BY <1>1, <3>1
    <3>3. CASE q = owner + 1
      <4>1. uv[q] = [type |-> "UVAL_LOC", index |-> param] /\ q - 1 = owner
        BY <1>1, <3>3 DEF CapturedBy
      <4>2. gs[q - 1].scope = fs[owner].scope
        BY <1>1, <4>1 DEF CapturedBy
      <4> QED
        BY <3>1, <3>2, <4>1, <4>2
    <3>4. CASE q # owner + 1
      <4>1. q \in owner + 2 .. Len(fs) /\ q - 1 \in 1 .. Len(fs) /\ q - 1 > owner
        BY <1>1, <3>1, <3>4
      <4>2. uv[q] = [type |-> "UVAL_UVAL", index |-> IndexOf(fs[q - 1].upvalues, uv[q - 1])]
        BY <4>1 DEF CapturedBy
      <4>3. IndexOf(fs[q - 1].upvalues, uv[q - 1]) \in DOMAIN gs[q - 1].upvalues
        BY <4>1, CapturedUpvalues
      <4> QED
        BY <3>1, <3>2, <4>2, <4>3
    <3> QED
      BY <3>3, <3>4
  <2> QED
    BY <2>1, <2>2
<1>4. Grounded(tc, gs)
  BY <1>1, <1>3 DEF Grounded
<1> QED
  BY <1>2, <1>4

(* Whoever uses the variable, it is the parameter of owner.                *)
Means(fs, gs, owner, param, uv, q) ==
  VariableOf(gs)[q][IndexOf(fs[q].upvalues, uv[q])] = <<fs[owner].scope, param + 1>>

LEMMA CapturedVariable ==
  ASSUME NEW fs \in Seq(FnInfo), NEW gs \in Seq(FnInfo), NEW owner \in Nat, NEW param \in Nat,
         NEW uv, CapturedBy(fs, gs, owner, param, uv), NEW tc, Grounded(tc, gs),
         NEW m \in owner + 1 .. Len(fs)
  PROVE  Means(fs, gs, owner, param, uv, m)
<1> DEFINE Good(q) == VariableOf(gs)[q][IndexOf(fs[q].upvalues, uv[q])]
                        = <<fs[owner].scope, param + 1>>
           bad == {q \in owner + 1 .. Len(fs) : ~Good(q)}
<1>1. owner \in Nat \ {0} /\ Len(fs) \in Nat /\ DOMAIN gs = 1 .. Len(fs)
  BY DEF CapturedBy
<1>2. ASSUME NEW q \in owner + 1 .. Len(fs), q = owner + 1 \/ Good(q - 1)
      PROVE  Good(q)
  <2>1. q \in 1 .. Len(fs) /\ q > owner
    BY <1>1
  <2>2. PICK i : i = IndexOf(fs[q].upvalues, uv[q])
    OBVIOUS
  <2>3. i \in DOMAIN gs[q].upvalues /\ gs[q].upvalues[i] = uv[q]
    BY <2>1, <2>2, CapturedUpvalues
  <2>4. VariableOf(gs)[q][i] = Stands(VariableOf(gs), gs, q, i)
    BY <1>1, <2>1, <2>3, VariablesAre
  <2>5. CASE q = owner + 1
    <3>1. uv[q] = [type |-> "UVAL_LOC", index |-> param] /\ q - 1 = owner
      BY <1>1, <2>5 DEF CapturedBy
    <3>2. gs[q - 1].scope = fs[owner].scope
      BY <1>1, <3>1 DEF CapturedBy, SameFrames
    <3> QED
      BY <2>2, <2>3, <2>4, <3>1, <3>2 DEF Stands
  <2>6. CASE q # owner + 1
    <3>1. q \in owner + 2 .. Len(fs)
      BY <1>1, <2>6
    <3>2. uv[q] = [type |-> "UVAL_UVAL", index |-> IndexOf(fs[q - 1].upvalues, uv[q - 1])]
      BY <3>1 DEF CapturedBy
    <3>3. VariableOf(gs)[q][i] = VariableOf(gs)[q - 1][IndexOf(fs[q - 1].upvalues, uv[q - 1])]
      BY <2>3, <2>4, <3>2 DEF Stands
    <3> QED
      BY <1>2, <2>2, <2>6, <3>3
  <2> QED
    BY <2>5, <2>6
<1> HIDE DEF Good
<1>3. bad = {}
  <2> SUFFICES ASSUME bad # {} PROVE FALSE
    OBVIOUS
  <2>1. bad \subseteq Nat
    BY <1>1
  <2>2. PICK q \in bad : \A e \in bad : q <= e
    BY <2>1, LeastExists
  <2>3. q \in owner + 1 .. Len(fs) /\ ~Good(q)
    OBVIOUS
  <2>4. q # owner + 1
    BY <1>2, <2>3
  <2>5. q - 1 \in owner + 1 .. Len(fs) /\ ~(q <= q - 1)
    BY <1>1, <2>3, <2>4
  <2>6. Good(q - 1)
    BY <2>2, <2>5
  <2> QED
    BY <1>2, <2>3, <2>6
<1>4. Good(m)
  BY <1>3
<1> QED
  BY <1>4 DEF Good, Means
-----------------------------------------------------------------------------
(* Levels.                                                                 *)

InLevel(fs, s, k) ==
  /\ k \in 0 .. Len(fs)
  /\ k > 0 => fs[k].scope <= s
  /\ k < Len(fs) => s < fs[k + 1].scope

LEMMA LevelIs ==
  ASSUME fns \in Seq(FnInfo), Shape(scopes, fns), NEW s \in Nat, NEW k, InLevel(fns, s, k)
  PROVE  Level(s) = k
<1>1. k \in Nat /\ DOMAIN fns = 1 .. Len(fns) /\ k \in 0 .. Len(fns)
  BY DEF InLevel
<1>2. ASSUME NEW q \in 1 .. Len(fns)
      PROVE  fns[q].scope <= s <=> q <= k
  <2>1. fns[q].scope \in Nat
    BY <1>1, FnInfoType
  <2>2. CASE q <= k
    <3>1. k \in 1 .. Len(fns) /\ fns[k].scope \in Nat /\ fns[k].scope <= s
      BY <1>1, <2>2, FnInfoType DEF InLevel
    <3>2. q < k => fns[q].scope + 1 < fns[k].scope
      BY <1>1, <3>1 DEF Shape
    <3>3. q = k \/ q < k
      BY <1>1, <2>2
    <3> QED
      BY <2>1, <2>2, <3>1, <3>2, <3>3
  <2>3. CASE ~(q <= k)
    <3>1. k + 1 \in 1 .. Len(fns) /\ fns[k + 1].scope \in Nat /\ s < fns[k + 1].scope
      BY <1>1, <2>3, FnInfoType DEF InLevel
    <3>2. k + 1 < q => fns[k + 1].scope + 1 < fns[q].scope
      BY <1>1, <3>1 DEF Shape
    <3>3. q = k + 1 \/ k + 1 < q
      BY <1>1, <2>3
    <3> QED
      BY <2>1, <2>3, <3>1, <3>2, <3>3
  <2> QED
    BY <2>2, <2>3
<1>3. {q \in DOMAIN fns : fns[q].scope <= s} = 1 .. k
  BY <1>1, <1>2
<1>4. Cardinality(1 .. k) = k
  BY <1>1, FS_Interval
<1> QED
  BY <1>3, <1>4 DEF Level

LEMMA LevelOf ==
  ASSUME fns \in Seq(FnInfo), Shape(scopes, fns), NEW s \in Nat
  PROVE  InLevel(fns, s, Level(s))
<1> DEFINE below == {0} \cup {q \in 1 .. Len(fns) : fns[q].scope <= s}
<1>1. Len(fns) \in Nat /\ DOMAIN fns = 1 .. Len(fns)
  OBVIOUS
<1>2. below \subseteq 0 .. Len(fns) /\ below # {}
  BY <1>1
<1>3. PICK k \in below : \A e \in below : e <= k
  BY <1>1, <1>2, GreatestExists
<1>4. InLevel(fns, s, k)
  <2>1. k \in 0 .. Len(fns) /\ (k > 0 => fns[k].scope <= s)
    BY <1>1
  <2>2. ASSUME k < Len(fns)
        PROVE  s < fns[k + 1].scope
    <3>1. k + 1 \in 1 .. Len(fns) /\ ~(k + 1 <= k)
      BY <2>1, <2>2
    <3>2. k + 1 \notin below
      BY <1>3, <3>1
    <3>3. fns[k + 1].scope \in Nat
      BY <1>1, <3>1, FnInfoType
    <3> QED
      BY <3>1, <3>2, <3>3
  <2> QED
    BY <2>1, <2>2 DEF InLevel
<1> QED
  BY <1>4, LevelIs

(* The scope of the parameters of a function is in its level.              *)
LEMMA LevelOfFunction ==
  ASSUME fns \in Seq(FnInfo), Shape(scopes, fns), NEW q \in DOMAIN fns
  PROVE  Level(fns[q].scope) = q
<1>1. fns[q].scope \in Nat /\ q \in 1 .. Len(fns) /\ Len(fns) \in Nat
  BY FnInfoType
<1>2. q < Len(fns) => fns[q].scope < fns[q + 1].scope
  <2> SUFFICES ASSUME q < Len(fns) PROVE fns[q].scope < fns[q + 1].scope
    OBVIOUS
  <2>1. q + 1 \in DOMAIN fns /\ q < q + 1
    BY <1>1
  <2>2. fns[q + 1].scope \in Nat /\ fns[q].scope + 1 < fns[q + 1].scope
    BY <2>1, FnInfoType DEF Shape
  <2> QED
    BY <1>1, <2>2
<1>3. InLevel(fns, fns[q].scope, q)
  BY <1>1, <1>2 DEF InLevel
<1> QED
  BY <1>1, <1>3, LevelIs
-----------------------------------------------------------------------------
(* Each step keeps the invariant.                                          *)

LEMMA KeptGrounded ==
  ASSUME NEW sc \in Seq(Scope), NEW tc \in Seq(Scope),
         NEW m \in 0 .. Len(sc), m <= Len(tc), Alike(sc, tc, m),
         NEW fs \in Seq(FnInfo), NEW gs \in Seq(FnInfo),
         NEW k \in 0 .. Len(fs), k <= Len(gs),
         \A q \in 1 .. k : /\ gs[q].upvalues = fs[q].upvalues
                           /\ gs[q].scope = fs[q].scope /\ fs[q].scope \in 1 .. m,
         \A q \in DOMAIN gs : q > k => gs[q].upvalues = <<>>,
         Grounded(sc, fs), Different(fs)
  PROVE  Grounded(tc, gs) /\ Different(gs)
<1>1. /\ k \in Nat /\ 1 .. k \subseteq DOMAIN fs /\ 1 .. k \subseteq DOMAIN gs
      /\ \A q \in DOMAIN gs : q \in 1 .. k \/ q > k
  OBVIOUS
<1>2. \A q \in DOMAIN gs : DOMAIN gs[q].upvalues # {} => q \in 1 .. k
  BY <1>1
<1>3. Different(gs)
  BY <1>1, <1>2 DEF Different
<1>4. ASSUME NEW q \in DOMAIN gs, NEW i \in DOMAIN gs[q].upvalues
      PROVE  LET v == gs[q].upvalues[i] IN
             /\ q > 1
             /\ v.type = "UVAL_LOC" =>
                  \E r \in DOMAIN tc[gs[q - 1].scope].locals :
                    /\ tc[gs[q - 1].scope].locals[r].slot = v.index
                    /\ tc[gs[q - 1].scope].locals[r].captured
             /\ v.type = "UVAL_UVAL" => v.index \in DOMAIN gs[q - 1].upvalues
  <2>1. q \in 1 .. k
    BY <1>2
  <2>2. PICK v : v = fs[q].upvalues[i] /\ v = gs[q].upvalues[i] /\ i \in DOMAIN fs[q].upvalues
    BY <2>1
  <2>3. /\ q > 1
        /\ v.type = "UVAL_LOC" =>
             \E r \in DOMAIN sc[fs[q - 1].scope].locals :
               /\ sc[fs[q - 1].scope].locals[r].slot = v.index
               /\ sc[fs[q - 1].scope].locals[r].captured
        /\ v.type = "UVAL_UVAL" => v.index \in DOMAIN fs[q - 1].upvalues
    BY <1>1, <2>1, <2>2, ZenonT(60) DEF Grounded
  <2>4. q - 1 \in 1 .. k
    BY <1>1, <2>1, <2>3
  <2>5. PICK s : s = fs[q - 1].scope /\ s = gs[q - 1].scope /\ s \in 1 .. m
    BY <2>4
  <2>6. ASSUME v.type = "UVAL_LOC"
        PROVE  \E r \in DOMAIN tc[s].locals :
                  tc[s].locals[r].slot = v.index /\ tc[s].locals[r].captured
    <3>1. PICK r \in DOMAIN sc[s].locals : sc[s].locals[r].slot = v.index /\ sc[s].locals[r].captured
      BY <2>3, <2>5, <2>6
    <3>2. sc[s].locals \in Seq(Symbol) /\ tc[s].locals \in Seq(Symbol)
      BY <2>5, ScopeType, SMTT(30)
    <3>3. DOMAIN tc[s].locals = DOMAIN sc[s].locals
      <4>1. Len(tc[s].locals) = Len(sc[s].locals)
        BY <2>5 DEF Alike
      <4>2. PICK a, b : a = sc[s].locals /\ b = tc[s].locals
        OBVIOUS
      <4>3. a \in Seq(Symbol) /\ b \in Seq(Symbol) /\ Len(b) = Len(a)
        BY <3>2, <4>1, <4>2
      <4>4. DOMAIN b = 1 .. Len(b) /\ DOMAIN a = 1 .. Len(a)
        BY <4>3
      <4> QED
        BY <4>2, <4>3, <4>4
    <3>4. tc[s].locals[r].slot = v.index /\ tc[s].locals[r].captured
      BY <2>5, <3>1 DEF Alike
    <3> QED
      BY <3>1, <3>3, <3>4
  <2> QED
    BY <2>2, <2>3, <2>4, <2>5, <2>6
<1>5. Grounded(tc, gs)
  BY <1>4 DEF Grounded
<1> QED
  BY <1>3, <1>5

(* Scopes and functions after a step are sound.                            *)
Sound(sc, fs, sl) ==
  /\ sc \in Seq(Scope) /\ sc # <<>> /\ fs \in Seq(FnInfo)
  /\ Shape(sc, fs) /\ SlotsOf(sc, fs, sl) /\ Grounded(sc, fs) /\ Different(fs)

LEMMA NowSound == IInv /\ Running => Sound(scopes, fns, slot)
BY DEF IInv, TypeOK, Running, Sound

LEMMA SlotIsNat ==
  ASSUME NEW sc, NEW fs, NEW sl, Sound(sc, fs, sl)
  PROVE  sl \in Nat
<1>1. PICK ends : Ends(sc, fs, ends) /\ sl = ends[Len(sc)]
  BY DEF Sound, SlotsOf
<1>2. Len(sc) \in 0 .. Len(sc) /\ ends \in [0 .. Len(sc) -> Nat]
  BY <1>1 DEF Sound, Ends
<1> QED
  BY <1>1, <1>2

LEMMA StepInv ==
  ASSUME status' = "running", Sound(scopes', fns', slot'), use' = NoUse
  PROVE  IInv'
<1>1. TypeOK'
  <2>1. slot' \in Nat
    BY SlotIsNat
  <2>2. use' \in Use
    BY DEF NoUse, Use
  <2> QED
    BY <2>1, <2>2 DEF TypeOK, Sound
<1>2. ParametersCaptured' /\ use'.type # "SYM_UVAL"
  BY DEF ParametersCaptured, NoUse
<1> QED
  BY <1>1, <1>2 DEF IInv, Sound

(* The walk goes on in the same scopes.                                    *)
LEMMA SameUse ==
  ASSUME IInv, Running, status' \in {"running", "redeclared", "unknown", "upvalue"},
         Sound(scopes', fns', slot'), Len(scopes') = Len(scopes),
         Alike(scopes, scopes', Len(scopes)), fns' = fns, use' = use
  PROVE  IInv'
<1>1. TypeOK'
  <2>1. slot' \in Nat
    BY SlotIsNat
  <2> QED
    BY <2>1 DEF TypeOK, Sound, IInv
<1>2. DOMAIN scopes = 1 .. Len(scopes) /\ DOMAIN scopes' = 1 .. Len(scopes)
  BY DEF IInv, TypeOK, Sound
<1>3. use'.type = "SYM_UVAL" => use'.found[1] \in DOMAIN scopes'
  BY <1>2 DEF IInv
<1>4. ParametersCaptured'
  <2>1. Variable' = Variable
    BY VariableIs DEF IInv, TypeOK
  <2>2. use.type = "SYM_UVAL" => scopes'[use.found[1]].type = scopes[use.found[1]].type
    BY <1>2 DEF IInv, Alike
  <2>3. ParametersCaptured
    BY DEF IInv
  <2>4. SUFFICES ASSUME use'.type = "SYM_UVAL", (scopes[use.found[1]].type)' = "FUNCTION_TYPE"
                 PROVE  Variable'[Len(fns')][use'.slot] = use'.found
    BY DEF ParametersCaptured
  <2>5. use.type = "SYM_UVAL" /\ scopes[use.found[1]].type = "FUNCTION_TYPE"
    BY <2>2, <2>4
  <2>6. Variable[Len(fns)][use.slot] = use.found
    BY <2>3, <2>5 DEF ParametersCaptured
  <2> QED
    BY <2>1, <2>6
<1> QED
  BY <1>1, <1>3, <1>4 DEF IInv, Sound

LEMMA RejectInv ==
  ASSUME IInv, NEW reason \in {"redeclared", "unknown", "upvalue"}, Reject(reason)
  PROVE  IInv'
<1>1. UNCHANGED <<scopes, fns, slot, use>> /\ status' = reason
  BY DEF Reject
<1>2. TypeOK'
  BY <1>1 DEF TypeOK, IInv
<1>3. ParametersCaptured'
  <2>1. Variable' = Variable
    BY <1>1, VariableIs DEF IInv, TypeOK
  <2> QED
    BY <1>1, <2>1 DEF ParametersCaptured, IInv
<1> QED
  BY <1>1, <1>2, <1>3 DEF IInv

LEMMA ScriptInv ==
  ASSUME IInv, NEW room, NEW decls \in Lists(Declaration, room), Script(decls)
  PROVE  IInv'
<1> DEFINE names == SetToSeq(Natives) \o NamesOf(decls)
           locals == [i \in DOMAIN names |-> [name |-> names[i], slot |-> -1, captured |-> FALSE]]
<1>1. decls \in Seq(Declaration)
  BY ListsAreSeqs
<1>2. CASE Repeats(decls, Natives)
  BY <1>2, RejectInv DEF Script
<1>3. CASE ~Repeats(decls, Natives)
  <2>1. names \in Seq(Names)
    BY <1>1, NamesType, NativesList, ConcatProperties
  <2> HIDE DEF names
  <2>2. locals \in Seq(Symbol)
    <3>1. DOMAIN names = 1 .. Len(names) /\ Len(names) \in Nat
      BY <2>1
    <3>2. locals \in [1 .. Len(names) -> Symbol]
      BY <2>1, <3>1 DEF Symbol
    <3> QED
      BY <3>1, <3>2
  <2> HIDE DEF locals
  <2>3. scopes = <<>> /\ fns = <<>> /\ slot = 0 /\ use = NoUse
    <3>1. scopes = <<>> /\ use = NoUse /\ fns = <<>>
      BY DEF IInv, Script, Shape
    <3>2. PICK ends : Ends(scopes, fns, ends) /\ slot = ends[Len(scopes)]
      BY DEF IInv, SlotsOf
    <3>3. Len(scopes) = 0
      BY <3>1
    <3> QED
      BY <3>1, <3>2, <3>3 DEF Ends
  <2>4. PICK root : root = NewScope("SCRIPT_TYPE", locals, decls)
    OBVIOUS
  <2>5. /\ scopes' = <<root>> /\ status' = "running"
        /\ fns' = <<>> /\ slot' = 0 /\ use' = NoUse
    BY <1>3, <2>3, <2>4 DEF Script, locals, names
  <2>6. root \in Scope /\ root.type # "FUNCTION_TYPE"
    BY <1>1, <2>2, <2>4, NewScopeType
  <2>7. Sound(<<root>>, <<>>, 0)
    <3>1. <<root>> \in Seq(Scope) /\ <<>> \in Seq(FnInfo) /\ <<root>> # <<>> /\ Len(<<root>>) = 1
          /\ DOMAIN <<root>> = {1} /\ <<root>>[1] = root
      BY <2>6
    <3>2. Shape(<<root>>, <<>>)
      BY <2>6, <3>1 DEF Shape
    <3>3. Ends(<<root>>, <<>>, [s \in 0 .. 1 |-> 0])
      BY <3>1 DEF Ends
    <3>4. SlotsOf(<<root>>, <<>>, 0)
      BY <3>1, <3>3 DEF SlotsOf
    <3>5. Grounded(<<root>>, <<>>) /\ Different(<<>>)
      BY DEF Grounded, Different
    <3> QED
      BY <3>1, <3>2, <3>4, <3>5 DEF Sound
  <2> QED
    BY <2>5, <2>7, StepInv
<1> QED
  BY <1>2, <1>3

(* A step that appends a block.                                            *)
LEMMA AppendedScope ==
  ASSUME NEW sc \in Seq(Scope), NEW new \in Scope
  PROVE  /\ Append(sc, new) \in Seq(Scope) /\ Append(sc, new) # <<>>
         /\ Len(Append(sc, new)) = Len(sc) + 1
         /\ Alike(sc, Append(sc, new), Len(sc)) /\ Append(sc, new)[Len(sc) + 1] = new
<1>1. PICK tc : tc = Append(sc, new)
  OBVIOUS
<1>2. /\ tc \in Seq(Scope) /\ Len(tc) = Len(sc) + 1 /\ tc[Len(sc) + 1] = new
      /\ \A s \in 1 .. Len(sc) : tc[s] = sc[s]
  BY <1>1, AppendProperties
<1>3. Alike(sc, tc, Len(sc))
  BY <1>2 DEF Alike
<1>4. tc # <<>>
  BY <1>2
<1> QED
  BY <1>1, <1>2, <1>3, <1>4

LEMMA FunctionScopes ==
  ASSUME NEW sc \in Seq(Scope), NEW fs \in Seq(FnInfo), Shape(sc, fs), NEW q \in 1 .. Len(fs)
  PROVE  fs[q].scope \in 2 .. Len(sc) - 1
<1>1. q \in DOMAIN fs /\ fs[q].scope \in Nat /\ Len(sc) \in Nat
  BY FnInfoType
<1>2. 1 < fs[q].scope /\ fs[q].scope < Len(sc)
  BY <1>1 DEF Shape
<1> QED
  BY <1>1, <1>2

LEMMA BlockInv ==
  ASSUME IInv, NEW room, NEW decls \in Lists(Declaration, room), Block(decls)
  PROVE  IInv'
<1>1. decls \in Seq(Declaration)
  BY ListsAreSeqs
<1>2. CASE Repeats(decls, {})
  BY <1>2, RejectInv DEF Block
<1>3. CASE ~Repeats(decls, {})
  <2>1. PICK locals : locals = Symbols(NamesOf(decls), slot)
    OBVIOUS
  <2>2. slot \in Nat /\ Sound(scopes, fns, slot) /\ status = "running"
    BY NowSound DEF IInv, TypeOK, Block, Running
  <2>3. /\ locals \in Seq(Symbol) /\ Len(locals) = Len(decls)
        /\ \A i \in 1 .. Len(decls) : locals[i].slot = slot + i - 1
    BY <1>1, <2>1, <2>2, NamesType, SymbolsType
  <2>4. PICK new : new = NewScope("BLOCK_TYPE", locals, decls)
    OBVIOUS
  <2>5. new \in Scope /\ new.type # "FUNCTION_TYPE" /\ new.locals = locals
    BY <1>1, <2>3, <2>4, NewScopeType
  <2>6. PICK tc : tc = Append(scopes, new)
    OBVIOUS
  <2>7. /\ scopes' = tc /\ slot' = slot + Len(decls)
        /\ use' = NoUse /\ fns' = fns /\ status' = "running"
    BY <1>3, <2>1, <2>2, <2>4, <2>6 DEF Block
  <2>8. /\ tc \in Seq(Scope) /\ tc # <<>> /\ Len(tc) = Len(scopes) + 1
        /\ Alike(scopes, tc, Len(scopes)) /\ tc[Len(scopes) + 1] = new
    BY <2>2, <2>5, <2>6, AppendedScope DEF Sound
  <2>9. Shape(tc, fns)
    BY <2>2, <2>5, <2>8, OpenedShape DEF Sound
  <2>10. SlotsOf(tc, fns, slot + Len(decls))
    <3>1. \A i \in DOMAIN new.locals : new.locals[i].slot = slot + i - 1
      BY <2>3, <2>5
    <3>2. /\ scopes \in Seq(Scope) /\ scopes # <<>> /\ fns \in Seq(FnInfo)
          /\ Shape(scopes, fns) /\ SlotsOf(scopes, fns, slot)
      BY <2>2 DEF Sound
    <3>3. SlotsOf(tc, fns, slot + Len(tc[Len(scopes) + 1].locals))
      BY <2>2, <2>5, <2>8, <3>1, <3>2, OpenedSlots
    <3> QED
      BY <2>3, <2>5, <2>8, <3>3
  <2>11. Grounded(tc, fns) /\ Different(fns)
    <3>1. /\ scopes \in Seq(Scope) /\ fns \in Seq(FnInfo) /\ Grounded(scopes, fns) /\ Different(fns)
          /\ Shape(scopes, fns)
      BY <2>2 DEF Sound
    <3>2. \A q \in 1 .. Len(fns) : fns[q].scope \in 1 .. Len(scopes)
      BY <3>1, FunctionScopes
    <3>3. Len(scopes) \in 0 .. Len(scopes) /\ Len(scopes) <= Len(tc)
          /\ Len(fns) \in 0 .. Len(fns) /\ Len(fns) <= Len(fns)
          /\ \A q \in DOMAIN fns : ~(q > Len(fns))
      BY <2>8, <3>1
    <3> QED
      BY <2>8, <3>1, <3>2, <3>3, KeptGrounded
  <2>12. Sound(tc, fns, slot + Len(decls))
    BY <2>2, <2>8, <2>9, <2>10, <2>11 DEF Sound
  <2> QED
    BY <2>7, <2>12, StepInv
<1> QED
  BY <1>2, <1>3

(* A declaration is walked.                                                *)
LEMMA WalkedScopes ==
  ASSUME scopes \in Seq(Scope), scopes # <<>>, Current.todo # <<>>
  PROVE  /\ Walked(Len(scopes)) \in Seq(Scope) /\ Len(Walked(Len(scopes))) = Len(scopes)
         /\ Alike(scopes, Walked(Len(scopes)), Len(scopes))
<1>1. PICK n : n = Len(scopes) /\ n \in Nat \ {0}
  OBVIOUS
<1>2. PICK tc : tc = Walked(n)
  OBVIOUS
<1>3. tc = [scopes EXCEPT ![n].todo = Tail(@)]
  BY <1>2 DEF Walked
<1>4. n \in 1 .. Len(scopes) /\ scopes[n] \in Scope /\ scopes[n].todo # <<>>
  BY <1>1 DEF Current
<1>5. scopes[n].todo \in Seq(Declaration) /\ Tail(scopes[n].todo) \in Seq(Declaration)
  BY <1>4 DEF Scope
<1>6. PICK new : new = [scopes[n] EXCEPT !.todo = Tail(@)]
  OBVIOUS
<1>7. new \in Scope /\ new.type = scopes[n].type /\ new.locals = scopes[n].locals
  BY <1>4, <1>5, <1>6 DEF Scope
<1>8. tc = [scopes EXCEPT ![n] = new]
  BY <1>3, <1>6
<1>9. tc \in Seq(Scope) /\ Len(tc) = Len(scopes)
  BY <1>4, <1>7, <1>8
<1>10. \A s \in 1 .. n : tc[s].type = scopes[s].type /\ tc[s].locals = scopes[s].locals
  BY <1>1, <1>4, <1>7, <1>8
<1>11. Alike(scopes, tc, n)
  BY <1>10 DEF Alike
<1> QED
  BY <1>1, <1>2, <1>9, <1>11

LEMMA VarDeclInv ==
  ASSUME IInv, VarDecl
  PROVE  IInv'
<1>1. PICK tc : tc = Walked(Len(scopes))
  OBVIOUS
<1>2. Sound(scopes, fns, slot) /\ Running /\ Current.todo # <<>>
  BY NowSound DEF VarDecl
<1>3. scopes' = tc /\ fns' = fns /\ slot' = slot /\ use' = use /\ status' = status
  BY <1>1 DEF VarDecl
<1>4. tc \in Seq(Scope) /\ Len(tc) = Len(scopes) /\ Alike(scopes, tc, Len(scopes))
  BY <1>1, <1>2, WalkedScopes DEF Sound
<1>5. /\ scopes \in Seq(Scope) /\ scopes # <<>> /\ fns \in Seq(FnInfo) /\ Shape(scopes, fns)
      /\ SlotsOf(scopes, fns, slot) /\ Grounded(scopes, fns) /\ Different(fns)
      /\ SameFrames(fns, fns, Len(fns))
  BY <1>2 DEF Sound, SameFrames
<1>6. Shape(tc, fns) /\ SlotsOf(tc, fns, slot)
  BY <1>4, <1>5, KeptShape, KeptSlots
<1>7. Grounded(tc, fns) /\ Different(fns)
  <2>1. \A q \in 1 .. Len(fns) : fns[q].scope \in 1 .. Len(scopes)
    BY <1>5, FunctionScopes
  <2>2. Len(scopes) \in 0 .. Len(scopes) /\ Len(scopes) <= Len(tc)
        /\ Len(fns) \in 0 .. Len(fns) /\ Len(fns) <= Len(fns)
        /\ \A q \in DOMAIN fns : ~(q > Len(fns))
    BY <1>4, <1>5
  <2> QED
    BY <1>4, <1>5, <2>1, <2>2, KeptGrounded
<1>8. Sound(tc, fns, slot)
  <2>1. tc # <<>>
    BY <1>4, <1>5
  <2> QED
    BY <1>4, <1>5, <1>6, <1>7, <2>1 DEF Sound
<1> QED
  BY <1>2, <1>3, <1>4, <1>8, SameUse DEF Running

LEMMA FnDeclInv ==
  ASSUME IInv, NEW room, NEW params \in Lists(Names, room),
         NEW left, NEW decls \in Lists(Declaration, left), FnDecl(params, decls)
  PROVE  IInv'
<1>1. params \in Seq(Names) /\ decls \in Seq(Declaration)
  BY ListsAreSeqs
<1>2. CASE Repeats(decls, {})
  BY <1>2, RejectInv DEF FnDecl
<1>3. CASE ~Repeats(decls, {})
  <2>1. /\ slot \in Nat /\ Sound(scopes, fns, slot) /\ status = "running" /\ Current.todo # <<>>
    BY NowSound DEF IInv, TypeOK, FnDecl, Running
  <2>2. PICK wc, n, k : wc = Walked(Len(scopes)) /\ n = Len(scopes) /\ k = Len(fns)
    OBVIOUS
  <2>3. wc \in Seq(Scope) /\ Len(wc) = n /\ Alike(scopes, wc, n) /\ n \in Nat \ {0} /\ k \in Nat
    BY <2>1, <2>2, WalkedScopes DEF Sound
  <2>4. PICK p, d : p = Len(params) /\ d = Len(decls)
    OBVIOUS
  <2>5. p \in Nat /\ d \in Nat
    BY <1>1, <2>4
  <2>6. PICK locals, more : locals = Symbols(params, 0) /\ more = Symbols(NamesOf(decls), p)
    OBVIOUS
  <2>7. /\ locals \in Seq(Symbol) /\ Len(locals) = p
        /\ \A i \in 1 .. p : locals[i].slot = 0 + i - 1
    BY <1>1, <2>4, <2>6, SymbolsType
  <2>8. /\ more \in Seq(Symbol) /\ Len(more) = d
        /\ \A i \in 1 .. d : more[i].slot = p + i - 1
    <3>1. NamesOf(decls) \in Seq(Names) /\ Len(NamesOf(decls)) = d
      BY <1>1, <2>4, NamesType
    <3> QED
      BY <2>5, <2>6, <3>1, SymbolsType
  <2>9. PICK f, b : /\ f = NewScope("FUNCTION_TYPE", locals, <<>>)
                    /\ b = NewScope("BLOCK_TYPE", more, decls)
    OBVIOUS
  <2>10. /\ f \in Scope /\ f.type = "FUNCTION_TYPE" /\ f.locals = locals
         /\ b \in Scope /\ b.type = "BLOCK_TYPE" /\ b.locals = more
    <3>1. <<>> \in Seq(Declaration)
      OBVIOUS
    <3>2. f \in Scope /\ f.type = "FUNCTION_TYPE" /\ f.locals = locals
      BY <2>7, <2>9, <3>1, NewScopeType, ZenonT(60)
    <3>3. b \in Scope /\ b.type = "BLOCK_TYPE" /\ b.locals = more
      BY <1>1, <2>8, <2>9, NewScopeType
    <3> QED
      BY <3>2, <3>3
  <2>11. PICK tc : tc = wc \o <<f, b>>
    OBVIOUS
  <2>12. PICK fi : fi = [scope |-> n + 1, upvalues |-> <<>>, saved |-> slot]
    OBVIOUS
  <2>13. fi \in FnInfo /\ fi.scope = n + 1 /\ fi.upvalues = <<>> /\ fi.saved = slot
    BY <2>1, <2>3, <2>12 DEF FnInfo
  <2>14. PICK gs : gs = Append(fns, fi)
    OBVIOUS
  <2>15. /\ scopes' = tc /\ fns' = gs /\ slot' = p + d /\ use' = NoUse /\ status' = "running"
    BY <1>3, <2>1, <2>2, <2>4, <2>6, <2>9, <2>11, <2>12, <2>14 DEF FnDecl
  <2>16. /\ tc \in Seq(Scope) /\ Len(tc) = n + 2 /\ tc[n + 1] = f /\ tc[n + 2] = b
         /\ \A s \in 1 .. n : tc[s] = wc[s]
    <3>1. PICK two : two = <<f, b>>
      OBVIOUS
    <3>2. two \in Seq(Scope) /\ Len(two) = 2 /\ two[1] = f /\ two[2] = b
      BY <2>10, <3>1
    <3>3. /\ tc \in Seq(Scope) /\ Len(tc) = n + 2
          /\ \A i \in 1 .. n + 2 : tc[i] = IF i <= n THEN wc[i] ELSE two[i - n]
      BY <2>3, <2>11, <3>1, <3>2, ConcatProperties
    <3>4. \A s \in 1 .. n : s \in 1 .. n + 2 /\ s <= n
      BY <2>3
    <3>5. \A i \in 1 .. n + 2 : ~(i <= n) => tc[i] = two[i - n]
      BY <3>3
    <3>6. tc[n + 1] = f
      <4>1. PICK i : i = n + 1
        OBVIOUS
      <4>2. i \in 1 .. n + 2 /\ ~(i <= n) /\ i - n = 1
        BY <2>3, <4>1
      <4> QED
        BY <3>2, <3>5, <4>1, <4>2
    <3>7. tc[n + 2] = b
      <4>1. PICK i : i = n + 2
        OBVIOUS
      <4>2. i \in 1 .. n + 2 /\ ~(i <= n) /\ i - n = 2
        BY <2>3, <4>1
      <4> QED
        BY <3>2, <3>5, <4>1, <4>2
    <3> QED
      BY <3>3, <3>4, <3>6, <3>7
  <2>17. /\ gs \in Seq(FnInfo) /\ Len(gs) = k + 1 /\ gs[k + 1] = fi
         /\ \A q \in 1 .. k : gs[q] = fns[q]
    BY <2>1, <2>2, <2>13, <2>14, AppendProperties DEF Sound
  <2>18. Alike(scopes, tc, n) /\ tc # <<>>
    BY <2>3, <2>16 DEF Alike
  <2>19. Entered(scopes, fns, slot, tc, gs)
    BY <2>2, <2>10, <2>13, <2>16, <2>17, <2>18 DEF Entered, SameFrames
  <2>20. /\ scopes \in Seq(Scope) /\ scopes # <<>> /\ fns \in Seq(FnInfo) /\ Shape(scopes, fns)
         /\ SlotsOf(scopes, fns, slot) /\ Grounded(scopes, fns) /\ Different(fns)
    BY <2>1 DEF Sound
  <2>21. Shape(tc, gs)
    BY <2>16, <2>17, <2>19, <2>20, EnteredShape
  <2>22. SlotsOf(tc, gs, p + d)
    <3>1. /\ Len(tc[Len(scopes) + 1].locals) = p
          /\ \A i \in DOMAIN tc[Len(scopes) + 1].locals :
                tc[Len(scopes) + 1].locals[i].slot = 0 + i - 1
      <4>1. tc[Len(scopes) + 1].locals = locals /\ DOMAIN locals = 1 .. p
        BY <2>2, <2>7, <2>10, <2>16
      <4> QED
        BY <2>7, <4>1
    <3>2. /\ Len(tc[Len(scopes) + 2].locals) = d
          /\ \A i \in DOMAIN tc[Len(scopes) + 2].locals :
                tc[Len(scopes) + 2].locals[i].slot = p + i - 1
      <4>1. tc[Len(scopes) + 2].locals = more /\ DOMAIN more = 1 .. d
        BY <2>2, <2>8, <2>10, <2>16
      <4> QED
        BY <2>8, <4>1
    <3> QED
      BY <2>1, <2>5, <2>16, <2>17, <2>19, <2>20, <3>1, <3>2, EnteredSlots
  <2>23. Grounded(tc, gs) /\ Different(gs)
    <3>1. \A q \in 1 .. k : /\ gs[q].upvalues = fns[q].upvalues
                            /\ gs[q].scope = fns[q].scope /\ fns[q].scope \in 1 .. n
      <4>1. \A q \in 1 .. Len(fns) : fns[q].scope \in 1 .. Len(scopes)
        BY <2>20, FunctionScopes
      <4> QED
        BY <2>2, <2>17, <4>1
    <3>2. /\ n \in 0 .. Len(scopes) /\ n <= Len(tc) /\ k \in 0 .. Len(fns) /\ k <= Len(gs)
          /\ \A q \in DOMAIN gs : q > k => q = k + 1
      BY <2>2, <2>3, <2>16, <2>17
    <3>3. \A q \in DOMAIN gs : q > k => gs[q].upvalues = <<>>
      BY <2>13, <2>17, <3>2
    <3> QED
      BY <2>16, <2>17, <2>18, <2>20, <3>1, <3>2, <3>3, KeptGrounded
  <2>24. Sound(tc, gs, p + d)
    BY <2>16, <2>17, <2>18, <2>21, <2>22, <2>23 DEF Sound
  <2> QED
    BY <2>15, <2>24, StepInv
<1> QED
  BY <1>2, <1>3

(* Scopes end.                                                             *)
LEMMA ShortenedScopes ==
  ASSUME NEW sc \in Seq(Scope), NEW m \in 1 .. Len(sc)
  PROVE  /\ SubSeq(sc, 1, m) \in Seq(Scope) /\ SubSeq(sc, 1, m) # <<>>
         /\ Len(SubSeq(sc, 1, m)) = m /\ Alike(sc, SubSeq(sc, 1, m), m)
<1>1. PICK tc : tc = SubSeq(sc, 1, m)
  OBVIOUS
<1>2. tc \in Seq(Scope) /\ Len(tc) = m /\ \A s \in 1 .. m : tc[s] = sc[s]
  BY <1>1, Shorter
<1>3. Alike(sc, tc, m)
  BY <1>2 DEF Alike
<1>4. tc # <<>>
  BY <1>2
<1> QED
  BY <1>1, <1>2, <1>3, <1>4

LEMMA EndedSound ==
  ASSUME NEW sc, NEW fs, NEW sl, Sound(sc, fs, sl),
         NEW tc \in Seq(Scope), tc # <<>>, NEW gs \in Seq(FnInfo), NEW m,
         Ended(sc, fs, m, tc, gs), NEW ends, Ends(sc, fs, ends),
         \A q \in DOMAIN gs : gs[q].upvalues = fs[q].upvalues
  PROVE  Sound(tc, gs, ends[m])
<1>1. /\ sc \in Seq(Scope) /\ fs \in Seq(FnInfo) /\ Shape(sc, fs)
      /\ Grounded(sc, fs) /\ Different(fs)
  BY DEF Sound
<1>2. Shape(tc, gs) /\ SlotsOf(tc, gs, ends[m])
  BY <1>1, EndedShape, EndedSlots
<1>3. Grounded(tc, gs) /\ Different(gs)
  <2>1. m \in 1 .. Len(sc) /\ Len(tc) = m /\ Alike(sc, tc, m) /\ Len(gs) <= Len(fs)
        /\ DOMAIN gs = 1 .. Len(gs) /\ Len(gs) \in Nat /\ Len(fs) \in Nat /\ Len(sc) \in Nat
    BY <1>1 DEF Ended
  <2>2. m \in 0 .. Len(sc) /\ m <= Len(tc) /\ Len(gs) \in 0 .. Len(fs) /\ Len(gs) <= Len(gs)
        /\ \A q \in DOMAIN gs : ~(q > Len(gs))
    BY <2>1
  <2>3. ASSUME NEW q \in 1 .. Len(gs)
        PROVE  /\ gs[q].upvalues = fs[q].upvalues
               /\ gs[q].scope = fs[q].scope /\ fs[q].scope \in 1 .. m
    <3>1. q \in DOMAIN gs /\ q \in 1 .. Len(fs)
      BY <2>1
    <3>2. gs[q].scope = fs[q].scope /\ gs[q].scope < m /\ fs[q].scope \in 2 .. Len(sc) - 1
      BY <1>1, <3>1, FunctionScopes DEF Ended, SameFrames
    <3> QED
      BY <2>1, <3>1, <3>2
  <2>4. PICK k : k = Len(gs)
    OBVIOUS
  <2>5. /\ k \in 0 .. Len(fs) /\ k <= Len(gs)
        /\ \A q \in 1 .. k : /\ gs[q].upvalues = fs[q].upvalues
                             /\ gs[q].scope = fs[q].scope /\ fs[q].scope \in 1 .. m
        /\ \A q \in DOMAIN gs : q > k => gs[q].upvalues = <<>>
    BY <2>2, <2>3, <2>4
  <2>6. tc \in Seq(Scope) /\ gs \in Seq(FnInfo) /\ m \in 0 .. Len(sc) /\ m <= Len(tc)
        /\ Alike(sc, tc, m)
    BY <2>1, <2>2
  <2> QED
    BY ONLY <1>1, <2>5, <2>6, KeptGrounded
<1> QED
  BY <1>2, <1>3 DEF Sound

LEMMA EndBlockInv ==
  ASSUME IInv, EndBlock
  PROVE  IInv'
<1>1. Sound(scopes, fns, slot) /\ status = "running" /\ Len(scopes) > 1
  BY NowSound DEF EndBlock, Running
<1>2. /\ scopes \in Seq(Scope) /\ scopes # <<>> /\ fns \in Seq(FnInfo) /\ Shape(scopes, fns)
      /\ SlotsOf(scopes, fns, slot)
  BY <1>1 DEF Sound
<1>3. PICK n, k : n = Len(scopes) /\ k = Len(fns) /\ n \in Nat /\ k \in Nat /\ 1 < n
  BY <1>1, <1>2
<1>4. PICK m : m = n - 1
  OBVIOUS
<1>5. m \in 1 .. Len(scopes) /\ m < n
  BY <1>3, <1>4
<1>6. PICK tc : tc = SubSeq(scopes, 1, m)
  OBVIOUS
<1>7. tc \in Seq(Scope) /\ tc # <<>> /\ Len(tc) = m /\ Alike(scopes, tc, m)
  BY <1>2, <1>5, <1>6, ShortenedScopes
<1>8. ASSUME NEW q \in 1 .. k
      PROVE  fns[q].scope \in 2 .. n - 1 /\ fns[q].scope < m
  <2>1. fns[q].scope \in 2 .. n - 1 /\ fns[k].scope \in 2 .. n - 1
    BY <1>2, <1>3, FunctionScopes
  <2>2. q < k => fns[q].scope + 1 < fns[k].scope
    BY <1>2, <1>3 DEF Shape
  <2>3. fns[k].scope # n - 1
    <3>1. fns # <<>> /\ ~IsBody
      BY <1>3 DEF EndBlock
    <3> QED
      BY <1>3, <3>1 DEF IsBody
  <2> QED
    BY <1>3, <1>4, <2>1, <2>2, <2>3
<1>9. Ended(scopes, fns, m, tc, fns)
  <2>1. \A q \in DOMAIN fns : q <= Len(fns) /\ fns[q].scope <= m /\ fns[q].scope < m
    BY <1>2, <1>3, <1>4, <1>8
  <2> QED
    BY <1>2, <1>5, <1>7, <2>1 DEF Ended, SameFrames
<1>10. PICK ends : Ends(scopes, fns, ends) /\ slot = ends[n]
  BY <1>2, <1>3 DEF SlotsOf
<1>11. SlotAfter = ends[m]
  <2>1. Filled(scopes, ends, n)
    BY <1>3, <1>10 DEF Ends
  <2>2. scopes[n].type # "FUNCTION_TYPE"
    <3>1. \A q \in DOMAIN fns : fns[q].scope # n
      BY <1>2, <1>3, <1>8
    <3>2. n \in DOMAIN scopes
      BY <1>2, <1>3
    <3> QED
      BY <1>2, <3>1, <3>2 DEF Shape
  <2>3. ends[n] = ends[m] + Len(scopes[n].locals)
    BY <1>4, <2>1, <2>2 DEF Filled, First
  <2>4. ends[m] \in Nat /\ Len(scopes[n].locals) \in Nat
    <3>1. m \in 0 .. Len(scopes) /\ n \in 1 .. Len(scopes)
      BY <1>3, <1>5
    <3> QED
      BY <1>2, <1>10, <3>1, ScopeType, SMTT(30) DEF Ends
  <2> QED
    BY <1>3, <1>10, <2>3, <2>4 DEF SlotAfter, Current
<1>12. Sound(tc, fns, ends[m])
  BY <1>1, <1>2, <1>7, <1>9, <1>10, EndedSound
<1>13. scopes' = tc /\ fns' = fns /\ slot' = ends[m] /\ use' = NoUse /\ status' = "running"
  BY <1>1, <1>3, <1>4, <1>6, <1>11 DEF EndBlock
<1> QED
  BY <1>12, <1>13, StepInv

LEMMA EndFunctionInv ==
  ASSUME IInv, EndFunction
  PROVE  IInv'
<1>1. Sound(scopes, fns, slot) /\ status = "running"
  BY NowSound DEF EndFunction, Running
<1>2. /\ scopes \in Seq(Scope) /\ scopes # <<>> /\ fns \in Seq(FnInfo) /\ Shape(scopes, fns)
      /\ SlotsOf(scopes, fns, slot)
  BY <1>1 DEF Sound
<1>3. PICK n, k : n = Len(scopes) /\ k = Len(fns) /\ n \in Nat /\ k \in Nat
  BY <1>2
<1>4. k # 0 /\ fns[k].scope = n - 1
  BY <1>2, <1>3 DEF EndFunction, IsBody
<1>5. k \in 1 .. Len(fns) /\ fns[k].scope \in 2 .. n - 1
  <2>1. k \in 1 .. Len(fns)
    BY <1>3, <1>4
  <2> QED
    BY <1>2, <1>3, <2>1, FunctionScopes
<1>6. PICK m, j : m = n - 2 /\ j = k - 1
  OBVIOUS
<1>7. m \in 1 .. Len(scopes) /\ m < n /\ j \in 0 .. Len(fns) /\ j < k
  BY <1>3, <1>4, <1>5, <1>6
<1>8. PICK tc, gs : tc = SubSeq(scopes, 1, m) /\ gs = SubSeq(fns, 1, j)
  OBVIOUS
<1>9. tc \in Seq(Scope) /\ tc # <<>> /\ Len(tc) = m /\ Alike(scopes, tc, m)
  BY <1>2, <1>7, <1>8, ShortenedScopes
<1>10. gs \in Seq(FnInfo) /\ Len(gs) = j /\ \A q \in 1 .. j : gs[q] = fns[q]
  BY <1>2, <1>7, <1>8, Shorter
<1>11. Ended(scopes, fns, m, tc, gs)
  <2>1. DOMAIN fns = 1 .. k /\ DOMAIN gs = 1 .. j
    BY <1>2, <1>3, <1>10
  <2>2. ASSUME NEW q \in 1 .. j
        PROVE  gs[q].scope = fns[q].scope /\ fns[q].scope < m
    <3>1. q \in 1 .. k /\ q < k
      BY <1>3, <1>6
    <3>2. fns[q].scope \in 2 .. n - 1 /\ fns[q].scope + 1 < fns[k].scope
      BY <1>2, <1>3, <1>5, <2>1, <3>1, FunctionScopes DEF Shape
    <3> QED
      BY <1>3, <1>4, <1>6, <1>10, <3>2
  <2>3. \A q \in DOMAIN fns : q <= Len(gs) <=> fns[q].scope <= m
    <3>1. ~(fns[k].scope <= m) /\ ~(k <= j)
      BY <1>3, <1>4, <1>6
    <3>2. \A q \in 1 .. k : (q \in 1 .. j /\ q <= j) \/ q = k
      BY <1>3, <1>6
    <3>3. \A q \in 1 .. j : fns[q].scope <= m
      <4>1. \A q \in 1 .. j : fns[q].scope \in Nat
        BY <1>3, <1>6, <2>1, <1>2, FnInfoType
      <4> QED
        BY <1>7, <2>2, <4>1
    <3> QED
      BY <1>10, <2>1, <3>1, <3>2, <3>3
  <2>4. Len(gs) <= Len(fns) /\ SameFrames(fns, gs, Len(gs))
    BY <1>3, <1>7, <1>10 DEF SameFrames
  <2> QED
    BY <1>7, <1>9, <2>1, <2>2, <2>3, <2>4 DEF Ended
<1>12. PICK ends : Ends(scopes, fns, ends)
  BY <1>2 DEF SlotsOf
<1>13. fns[k].saved = ends[m]
  <2>1. fns[k].saved = ends[fns[k].scope - 1]
    BY <1>2, <1>5, <1>12 DEF Ends
  <2> QED
    BY <1>3, <1>4, <1>6, <2>1
<1>14. Sound(tc, gs, ends[m])
  <2>1. \A q \in DOMAIN gs : gs[q].upvalues = fns[q].upvalues
    BY <1>10
  <2> QED
    BY <1>1, <1>9, <1>10, <1>11, <1>12, <2>1, EndedSound
<1>15. scopes' = tc /\ fns' = gs /\ slot' = ends[m] /\ use' = NoUse /\ status' = "running"
  BY <1>1, <1>3, <1>6, <1>8, <1>13 DEF EndFunction
<1> QED
  BY <1>14, <1>15, StepInv

(* A name is used.                                                         *)
LEMMA PlaceIs ==
  ASSUME scopes \in Seq(Scope), NEW s \in 1 .. Len(scopes), NEW name, Places(s, name) # {}
  PROVE  /\ Place(s, name) \in DOMAIN scopes[s].locals /\ Place(s, name) \in Nat \ {0}
         /\ scopes[s].locals[Place(s, name)] \in Symbol
         /\ \A i \in Places(s, name) : i <= Place(s, name)
<1>1. PICK n : n = Len(scopes[s].locals) /\ n \in Nat /\ DOMAIN scopes[s].locals = 1 .. n
               /\ scopes[s].locals \in Seq(Symbol)
  <2>1. PICK locals : locals = scopes[s].locals
    OBVIOUS
  <2>2. locals \in Seq(Symbol)
    BY <2>1, ScopeType
  <2>3. Len(locals) \in Nat /\ DOMAIN locals = 1 .. Len(locals)
    BY <2>2
  <2> QED
    BY <2>1, <2>2, <2>3
<1>2. Places(s, name) \subseteq 1 .. n /\ Places(s, name) \subseteq 0 .. n
  BY <1>1 DEF Places
<1>3. Place(s, name) \in Places(s, name) /\ \A i \in Places(s, name) : i <= Place(s, name)
  BY <1>1, <1>2, MaxOf DEF Place
<1> QED
  BY <1>1, <1>2, <1>3

(* A parameter has the slot of its place.                                  *)
LEMMA ParameterSlot ==
  ASSUME NEW sc \in Seq(Scope), NEW fs \in Seq(FnInfo), NEW sl, Shape(sc, fs), SlotsOf(sc, fs, sl),
         NEW q \in 1 .. Len(fs), NEW i \in DOMAIN sc[fs[q].scope].locals
  PROVE  sc[fs[q].scope].locals[i].slot = i - 1
<1>1. PICK s : s = fs[q].scope
  OBVIOUS
<1>2. s \in 2 .. Len(sc) /\ s \in DOMAIN sc
  <2>1. s \in 2 .. Len(sc) - 1 /\ Len(sc) \in Nat
    BY <1>1, FunctionScopes
  <2> QED
    BY <2>1
<1>3. sc[s].type = "FUNCTION_TYPE"
  <2>1. q \in DOMAIN fs
    OBVIOUS
  <2> QED
    BY <1>1, <1>2, <2>1 DEF Shape
<1>4. PICK ends : Ends(sc, fs, ends)
  BY DEF SlotsOf
<1>5. Filled(sc, ends, s) /\ First(sc, ends, s) = 0
  BY <1>2, <1>3, <1>4 DEF Ends, First
<1>6. i \in Int
  <2>1. s \in 1 .. Len(sc)
    BY <1>2
  <2>2. sc[s].locals \in Seq(Symbol)
    BY <2>1, ScopeType
  <2> QED
    BY <1>1, <2>2
<1> QED
  BY <1>1, <1>5, <1>6 DEF Filled

LEMMA UseNearInv ==
  ASSUME IInv, Running, NEW name, NEW s \in DOMAIN scopes, Places(s, name) # {}, UseNear(name, s)
  PROVE  IInv'
<1>1. Sound(scopes, fns, slot) /\ slot \in Nat /\ status = "running"
  BY NowSound DEF IInv, TypeOK, Running
<1>2. PICK u : u = use'
  OBVIOUS
<1>3. u \in Use /\ u.type # "SYM_UVAL"
  <2>1. s \in 1 .. Len(scopes) /\ s \in Nat
    BY <1>1 DEF Sound
  <2>2. Place(s, name) \in Nat /\ scopes[s].locals[Place(s, name)].slot \in Int
    BY <1>1, <2>1, PlaceIs DEF Sound, Symbol
  <2> QED
    BY <1>2, <2>1, <2>2 DEF UseNear, Use
<1>4. scopes' = scopes /\ fns' = fns /\ slot' = slot /\ status' = "running"
  BY <1>1 DEF UseNear
<1>5. TypeOK'
  BY <1>1, <1>2, <1>3, <1>4 DEF TypeOK, Sound
<1>6. ParametersCaptured'
  BY <1>2, <1>3 DEF ParametersCaptured
<1> QED
  BY <1>1, <1>2, <1>3, <1>4, <1>5, <1>6 DEF IInv, Sound

(* The mark of a captured parameter.                                       *)
Marked(sc, a, p) == [sc EXCEPT ![a].locals[p].captured = TRUE]

LEMMA MarkedScopes ==
  ASSUME NEW sc \in Seq(Scope), NEW a \in 1 .. Len(sc), NEW p \in DOMAIN sc[a].locals
  PROVE  /\ Marked(sc, a, p) \in Seq(Scope) /\ Len(Marked(sc, a, p)) = Len(sc)
         /\ Alike(sc, Marked(sc, a, p), Len(sc))
         /\ p \in DOMAIN Marked(sc, a, p)[a].locals
         /\ Marked(sc, a, p)[a].locals[p].slot = sc[a].locals[p].slot
         /\ Marked(sc, a, p)[a].locals[p].captured
<1>1. PICK locals : locals = sc[a].locals
  OBVIOUS
<1>2. locals \in Seq(Symbol) /\ p \in 1 .. Len(locals) /\ locals[p] \in Symbol
  BY <1>1, ScopeType
<1>3. PICK sym : sym = [locals[p] EXCEPT !.captured = TRUE]
  OBVIOUS
<1>4. sym \in Symbol /\ sym.slot = locals[p].slot /\ sym.captured
  BY <1>2, <1>3 DEF Symbol
<1>5. PICK more : more = [locals EXCEPT ![p] = sym]
  OBVIOUS
<1>6. /\ more \in Seq(Symbol) /\ Len(more) = Len(locals) /\ DOMAIN more = DOMAIN locals
      /\ more[p] = sym /\ \A i \in DOMAIN locals : i # p => more[i] = locals[i]
  BY <1>2, <1>4, <1>5
<1>7. PICK new : new = [sc[a] EXCEPT !.locals = more]
  OBVIOUS
<1>8. new \in Scope /\ new.type = sc[a].type /\ new.locals = more
  <2>1. sc[a] \in Scope
    OBVIOUS
  <2> QED
    BY <1>6, <1>7, <2>1 DEF Scope
<1>9. PICK tc : tc = [sc EXCEPT ![a] = new]
  OBVIOUS
<1>10. /\ tc \in Seq(Scope) /\ Len(tc) = Len(sc) /\ tc[a] = new
       /\ \A s \in 1 .. Len(sc) : s # a => tc[s] = sc[s]
  BY <1>8, <1>9
<1>11. Marked(sc, a, p) = tc
  BY <1>1, <1>3, <1>5, <1>7, <1>9 DEF Marked
<1>12. Alike(sc, tc, Len(sc))
  <2>1. ASSUME NEW s \in 1 .. Len(sc)
        PROVE  /\ tc[s].type = sc[s].type /\ Len(tc[s].locals) = Len(sc[s].locals)
               /\ \A i \in DOMAIN sc[s].locals :
                    /\ tc[s].locals[i].slot = sc[s].locals[i].slot
                    /\ sc[s].locals[i].captured => tc[s].locals[i].captured
    <3>1. CASE s = a
      <4>1. tc[s].locals = more /\ tc[s].type = sc[s].type /\ sc[s].locals = locals
        BY <1>1, <1>8, <1>10, <3>1
      <4>2. \A i \in DOMAIN locals : /\ more[i].slot = locals[i].slot
                                     /\ locals[i].captured => more[i].captured
        BY <1>4, <1>6
      <4> QED
        BY <1>6, <4>1, <4>2
    <3>2. CASE s # a
      BY <1>10, <3>2
    <3> QED
      BY <3>1, <3>2
  <2> QED
    BY <2>1 DEF Alike
<1> QED
  BY <1>1, <1>2, <1>4, <1>6, <1>8, <1>10, <1>11, <1>12

LEMMA UseFarInv ==
  ASSUME IInv, Running, NEW name, NEW s \in DOMAIN scopes, Places(s, name) # {},
         \A t \in DOMAIN scopes : Places(t, name) # {} => t <= s,
         UseFar(name, s)
  PROVE  IInv'
<1>1. CASE Owners(name) = {}
  BY <1>1, RejectInv DEF UseFar
<1>2. CASE Owners(name) # {}
  <2>1. Sound(scopes, fns, slot) /\ slot \in Nat /\ status = "running"
    BY NowSound DEF IInv, TypeOK, Running
  <2>2. /\ scopes \in Seq(Scope) /\ scopes # <<>> /\ fns \in Seq(FnInfo) /\ Shape(scopes, fns)
        /\ SlotsOf(scopes, fns, slot) /\ Grounded(scopes, fns) /\ Different(fns)
    BY <2>1 DEF Sound
  <2>3. PICK n, k : n = Len(scopes) /\ k = Len(fns) /\ n \in Nat /\ k \in Nat
                    /\ DOMAIN scopes = 1 .. n /\ DOMAIN fns = 1 .. k
    BY <2>2
  <2>4. PICK owner : owner = Nearest(Owners(name))
    OBVIOUS
  <2>5. /\ owner \in 1 .. k - 1 /\ Places(fns[owner].scope, name) # {}
        /\ \A q \in 1 .. k - 1 : Places(fns[q].scope, name) # {} => q <= owner
    <3>1. Owners(name) \subseteq 0 .. k
      BY <2>3 DEF Owners
    <3>2. owner \in Owners(name) /\ \A q \in Owners(name) : q <= owner
      BY <1>2, <2>3, <2>4, <3>1, MaxOf DEF Nearest
    <3> QED
      BY <2>3, <3>2 DEF Owners
  <2>6. PICK a : a = fns[owner].scope
    OBVIOUS
  <2>7. owner \in 1 .. Len(fns) /\ owner \in Nat \ {0} /\ owner <= k /\ a \in 2 .. n - 1 /\ a \in 1 .. n
    <3>1. owner \in 1 .. Len(fns) /\ owner \in Nat \ {0} /\ owner <= k
      BY <2>3, <2>5
    <3>2. a \in 2 .. n - 1
      BY <2>2, <2>3, <2>6, <3>1, FunctionScopes
    <3> QED
      BY <2>3, <3>1, <3>2
  <2>8. PICK p : p = Place(a, name)
    OBVIOUS
  <2>9. p \in DOMAIN scopes[a].locals /\ p \in Nat \ {0}
    BY <2>2, <2>3, <2>5, <2>6, <2>7, <2>8, PlaceIs
  <2>10. PICK param : param = scopes[a].locals[p].slot
    OBVIOUS
  <2>11. param = p - 1 /\ param \in Nat
    BY <2>2, <2>6, <2>7, <2>9, <2>10, ParameterSlot
  <2>12. PICK uv : uv = Captures(owner, param)
    OBVIOUS
  <2>13. ASSUME NEW q \in owner + 1 .. k
         PROVE  uv[q] = Handed(uv, owner, param, q) /\ uv[q] \in UpValue
    <3>1. uv[q] = Handed(uv, owner, param, q)
      BY <2>2, <2>3, <2>7, <2>12, CapturesAre
    <3>2. CASE q = owner + 1
      BY <2>11, <3>1, <3>2 DEF Handed, UpValue
    <3>3. CASE q # owner + 1
      <4>1. q - 1 \in DOMAIN fns
        BY <2>3, <2>7, <3>3
      <4>2. PICK ups : ups = fns[q - 1].upvalues /\ ups \in Seq(UpValue)
        BY <2>2, <4>1, FnInfoType
      <4>3. PICK v : v = uv[q - 1]
        OBVIOUS
      <4>4. IndexOf(ups, v) \in Nat
        <5>1. Same(ups, v) \subseteq Nat
          BY <4>2 DEF Same
        <5>2. Same(ups, v) # {} => Min(Same(ups, v)) \in Nat
          BY <5>1, MinOf
        <5> QED
          BY <4>2, <5>2 DEF IndexOf
      <4> QED
        BY <3>1, <3>3, <4>2, <4>3, <4>4 DEF Handed, UpValue, PassedOn
    <3> QED
      BY <3>1, <3>2, <3>3
  <2>14. PICK tc : tc = Marked(scopes, a, p)
    OBVIOUS
  <2>15. /\ tc \in Seq(Scope) /\ Len(tc) = n /\ Alike(scopes, tc, n)
         /\ p \in DOMAIN tc[a].locals /\ tc[a].locals[p].slot = param /\ tc[a].locals[p].captured
    BY <2>2, <2>3, <2>7, <2>9, <2>10, <2>14, MarkedScopes
  <2>16. PICK gs : gs = [q \in DOMAIN fns |->
                           IF q <= owner THEN fns[q]
                           ELSE [fns[q] EXCEPT !.upvalues = AddUpVal(@, uv[q])]]
    OBVIOUS
  <2>17. PICK last : last = IndexOf(fns[k].upvalues, uv[k])
    OBVIOUS
  <2>18. PICK u : u = [type |-> "SYM_UVAL", slot |-> last, found |-> <<s, Place(s, name)>>]
    OBVIOUS
  <2>19. /\ scopes' = tc /\ fns' = gs /\ slot' = slot /\ status' = "running" /\ use' = u
    BY <1>2, <2>1, <2>3, <2>4, <2>6, <2>8, <2>10, <2>12, <2>14, <2>16, <2>17, <2>18
       DEF UseFar, Marked
  <2>20. ASSUME NEW q \in 1 .. k
         PROVE  /\ gs[q] \in FnInfo
                /\ gs[q].scope = fns[q].scope /\ gs[q].saved = fns[q].saved
                /\ q <= owner => gs[q].upvalues = fns[q].upvalues
                /\ ~(q <= owner) => gs[q].upvalues = AddUpVal(fns[q].upvalues, uv[q])
    <3>1. fns[q] \in FnInfo
      BY <2>2, <2>3
    <3>2. CASE q <= owner
      BY <2>3, <2>16, <3>1, <3>2
    <3>3. CASE ~(q <= owner)
      <4>1. q \in owner + 1 .. k
        BY <2>3, <2>7, <3>3
      <4>2. PICK ups, v : ups = fns[q].upvalues /\ v = uv[q]
        OBVIOUS
      <4>3. ups \in Seq(UpValue) /\ v \in UpValue
        BY <2>13, <3>1, <4>1, <4>2 DEF FnInfo
      <4>4. AddUpVal(ups, v) \in Seq(UpValue)
        BY <4>3, Added
      <4>5. gs[q] = [fns[q] EXCEPT !.upvalues = AddUpVal(ups, v)]
        BY <2>3, <2>16, <3>3, <4>2
      <4> QED
        BY <3>1, <3>3, <4>2, <4>4, <4>5 DEF FnInfo
    <3> QED
      BY <3>2, <3>3
  <2>21. gs \in Seq(FnInfo) /\ Len(gs) = k
    <3>1. gs \in [1 .. k -> FnInfo]
      <4>1. gs = [q \in 1 .. k |-> gs[q]]
        BY <2>3, <2>16
      <4> QED
        BY <2>20, <4>1
    <3> QED
      BY <2>3, <3>1
  <2>22. CapturedBy(fns, gs, owner, param, uv)
    <3>1. SameFrames(fns, gs, Len(fns))
      BY <2>3, <2>20 DEF SameFrames
    <3>2. \A q \in 1 .. owner : gs[q].upvalues = fns[q].upvalues
      <4>1. \A q \in 1 .. owner : q \in 1 .. k /\ q <= owner
        BY <2>3, <2>7
      <4> QED
        BY <2>20, <4>1
    <3>3. \A q \in owner + 1 .. k :
            uv[q] \in UpValue /\ gs[q].upvalues = AddUpVal(fns[q].upvalues, uv[q])
      <4>1. \A q \in owner + 1 .. k : q \in 1 .. k /\ ~(q <= owner)
        BY <2>3, <2>7
      <4> QED
        BY <2>13, <2>20, <4>1
    <3>4. uv[owner + 1] = [type |-> "UVAL_LOC", index |-> param]
      <4>1. owner + 1 \in owner + 1 .. k
        BY <2>3, <2>5
      <4> QED
        BY <2>13, <4>1 DEF Handed
    <3>5. \A q \in owner + 2 .. k :
            uv[q] = [type |-> "UVAL_UVAL", index |-> IndexOf(fns[q - 1].upvalues, uv[q - 1])]
      <4>1. \A q \in owner + 2 .. k : q \in owner + 1 .. k /\ q # owner + 1
        BY <2>3, <2>7
      <4> QED
        BY <2>13, <4>1 DEF Handed, PassedOn
    <3> QED
      BY <2>3, <2>5, <2>11, <2>21, <3>1, <3>2, <3>3, <3>4, <3>5 DEF CapturedBy
  <2>23. Shape(tc, gs) /\ SlotsOf(tc, gs, slot)
    <3>1. SameFrames(fns, gs, Len(fns)) /\ Len(gs) = Len(fns)
      BY <2>22 DEF CapturedBy
    <3> QED
      BY <2>2, <2>3, <2>15, <2>21, <3>1, KeptShape, KeptSlots
  <2>24. Grounded(tc, gs) /\ Different(gs)
    <3>1. /\ p \in DOMAIN tc[fns[owner].scope].locals
          /\ tc[fns[owner].scope].locals[p].slot = param
          /\ tc[fns[owner].scope].locals[p].captured
      BY <2>6, <2>15
    <3>2. /\ tc \in Seq(Scope) /\ gs \in Seq(FnInfo)
          /\ Len(tc) = Len(scopes) /\ Alike(scopes, tc, Len(scopes))
      BY <2>3, <2>15, <2>21
    <3> QED
      BY ONLY <2>2, <2>22, <3>1, <3>2, CapturedGrounded
  <2>25. Sound(tc, gs, slot)
    <3>1. tc # <<>>
      BY <2>2, <2>3, <2>15
    <3> QED
      BY <2>15, <2>21, <2>23, <2>24, <3>1 DEF Sound
  <2>26. k \in owner + 1 .. Len(fns) /\ k \in 1 .. Len(fns) /\ k > owner
    BY <2>3, <2>5, <2>7
  <2>27. last \in Nat
    <3>1. last \in DOMAIN gs[k].upvalues
      BY <2>2, <2>17, <2>21, <2>22, <2>26, CapturedUpvalues
    <3>2. k \in DOMAIN gs
      BY <2>3, <2>21, <2>26
    <3> QED
      BY <2>21, <3>1, <3>2, FnInfoType
  <2>28. VariableOf(gs)[k][last] = <<a, p>>
    <3>1. VariableOf(gs)[k][last] = <<a, param + 1>>
      <4>1. /\ fns \in Seq(FnInfo) /\ gs \in Seq(FnInfo) /\ Grounded(tc, gs)
            /\ owner \in Nat /\ param \in Nat
        BY <2>2, <2>7, <2>11, <2>21, <2>24
      <4>2. Means(fns, gs, owner, param, uv, k)
        BY <2>22, <2>26, <4>1, CapturedVariable
      <4> QED
        BY <2>6, <2>17, <4>2 DEF Means
    <3> QED
      BY <2>9, <2>11, <3>1
  <2>29. scopes[s].type = "FUNCTION_TYPE" => s = a
    <3> SUFFICES ASSUME scopes[s].type = "FUNCTION_TYPE" PROVE s = a
      OBVIOUS
    <3>1. PICK q \in DOMAIN fns : fns[q].scope = s
      BY <2>2 DEF Shape
    <3>2. q # k
      BY <1>2, <2>2, <2>3, <3>1, LevelOfFunction DEF UseFar
    <3>3. q \in 1 .. k - 1
      BY <2>3, <3>1, <3>2
    <3>4. q <= owner
      BY <2>5, <3>1, <3>3
    <3>5. a <= s /\ s \in Nat
      BY <2>3, <2>5, <2>6, <2>7
    <3>6. q < owner => s + 1 < a
      BY <2>2, <2>3, <2>6, <2>7, <3>1 DEF Shape
    <3>7. a \in Nat /\ q \in Nat
      BY <2>3, <2>7
    <3> QED
      BY <2>6, <2>7, <3>1, <3>4, <3>5, <3>6, <3>7
  <2>30. u \in Use /\ u.found = <<s, Place(s, name)>> /\ u.slot = last /\ u.found[1] = s
         /\ s \in DOMAIN tc
    <3>1. s \in 1 .. Len(scopes) /\ s \in Nat /\ Place(s, name) \in Nat
      BY <2>2, <2>3, PlaceIs
    <3> QED
      BY <2>3, <2>15, <2>18, <2>27, <3>1 DEF Use
  <2>31. TypeOK'
    BY <2>1, <2>19, <2>25, <2>30 DEF TypeOK, Sound
  <2>32. ParametersCaptured'
    <3>1. Variable' = VariableOf(gs)
      BY <2>2, <2>19, <2>21, VariableIs
    <3>2. tc[s].type = scopes[s].type
      BY <2>3, <2>15 DEF Alike
    <3>3. tc[s].type = "FUNCTION_TYPE" => VariableOf(gs)[k][last] = u.found
      BY <2>8, <2>28, <2>29, <2>30, <3>2
    <3>4. use'.slot = last /\ use'.found = u.found /\ use'.found[1] = s /\ Len(fns') = k
      BY <2>19, <2>21, <2>30
    <3> QED
      BY <2>19, <3>1, <3>3, <3>4 DEF ParametersCaptured
  <2> QED
    BY <2>19, <2>25, <2>30, <2>31, <2>32 DEF IInv, Sound
<1> QED
  BY <1>1, <1>2

LEMMA ResolveInv ==
  ASSUME IInv, NEW name, Resolve(name)
  PROVE  IInv'
<1> DEFINE with == {s \in DOMAIN scopes : Places(s, name) # {}}
<1>1. CASE with = {}
  BY <1>1, RejectInv DEF Resolve
<1>2. CASE with # {}
  <2>1. PICK s : s = Max(with)
    OBVIOUS
  <2>2. Running /\ (UseNear(name, s) \/ UseFar(name, s))
    BY <1>2, <2>1 DEF Resolve
  <2>3. s \in with /\ \A t \in with : t <= s
    <3>1. Len(scopes) \in Nat /\ with \subseteq 0 .. Len(scopes)
      BY DEF IInv, TypeOK
    <3> HIDE DEF with
    <3> QED
      BY <1>2, <2>1, <3>1, MaxOf
  <2> QED
    BY <2>2, <2>3, UseNearInv, UseFarInv
<1> QED
  BY <1>1, <1>2
-----------------------------------------------------------------------------
LEMMA Inductive == IInv /\ [Next]_vars => IInv'
<1> SUFFICES ASSUME IInv, [Next]_vars PROVE IInv'
  OBVIOUS
<1>1. ASSUME NEW decls \in Lists(Declaration, Room), Script(decls) \/ Block(decls)
      PROVE  IInv'
  BY <1>1, ScriptInv, BlockInv
<1>2. ASSUME NEW params \in Lists(Names, Room),
             NEW decls \in Lists(Declaration, Room - Len(params)), FnDecl(params, decls)
      PROVE  IInv'
  BY <1>2, FnDeclInv
<1>3. CASE VarDecl \/ EndBlock \/ EndFunction
  BY <1>3, VarDeclInv, EndBlockInv, EndFunctionInv
<1>4. ASSUME NEW name \in Names, Resolve(name)
      PROVE  IInv'
  BY <1>4, ResolveInv
<1>5. CASE UNCHANGED vars
  <2>1. UNCHANGED <<scopes, fns, slot, use, status>>
    BY <1>5 DEF vars
  <2>2. Variable' = Variable
    BY <2>1, VariableIs DEF IInv, TypeOK
  <2>3. TypeOK' /\ ParametersCaptured'
    BY <2>1, <2>2 DEF IInv, TypeOK, ParametersCaptured
  <2> QED
    BY <2>1, <2>3 DEF IInv
<1> QED
  BY <1>1, <1>2, <1>3, <1>4, <1>5 DEF Next

LEMMA Invariance == Spec => []IInv
BY InitInv, Inductive, PTL DEF Spec

(* The variables have their types; slot never falls below 0.               *)
THEOREM TypeCorrect == Spec => []TypeOK
BY Invariance, PTL DEF IInv

(* The operands OP_CLOSURE and OP_LOAD_UVAL take over from the resolver    *)
(* without a check: each upvalue is a captured parameter of the parent or  *)
(* one of the parent's upvalues.                                           *)
THEOREM UpvaluesAreGrounded == Spec => []ChainsGrounded
<1>1. IInv => ChainsGrounded
  BY GroundedIs DEF IInv
<1> QED
  BY <1>1, Invariance, PTL

(* resolveUpValue captures the parameter that lexical scoping finds.       *)
THEOREM TheRightParameter == Spec => []ParametersCaptured
BY Invariance, PTL DEF IInv
-----------------------------------------------------------------------------
(* One upvalue per variable: the walk from an upvalue ends at a variable   *)
(* of a function further out, and no two walks meet.                       *)

LEMMA EndsOutside ==
  ASSUME NEW sc, NEW fs \in Seq(FnInfo), Grounded(sc, fs), NEW m \in DOMAIN fs
  PROVE  \A i \in DOMAIN fs[m].upvalues :
           \E r \in 1 .. m - 1 : VariableOf(fs)[m][i][1] = fs[r].scope
<1> DEFINE Good(q) == \A i \in DOMAIN fs[q].upvalues :
                        \E r \in 1 .. q - 1 : VariableOf(fs)[q][i][1] = fs[r].scope
           bad == {q \in DOMAIN fs : ~Good(q)}
<1>1. DOMAIN fs = 1 .. Len(fs) /\ Len(fs) \in Nat
  OBVIOUS
<1>2. ASSUME NEW q \in DOMAIN fs, \A r \in 1 .. q - 1 : Good(r)
      PROVE  Good(q)
  <2> SUFFICES ASSUME NEW i \in DOMAIN fs[q].upvalues
               PROVE  \E r \in 1 .. q - 1 : VariableOf(fs)[q][i][1] = fs[r].scope
    OBVIOUS
  <2>1. PICK v : v = fs[q].upvalues[i]
    OBVIOUS
  <2>2. v.type \in {"UVAL_LOC", "UVAL_UVAL"}
    <3>1. fs[q].upvalues \in Seq(UpValue)
      BY FnInfoType
    <3>2. v \in UpValue
      BY <2>1, <3>1
    <3> QED
      BY <3>2 DEF UpValue
  <2>3. q > 1 /\ (v.type = "UVAL_UVAL" => v.index \in DOMAIN fs[q - 1].upvalues)
    BY <2>1 DEF Grounded
  <2>4. VariableOf(fs)[q][i] = Stands(VariableOf(fs), fs, q, i)
    BY VariablesAre
  <2>5. q - 1 \in 1 .. q - 1 /\ \A r \in 1 .. q - 1 - 1 : r \in 1 .. q - 1
    BY <1>1, <2>3
  <2>6. CASE v.type = "UVAL_LOC"
    <3>1. VariableOf(fs)[q][i] = <<fs[q - 1].scope, v.index + 1>>
      BY <2>1, <2>4, <2>6 DEF Stands
    <3> QED
      BY <2>5, <3>1
  <2>7. CASE v.type = "UVAL_UVAL"
    <3>1. VariableOf(fs)[q][i] = VariableOf(fs)[q - 1][v.index]
      BY <2>1, <2>4, <2>7 DEF Stands
    <3>2. \E r \in 1 .. q - 1 - 1 : VariableOf(fs)[q - 1][v.index][1] = fs[r].scope
      BY <1>2, <2>3, <2>5, <2>7
    <3> QED
      BY <2>5, <3>1, <3>2
  <2> QED
    BY <2>2, <2>6, <2>7
<1> HIDE DEF Good
<1>3. bad = {}
  <2> SUFFICES ASSUME bad # {} PROVE FALSE
    OBVIOUS
  <2>1. bad \subseteq Nat
    BY <1>1
  <2>2. PICK q \in bad : \A e \in bad : q <= e
    BY <2>1, LeastExists
  <2>3. \A r \in 1 .. q - 1 : r \in DOMAIN fs /\ ~(q <= r)
    BY <1>1, <2>1
  <2>4. \A r \in 1 .. q - 1 : Good(r)
    BY <2>2, <2>3
  <2> QED
    BY <1>2, <2>2, <2>4
<1>4. Good(m)
  BY <1>3
<1> QED
  BY <1>4 DEF Good

LEMMA OneEach ==
  ASSUME NEW sc, NEW fs \in Seq(FnInfo), Shape(sc, fs), Grounded(sc, fs), Different(fs),
         NEW m \in DOMAIN fs
  PROVE  \A i, j \in DOMAIN fs[m].upvalues :
           VariableOf(fs)[m][i] = VariableOf(fs)[m][j] => i = j
<1> DEFINE Good(q) == \A i, j \in DOMAIN fs[q].upvalues :
                        VariableOf(fs)[q][i] = VariableOf(fs)[q][j] => i = j
           bad == {q \in DOMAIN fs : ~Good(q)}
<1>1. DOMAIN fs = 1 .. Len(fs) /\ Len(fs) \in Nat
  OBVIOUS
<1>2. ASSUME NEW q \in DOMAIN fs, NEW i \in DOMAIN fs[q].upvalues
      PROVE  LET v == fs[q].upvalues[i] IN
             /\ q - 1 \in DOMAIN fs /\ q > 1
             /\ \/ v.type = "UVAL_LOC"
                     /\ v = [type |-> "UVAL_LOC", index |-> v.index] /\ v.index \in Nat
                     /\ VariableOf(fs)[q][i] = <<fs[q - 1].scope, v.index + 1>>
                \/ v.type = "UVAL_UVAL"
                     /\ v = [type |-> "UVAL_UVAL", index |-> v.index]
                     /\ v.index \in DOMAIN fs[q - 1].upvalues
                     /\ VariableOf(fs)[q][i] = VariableOf(fs)[q - 1][v.index]
  <2>1. PICK v : v = fs[q].upvalues[i]
    OBVIOUS
  <2>2. v.type \in {"UVAL_LOC", "UVAL_UVAL"} /\ v.index \in Nat
        /\ v = [type |-> v.type, index |-> v.index]
    <3>1. fs[q].upvalues \in Seq(UpValue)
      BY FnInfoType
    <3>2. v \in UpValue
      BY <2>1, <3>1
    <3> QED
      BY <3>2 DEF UpValue
  <2>3. q > 1 /\ (v.type = "UVAL_UVAL" => v.index \in DOMAIN fs[q - 1].upvalues)
    BY <2>1 DEF Grounded
  <2>4. VariableOf(fs)[q][i] = Stands(VariableOf(fs), fs, q, i)
    BY VariablesAre
  <2>5. q - 1 \in DOMAIN fs
    BY <1>1, <2>3
  <2>6. CASE v.type = "UVAL_LOC"
    <3>1. VariableOf(fs)[q][i] = <<fs[q - 1].scope, v.index + 1>>
      BY <2>1, <2>4, <2>6 DEF Stands
    <3> QED
      BY <2>1, <2>2, <2>3, <2>5, <2>6, <3>1
  <2>7. CASE v.type = "UVAL_UVAL"
    <3>1. VariableOf(fs)[q][i] = VariableOf(fs)[q - 1][v.index]
      BY <2>1, <2>4, <2>7 DEF Stands
    <3> QED
      BY <2>1, <2>2, <2>3, <2>5, <2>7, <3>1
  <2> QED
    BY <2>2, <2>6, <2>7
<1>3. ASSUME NEW q \in DOMAIN fs, NEW x, NEW j \in DOMAIN fs[q].upvalues, q + 1 \in DOMAIN fs
      PROVE  <<fs[q].scope, x>> # VariableOf(fs)[q][j]
  <2>1. PICK r \in 1 .. q - 1 : VariableOf(fs)[q][j][1] = fs[r].scope
    BY EndsOutside
  <2>2. r \in DOMAIN fs /\ r < q
    BY <1>1
  <2>3. fs[r].scope \in Nat /\ fs[q].scope \in Nat /\ fs[r].scope + 1 < fs[q].scope
    BY <2>2, FnInfoType DEF Shape
  <2>4. fs[r].scope # fs[q].scope
    BY <2>3
  <2> QED
    BY <2>1, <2>4
<1>4. ASSUME NEW q \in DOMAIN fs, q > 1 => Good(q - 1)
      PROVE  Good(q)
  <2> SUFFICES ASSUME NEW i \in DOMAIN fs[q].upvalues, NEW j \in DOMAIN fs[q].upvalues,
                      VariableOf(fs)[q][i] = VariableOf(fs)[q][j]
               PROVE  i = j
    OBVIOUS
  <2>1. PICK v, w : v = fs[q].upvalues[i] /\ w = fs[q].upvalues[j]
    OBVIOUS
  <2>2. q > 1
    BY <1>2
  <2>3. PICK k : k = q - 1
    OBVIOUS
  <2>4. k \in DOMAIN fs /\ k + 1 = q
    BY <1>1, <2>2, <2>3
  <2>5. v = w
    <3>1. CASE v.type = "UVAL_LOC" /\ w.type = "UVAL_LOC"
      <4>1. /\ v = [type |-> "UVAL_LOC", index |-> v.index]
            /\ w = [type |-> "UVAL_LOC", index |-> w.index]
            /\ v.index \in Nat /\ w.index \in Nat
            /\ VariableOf(fs)[q][i] = <<fs[q - 1].scope, v.index + 1>>
            /\ VariableOf(fs)[q][j] = <<fs[q - 1].scope, w.index + 1>>
        BY <1>2, <2>1, <3>1
      <4>2. v.index + 1 = w.index + 1
        <5> DEFINE x == v.index + 1
                   y == w.index + 1
                   f == fs[q - 1].scope
        <5>1. <<f, x>> = <<f, y>>
          BY <4>1
        <5> HIDE DEF x, y, f
        <5>2. x = y
          BY <5>1
        <5> QED
          BY <5>2 DEF x, y
      <4>3. v.index = w.index
        BY <4>1, <4>2
      <4> QED
        BY <4>1, <4>3
    <3>2. CASE v.type = "UVAL_UVAL" /\ w.type = "UVAL_UVAL"
      <4>1. /\ v = [type |-> "UVAL_UVAL", index |-> v.index]
            /\ w = [type |-> "UVAL_UVAL", index |-> w.index]
            /\ v.index \in DOMAIN fs[q - 1].upvalues /\ w.index \in DOMAIN fs[q - 1].upvalues
            /\ VariableOf(fs)[q - 1][v.index] = VariableOf(fs)[q - 1][w.index]
        BY <1>2, <2>1, <3>2
      <4>2. v.index = w.index
        BY <1>4, <2>2, <4>1
      <4> QED
        BY <4>1, <4>2
    <3>3. ASSUME v.type = "UVAL_LOC", w.type = "UVAL_UVAL" PROVE FALSE
      <4>1. /\ w.index \in DOMAIN fs[k].upvalues
            /\ VariableOf(fs)[q][i] = <<fs[k].scope, v.index + 1>>
            /\ VariableOf(fs)[q][j] = VariableOf(fs)[k][w.index]
        BY <1>2, <2>1, <2>3, <3>3
      <4> QED
        BY <1>3, <2>4, <4>1
    <3>4. ASSUME v.type = "UVAL_UVAL", w.type = "UVAL_LOC" PROVE FALSE
      <4>1. /\ v.index \in DOMAIN fs[k].upvalues
            /\ VariableOf(fs)[q][i] = VariableOf(fs)[k][v.index]
            /\ VariableOf(fs)[q][j] = <<fs[k].scope, w.index + 1>>
        BY <1>2, <2>1, <2>3, <3>4
      <4> QED
        BY <1>3, <2>4, <4>1
    <3>5. v.type \in {"UVAL_LOC", "UVAL_UVAL"} /\ w.type \in {"UVAL_LOC", "UVAL_UVAL"}
      BY <1>2, <2>1
    <3> QED
      BY <3>1, <3>2, <3>3, <3>4, <3>5
  <2> QED
    BY <2>1, <2>5 DEF Different
<1> HIDE DEF Good
<1>5. bad = {}
  <2> SUFFICES ASSUME bad # {} PROVE FALSE
    OBVIOUS
  <2>1. bad \subseteq Nat
    BY <1>1
  <2>2. PICK q \in bad : \A e \in bad : q <= e
    BY <2>1, LeastExists
  <2>3. q > 1 => q - 1 \in DOMAIN fs /\ ~(q <= q - 1)
    BY <1>1, <2>1
  <2>4. q > 1 => Good(q - 1)
    BY <2>2, <2>3
  <2> QED
    BY <1>4, <2>2, <2>4
<1>6. Good(m)
  BY <1>5
<1> QED
  BY <1>6 DEF Good

(* However often a function uses a variable or hands it on, it has one     *)
(* upvalue for it: two closures made by it share one box.                  *)
THEOREM NoVariableTwice == Spec => []OneUpvaluePerVariable
<1>1. IInv => OneUpvaluePerVariable
  <2> SUFFICES ASSUME IInv PROVE OneUpvaluePerVariable
    OBVIOUS
  <2>1. fns \in Seq(FnInfo) /\ Shape(scopes, fns) /\ Grounded(scopes, fns) /\ Different(fns)
    BY DEF IInv, TypeOK
  <2>2. Variable = VariableOf(fns)
    <3>1. DOMAIN fns = 1 .. Len(fns)
      BY <2>1
    <3> QED
      BY <3>1 DEF Variable, VariableOf, Walk, Stands
  <2> QED
    BY <2>1, <2>2, OneEach DEF OneUpvaluePerVariable
<1> QED
  BY <1>1, Invariance, PTL
-----------------------------------------------------------------------------
(* The slots of a function.                                                *)

(* Adjoining intervals e[s - 1] .. e[s] - 1 for s in lo .. hi, from 0 on:  *)
(* they do not overlap and leave nothing out.                              *)
LEMMA Adjoining ==
  ASSUME NEW lo \in Nat \ {0}, NEW hi \in Nat, lo - 1 <= hi,
         NEW e \in [lo - 1 .. hi -> Nat], e[lo - 1] = 0,
         \A s \in lo .. hi : e[s - 1] <= e[s]
  PROVE  /\ \A s, t \in lo - 1 .. hi : s <= t => e[s] <= e[t]
         /\ \A x \in 0 .. e[hi] - 1 : \E s \in lo .. hi : e[s - 1] <= x /\ x < e[s]
<1>1. ASSUME NEW s \in lo - 1 .. hi, NEW t \in lo - 1 .. hi, s <= t
      PROVE  e[s] <= e[t]
  <2> DEFINE bad == {u \in lo - 1 .. hi : s <= u /\ ~(e[s] <= e[u])}
  <2>1. bad = {}
    <3> SUFFICES ASSUME bad # {} PROVE FALSE
      OBVIOUS
    <3>1. bad \subseteq Nat
      OBVIOUS
    <3>2. PICK u \in bad : \A w \in bad : u <= w
      BY <3>1, LeastExists
    <3>3. u \in lo .. hi /\ u - 1 \in lo - 1 .. hi /\ s <= u - 1 /\ ~(u <= u - 1)
      <4>1. u \in lo - 1 .. hi /\ s <= u /\ ~(e[s] <= e[u]) /\ e[s] \in Nat
        BY <3>2
      <4>2. u # s
        BY <4>1
      <4> QED
        BY <4>1, <4>2
    <3>4. e[s] <= e[u - 1]
      BY <3>2, <3>3
    <3>5. e[u - 1] <= e[u] /\ e[u - 1] \in Nat /\ e[u] \in Nat /\ e[s] \in Nat
      BY <3>3
    <3>6. e[s] <= e[u]
      BY <3>4, <3>5
    <3> QED
      BY <3>2, <3>6
  <2> QED
    BY <1>1, <2>1
<1>2. ASSUME NEW x \in 0 .. e[hi] - 1
      PROVE  \E s \in lo .. hi : e[s - 1] <= x /\ x < e[s]
  <2> DEFINE above == {s \in lo .. hi : x < e[s]}
  <2>1. hi \in lo - 1 .. hi /\ e[hi] \in Nat /\ x \in Nat /\ x < e[hi]
    <3>1. hi \in lo - 1 .. hi
      OBVIOUS
    <3>2. e[hi] \in Nat
      BY <3>1
    <3> QED
      BY <3>1, <3>2
  <2>2. hi # lo - 1
    BY <2>1
  <2>3. hi \in above
    BY <2>1, <2>2
  <2>4. above \subseteq Nat
    OBVIOUS
  <2>5. PICK s \in above : \A w \in above : s <= w
    BY <2>3, <2>4, LeastExists
  <2>6. s \in lo .. hi /\ x < e[s] /\ s - 1 \in lo - 1 .. hi /\ ~(s <= s - 1)
    BY <2>5
  <2>7. e[s - 1] <= x
    <3>1. CASE s = lo
      BY <2>1, <3>1
    <3>2. CASE s # lo
      <4>1. s - 1 \in lo .. hi /\ e[s - 1] \in Nat
        BY <2>6, <3>2
      <4>2. s - 1 \notin above
        BY <2>5, <2>6
      <4> QED
        BY <2>1, <4>1, <4>2
    <3> QED
      BY <3>1, <3>2
  <2> QED
    BY <2>6, <2>7
<1> QED
  BY <1>1, <1>2

(* Numbered in adjoining intervals, the places <<s, i>> take each number   *)
(* below the last end, and each a number of its own.                       *)
Numbered(lo, hi, e, P, number) ==
  /\ lo \in Nat \ {0} /\ hi \in Nat /\ lo - 1 <= hi
  /\ e \in [lo - 1 .. hi -> Nat] /\ e[lo - 1] = 0
  /\ \A s \in lo .. hi : e[s - 1] <= e[s]
  /\ number \in [P -> Int]
  /\ \A p \in P : \E s \in lo .. hi : \E i \in 1 .. e[s] - e[s - 1] : p = <<s, i>>
  /\ \A s \in lo .. hi : \A i \in 1 .. e[s] - e[s - 1] :
       <<s, i>> \in P /\ number[<<s, i>>] = e[s - 1] + i - 1

LEMMA NumberedPlaces ==
  ASSUME NEW lo, NEW hi, NEW e, NEW P, NEW number, Numbered(lo, hi, e, P, number)
  PROVE  /\ Cardinality(P) = e[hi]
         /\ {number[p] : p \in P} = 0 .. e[hi] - 1
<1> USE DEF Numbered
<1>1. \A s, t \in lo - 1 .. hi : s <= t => e[s] <= e[t]
  BY Adjoining
<1>2. \A x \in 0 .. e[hi] - 1 : \E s \in lo .. hi : e[s - 1] <= x /\ x < e[s]
  BY Adjoining
<1>3. hi \in lo - 1 .. hi
  OBVIOUS
<1>4. e[hi] \in Nat
  BY <1>3
<1>5. ASSUME NEW s \in lo .. hi
      PROVE  s - 1 \in lo - 1 .. hi /\ s \in lo - 1 .. hi /\ e[s - 1] \in Nat /\ e[s] \in Nat
  <2>1. s - 1 \in lo - 1 .. hi /\ s \in lo - 1 .. hi
    OBVIOUS
  <2> QED
    BY <2>1
<1>6. ASSUME NEW p \in P
      PROVE  number[p] \in 0 .. e[hi] - 1
  <2>1. PICK s \in lo .. hi : \E i \in 1 .. e[s] - e[s - 1] : p = <<s, i>>
    OBVIOUS
  <2>2. PICK i \in 1 .. e[s] - e[s - 1] : p = <<s, i>>
    BY <2>1
  <2>3. number[p] = e[s - 1] + i - 1
    BY <2>2
  <2>4. s <= hi /\ e[s] <= e[hi]
    BY <1>1, <1>3, <1>5
  <2>5. PICK a, b, c, x : a = e[s - 1] /\ b = e[s] /\ c = e[hi] /\ x = number[p]
    OBVIOUS
  <2>6. a \in Nat /\ b \in Nat /\ c \in Nat
    BY <1>4, <1>5, <2>5
  <2>7. i \in 1 .. b - a /\ x = a + i - 1 /\ b <= c
    BY <2>2, <2>3, <2>4, <2>5
  <2>8. x \in 0 .. c - 1
    BY ONLY <2>6, <2>7
  <2> QED
    BY <2>5, <2>8
<1>7. ASSUME NEW p \in P, NEW r \in P, number[p] = number[r]
      PROVE  p = r
  <2>1. PICK s \in lo .. hi : \E i \in 1 .. e[s] - e[s - 1] : p = <<s, i>>
    OBVIOUS
  <2>2. PICK i \in 1 .. e[s] - e[s - 1] : p = <<s, i>>
    BY <2>1
  <2>3. PICK t \in lo .. hi : \E j \in 1 .. e[t] - e[t - 1] : r = <<t, j>>
    OBVIOUS
  <2>4. PICK j \in 1 .. e[t] - e[t - 1] : r = <<t, j>>
    BY <2>3
  <2>5. PICK a, b, c, d : a = e[s - 1] /\ b = e[s] /\ c = e[t - 1] /\ d = e[t]
    OBVIOUS
  <2>6. a \in Nat /\ b \in Nat /\ c \in Nat /\ d \in Nat
    BY <1>5, <2>5
  <2>7. i \in 1 .. b - a /\ j \in 1 .. d - c
    BY <2>2, <2>4, <2>5
  <2>8. a + i - 1 = c + j - 1
    BY <1>7, <2>2, <2>4, <2>5
  <2>9. ~(s < t)
    <3> SUFFICES ASSUME s < t PROVE FALSE
      OBVIOUS
    <3>1. s <= t - 1
      OBVIOUS
    <3>2. b <= c
      BY <1>1, <1>5, <2>5, <3>1
    <3> QED
      BY ONLY <2>6, <2>7, <2>8, <3>2
  <2>10. ~(t < s)
    <3> SUFFICES ASSUME t < s PROVE FALSE
      OBVIOUS
    <3>1. t <= s - 1
      OBVIOUS
    <3>2. d <= a
      BY <1>1, <1>5, <2>5, <3>1
    <3> QED
      BY ONLY <2>6, <2>7, <2>8, <3>2
  <2>11. s = t
    BY <2>9, <2>10
  <2>12. a = c
    BY <2>5, <2>11
  <2>13. i = j
    BY ONLY <2>6, <2>7, <2>8, <2>12
  <2> QED
    BY <2>2, <2>4, <2>11, <2>13
<1>8. ASSUME NEW x \in 0 .. e[hi] - 1
      PROVE  \E p \in P : number[p] = x
  <2>1. PICK s \in lo .. hi : e[s - 1] <= x /\ x < e[s]
    BY <1>2
  <2>2. PICK i : i = x - e[s - 1] + 1
    OBVIOUS
  <2>3. i \in 1 .. e[s] - e[s - 1] /\ e[s - 1] + i - 1 = x
    BY <1>4, <1>5, <2>1, <2>2
  <2> QED
    BY <2>3
<1>9. number \in [P -> 0 .. e[hi] - 1]
  BY <1>6
<1>10. number \in Bijection(P, 0 .. e[hi] - 1)
  BY <1>7, <1>8, <1>9, Fun_IsBij
<1>11. ExistsBijection(0 .. e[hi] - 1, P)
  BY <1>10, Fun_ExistsBijSymmetric DEF ExistsBijection
<1>12. IsFiniteSet(0 .. e[hi] - 1) /\ Cardinality(0 .. e[hi] - 1) = e[hi]
  <2>1. PICK m : m = e[hi] - 1
    OBVIOUS
  <2>2. 0 \in Int /\ m \in Int
    BY <1>4, <2>1
  <2>3. IsFiniteSet(0 .. m) /\ Cardinality(0 .. m) = IF 0 > m THEN 0 ELSE m - 0 + 1
    BY <2>2, FS_Interval
  <2>4. (IF 0 > m THEN 0 ELSE m - 0 + 1) = e[hi]
    BY <1>4, <2>1
  <2> QED
    BY <2>1, <2>3, <2>4
<1>13. Cardinality(P) = e[hi]
  BY <1>11, <1>12, FS_Bijection
<1> QED
  BY <1>6, <1>8, <1>13

(* The scopes of function q, 0 for the script, are those from Bottom to    *)
(* Top.                                                                    *)
Bottom(q) == IF q = 0 THEN 2 ELSE fns[q].scope
Top(q) == IF q = Len(fns) THEN Len(scopes) ELSE fns[q + 1].scope - 1

LEMMA StretchOf ==
  ASSUME scopes \in Seq(Scope), fns \in Seq(FnInfo), Shape(scopes, fns), scopes # <<>>,
         NEW q \in 0 .. Len(fns)
  PROVE  /\ Bottom(q) \in Nat /\ 2 <= Bottom(q) /\ Top(q) \in Nat
         /\ Bottom(q) - 1 <= Top(q) /\ Top(q) <= Len(scopes)
         /\ \A s \in 2 .. Len(scopes) : Level(s) = q <=> s \in Bottom(q) .. Top(q)
         /\ \A s \in Bottom(q) .. Top(q) :
              scopes[s].type = "FUNCTION_TYPE" <=> q > 0 /\ s = Bottom(q)
<1>1. Len(fns) \in Nat /\ Len(scopes) \in Nat /\ Len(scopes) > 0
      /\ DOMAIN fns = 1 .. Len(fns) /\ DOMAIN scopes = 1 .. Len(scopes)
  OBVIOUS
<1>2. q > 0 => q \in DOMAIN fns /\ fns[q].scope \in Nat
               /\ 1 < fns[q].scope /\ fns[q].scope < Len(scopes)
  <2> SUFFICES ASSUME q > 0 PROVE q \in DOMAIN fns /\ fns[q].scope \in Nat
               /\ 1 < fns[q].scope /\ fns[q].scope < Len(scopes)
    OBVIOUS
  <2>1. q \in DOMAIN fns
    BY <1>1
  <2> QED
    BY <2>1, FnInfoType DEF Shape
<1>3. q < Len(fns) => q + 1 \in DOMAIN fns /\ fns[q + 1].scope \in Nat
               /\ 1 < fns[q + 1].scope /\ fns[q + 1].scope < Len(scopes)
  <2> SUFFICES ASSUME q < Len(fns) PROVE q + 1 \in DOMAIN fns /\ fns[q + 1].scope \in Nat
               /\ 1 < fns[q + 1].scope /\ fns[q + 1].scope < Len(scopes)
    OBVIOUS
  <2>1. q + 1 \in DOMAIN fns
    BY <1>1
  <2> QED
    BY <2>1, FnInfoType DEF Shape
<1>4. q > 0 /\ q < Len(fns) => fns[q].scope + 1 < fns[q + 1].scope
  <2> SUFFICES ASSUME q > 0, q < Len(fns) PROVE fns[q].scope + 1 < fns[q + 1].scope
    OBVIOUS
  <2>1. q \in DOMAIN fns /\ q + 1 \in DOMAIN fns /\ q < q + 1
    BY <1>2, <1>3
  <2> QED
    BY <2>1 DEF Shape
<1>5. q \in Nat /\ (q = 0 \/ q > 0) /\ (q = Len(fns) \/ q < Len(fns))
      /\ (q < Len(fns) => q # Len(fns)) /\ (q > 0 => q # 0)
  <2>1. PICK n : n = Len(fns)
    OBVIOUS
  <2>2. n \in Nat /\ q \in 0 .. n
    BY <1>1, <2>1
  <2> QED
    BY <2>1, <2>2
<1>6. /\ Bottom(q) \in Nat /\ 2 <= Bottom(q) /\ Top(q) \in Nat
      /\ Bottom(q) - 1 <= Top(q) /\ Top(q) <= Len(scopes)
  <2>1. CASE q = 0 /\ q = Len(fns)
    BY <1>1, <2>1 DEF Bottom, Top
  <2>2. CASE q = 0 /\ q < Len(fns)
    BY <1>1, <1>3, <1>5, <2>2 DEF Bottom, Top
  <2>3. CASE q > 0 /\ q = Len(fns)
    BY <1>1, <1>2, <1>5, <2>3 DEF Bottom, Top
  <2>4. CASE q > 0 /\ q < Len(fns)
    <3>1. Bottom(q) = fns[q].scope /\ Top(q) = fns[q + 1].scope - 1
      BY <1>5, <2>4 DEF Bottom, Top
    <3>2. PICK b, t, n : b = fns[q].scope /\ t = fns[q + 1].scope /\ n = Len(scopes)
      OBVIOUS
    <3>3. b \in Nat /\ t \in Nat /\ n \in Nat /\ 1 < b /\ b + 1 < t /\ t < n
      BY <1>1, <1>2, <1>3, <1>4, <2>4, <3>2
    <3>4. 2 <= b /\ t - 1 \in Nat /\ b - 1 <= t - 1 /\ t - 1 <= n
      BY ONLY <3>3
    <3> QED
      BY <3>1, <3>2, <3>3, <3>4
  <2> QED
    BY <1>5, <2>1, <2>2, <2>3, <2>4
<1>7. ASSUME NEW s \in 2 .. Len(scopes)
      PROVE  Level(s) = q <=> s \in Bottom(q) .. Top(q)
  <2>1. s \in Nat
    OBVIOUS
  <2>2. InLevel(fns, s, q) <=> s \in Bottom(q) .. Top(q)
    <3>1. q > 0 => (fns[q].scope <= s <=> Bottom(q) <= s)
      BY <1>5 DEF Bottom
    <3>2. q = 0 => Bottom(q) <= s
      BY DEF Bottom
    <3>3. q < Len(fns) => (s < fns[q + 1].scope <=> s <= Top(q))
      BY <1>3, <1>5 DEF Top
    <3>4. q = Len(fns) => s <= Top(q)
      BY DEF Top
    <3>5. Bottom(q) \in Int /\ Top(q) \in Int /\ s \in Int
      BY <1>6
    <3>6. s \in Bottom(q) .. Top(q) <=> Bottom(q) <= s /\ s <= Top(q)
      BY <3>5
    <3>7. q = Len(fns) => ~(q < Len(fns))
      BY <1>5
    <3>8. q = 0 => ~(q > 0)
      OBVIOUS
    <3> QED
      BY <1>5, <3>1, <3>2, <3>3, <3>4, <3>6, <3>7, <3>8 DEF InLevel
  <2> QED
    BY <2>1, <2>2, LevelIs, LevelOf
<1>8. ASSUME NEW s \in Bottom(q) .. Top(q)
      PROVE  scopes[s].type = "FUNCTION_TYPE" <=> q > 0 /\ s = Bottom(q)
  <2>1. s \in 2 .. Len(scopes) /\ s \in DOMAIN scopes
    BY <1>1, <1>6
  <2>2. Level(s) = q
    BY <1>7, <2>1
  <2>3. scopes[s].type = "FUNCTION_TYPE" <=> \E r \in DOMAIN fns : fns[r].scope = s
    BY <2>1 DEF Shape
  <2>4. ASSUME NEW r \in DOMAIN fns, fns[r].scope = s PROVE r = q
    BY <2>2, <2>4, LevelOfFunction
  <2>5. \A r \in DOMAIN fns : fns[r].scope = s => r = q
    BY <2>4
  <2>6. ~(0 \in DOMAIN fns) /\ q \in Nat
    BY <1>1
  <2> QED
    BY <1>2, <2>3, <2>5, <2>6 DEF Bottom
<1> QED
  BY <1>6, <1>7, <1>8

LEMMA DenseIn ==
  ASSUME scopes \in Seq(Scope), fns \in Seq(FnInfo), Shape(scopes, fns), scopes # <<>>,
         SlotsOf(scopes, fns, slot), NEW q \in 0 .. Len(fns)
  PROVE  /\ Cardinality(Own(q)) = InFrame(q)
         /\ {SlotOf(p) : p \in Own(q)} = 0 .. InFrame(q) - 1
<1>1. PICK ends : Ends(scopes, fns, ends) /\ slot = ends[Len(scopes)]
  BY DEF SlotsOf
<1>2. PICK lo, hi : lo = Bottom(q) /\ hi = Top(q)
  OBVIOUS
<1>3. /\ lo \in Nat /\ 2 <= lo /\ hi \in Nat /\ lo - 1 <= hi /\ hi <= Len(scopes)
      /\ \A s \in 2 .. Len(scopes) : Level(s) = q <=> s \in lo .. hi
      /\ \A s \in lo .. hi : scopes[s].type = "FUNCTION_TYPE" <=> q > 0 /\ s = lo
  BY <1>2, StretchOf
<1>4. Len(scopes) \in Nat /\ DOMAIN scopes = 1 .. Len(scopes) /\ DOMAIN fns = 1 .. Len(fns)
      /\ Len(fns) \in Nat
  OBVIOUS
<1>5. PICK e : e = [s \in lo - 1 .. hi |-> IF s = lo - 1 THEN 0 ELSE ends[s]]
  OBVIOUS
<1>6. ends \in [0 .. Len(scopes) -> Nat] /\ ends[1] = 0
      /\ \A s \in 2 .. Len(scopes) : Filled(scopes, ends, s)
  BY <1>1 DEF Ends
<1>7. e \in [lo - 1 .. hi -> Nat] /\ e[lo - 1] = 0
  BY <1>3, <1>5, <1>6
<1>8. ASSUME NEW s \in lo .. hi
      PROVE  /\ DOMAIN scopes[s].locals = 1 .. e[s] - e[s - 1]
             /\ e[s - 1] <= e[s]
             /\ \A i \in DOMAIN scopes[s].locals :
                  scopes[s].locals[i].slot = e[s - 1] + i - 1
  <2>1. s \in 2 .. Len(scopes) /\ s \in 1 .. Len(scopes) /\ s \in lo - 1 .. hi
        /\ s - 1 \in lo - 1 .. hi /\ s # lo - 1 /\ s - 1 \in 0 .. Len(scopes)
    BY <1>3
  <2>2. scopes[s].locals \in Seq(Symbol)
    BY <2>1, ScopeType
  <2>3. Len(scopes[s].locals) \in Nat
        /\ DOMAIN scopes[s].locals = 1 .. Len(scopes[s].locals)
    BY <2>2
  <2>4. e[s] = ends[s]
    BY <1>5, <2>1
  <2>5. First(scopes, ends, s) = e[s - 1]
    <3>1. CASE s = lo /\ q > 0
      BY <1>3, <1>7, <3>1 DEF First
    <3>2. CASE s = lo /\ q = 0
      <4>1. s = 2 /\ s - 1 = 1
        BY <1>2, <3>2 DEF Bottom
      <4>2. scopes[s].type # "FUNCTION_TYPE"
        BY <1>3, <3>2
      <4>3. ends[s - 1] = 0
        BY <1>6, <4>1
      <4>4. e[s - 1] = 0
        BY <1>7, <3>2
      <4> QED
        BY <4>2, <4>3, <4>4 DEF First
    <3>3. CASE s # lo
      <4>1. scopes[s].type # "FUNCTION_TYPE"
        BY <1>3, <3>3
      <4>2. s - 1 # lo - 1
        BY <1>3, <3>3
      <4>3. e[s - 1] = ends[s - 1]
        BY <1>5, <2>1, <4>2
      <4> QED
        BY <4>1, <4>3 DEF First
    <3>4. q > 0 \/ q = 0
      BY <1>4
    <3> QED
      BY <3>1, <3>2, <3>3, <3>4
  <2>6. /\ e[s] = e[s - 1] + Len(scopes[s].locals)
        /\ \A i \in DOMAIN scopes[s].locals : scopes[s].locals[i].slot = e[s - 1] + i - 1
    BY <1>6, <2>1, <2>4, <2>5 DEF Filled
  <2>7. e[s] \in Nat /\ e[s - 1] \in Nat
    BY <1>7, <2>1
  <2>8. e[s] - e[s - 1] = Len(scopes[s].locals) /\ e[s - 1] <= e[s]
    BY <2>3, <2>6, <2>7
  <2> QED
    BY <2>3, <2>6, <2>8
<1>9. InFrame(q) = e[hi]
  <2>1. CASE q = Len(fns)
    <3>1. hi = Len(scopes) /\ InFrame(q) = ends[hi]
      BY <1>1, <1>2, <2>1 DEF Top, InFrame
    <3>2. hi = lo - 1 => hi = 1
      <4> SUFFICES ASSUME hi = lo - 1, q # 0 PROVE FALSE
        BY <1>2 DEF Bottom
      <4>1. q \in DOMAIN fns
        BY <1>4
      <4>2. fns[q].scope < Len(scopes) /\ fns[q].scope \in Nat
        BY <4>1, FnInfoType DEF Shape
      <4>3. lo = fns[q].scope
        BY <1>2 DEF Bottom
      <4> QED
        BY <1>4, <3>1, <4>2, <4>3
    <3>3. hi = lo - 1 => ends[hi] = 0
      BY <1>6, <3>2
    <3> QED
      BY <1>3, <1>5, <3>1, <3>3
  <2>2. CASE q < Len(fns)
    <3>1. q + 1 \in DOMAIN fns
      BY <1>4, <2>2
    <3>2. fns[q + 1].saved = ends[fns[q + 1].scope - 1]
      BY <1>1, <3>1 DEF Ends
    <3>3. q # Len(fns)
      <4>1. \A n \in Nat : ~(n < n)
        OBVIOUS
      <4> QED
        BY <1>4, <2>2, <4>1
    <3>4. hi = fns[q + 1].scope - 1 /\ InFrame(q) = ends[hi]
      BY <1>2, <3>2, <3>3 DEF Top, InFrame
    <3>5. hi = lo - 1 => hi = 1
      <4> SUFFICES ASSUME hi = lo - 1, q # 0 PROVE FALSE
        BY <1>2 DEF Bottom
      <4>1. q \in DOMAIN fns /\ q < q + 1
        BY <1>4
      <4>2. fns[q].scope + 1 < fns[q + 1].scope /\ fns[q].scope \in Nat /\ fns[q + 1].scope \in Nat
        BY <3>1, <4>1, FnInfoType DEF Shape
      <4>3. lo = fns[q].scope
        BY <1>2 DEF Bottom
      <4> QED
        BY <3>4, <4>2, <4>3
    <3>6. hi = lo - 1 => ends[hi] = 0
      BY <1>6, <3>5
    <3> QED
      BY <1>3, <1>5, <3>4, <3>6
  <2>3. \A n \in Nat : \A r \in 0 .. n : r = n \/ r < n
    OBVIOUS
  <2>4. q = Len(fns) \/ q < Len(fns)
    BY <1>4, <2>3
  <2> QED
    BY <2>1, <2>2, <2>4
<1>10. Own(q) = UNION {{<<s, i>> : i \in DOMAIN scopes[s].locals} : s \in lo .. hi}
  <2>1. {t \in 2 .. Len(scopes) : Level(t) = q} = lo .. hi
    BY <1>3
  <2> QED
    BY <2>1 DEF Own
<1>11. PICK P : P = Own(q)
  OBVIOUS
<1>12. \A p \in P : \E s \in lo .. hi : \E i \in 1 .. e[s] - e[s - 1] : p = <<s, i>>
  <2> SUFFICES ASSUME NEW p \in P
               PROVE  \E s \in lo .. hi : \E i \in 1 .. e[s] - e[s - 1] : p = <<s, i>>
    OBVIOUS
  <2>1. PICK s \in lo .. hi : p \in {<<s, i>> : i \in DOMAIN scopes[s].locals}
    BY <1>10, <1>11
  <2> QED
    BY <1>8, <2>1
<1>13. PICK number : number = [p \in P |-> SlotOf(p)]
  OBVIOUS
<1>14. ASSUME NEW s \in lo .. hi, NEW i \in 1 .. e[s] - e[s - 1]
       PROVE  <<s, i>> \in P /\ number[<<s, i>>] = e[s - 1] + i - 1
  <2>1. i \in DOMAIN scopes[s].locals /\ scopes[s].locals[i].slot = e[s - 1] + i - 1
    BY <1>8
  <2>2. <<s, i>> \in P
    BY <1>10, <1>11, <2>1
  <2>3. number[<<s, i>>] = SlotOf(<<s, i>>)
    BY <1>13, <2>2
  <2> QED
    BY <2>1, <2>2, <2>3 DEF SlotOf
<1>15. number \in [P -> Int]
  <2> SUFFICES ASSUME NEW p \in P PROVE number[p] \in Int
    BY <1>13
  <2>1. PICK s \in lo .. hi : \E i \in 1 .. e[s] - e[s - 1] : p = <<s, i>>
    BY <1>12
  <2>2. PICK i \in 1 .. e[s] - e[s - 1] : p = <<s, i>>
    BY <2>1
  <2>3. e[s - 1] \in Nat /\ i \in Int
    <3>1. s - 1 \in lo - 1 .. hi /\ s \in lo - 1 .. hi
      BY <1>3
    <3> QED
      BY <1>7, <3>1, <2>2
  <2> QED
    BY <1>14, <2>2, <2>3
<1>16. lo \in Nat \ {0}
  BY <1>3
<1>17. \A s \in lo .. hi : e[s - 1] <= e[s]
  BY <1>8
<1>18. /\ Cardinality(P) = e[hi]
       /\ {number[p] : p \in P} = 0 .. e[hi] - 1
  <2>1. \A s \in lo .. hi : \A i \in 1 .. e[s] - e[s - 1] :
           <<s, i>> \in P /\ number[<<s, i>>] = e[s - 1] + i - 1
    BY <1>14
  <2>2. hi \in Nat /\ lo - 1 <= hi
    BY <1>3
  <2>3. Numbered(lo, hi, e, P, number)
    BY <1>7, <1>12, <1>15, <1>16, <1>17, <2>1, <2>2, Zenon DEF Numbered
  <2> QED
    BY <2>3, NumberedPlaces
<1>19. {number[p] : p \in P} = {SlotOf(p) : p \in P}
  BY <1>13
<1> QED
  BY <1>9, <1>11, <1>18, <1>19

(* The visible locals of a function have the slots from 0 on, each its     *)
(* own: however blocks and functions begin and end, two of them never      *)
(* share a cell of the frame.                                              *)
THEOREM SlotsAreDense == Spec => []SlotsDense
<1>1. IInv => SlotsDense
  <2> SUFFICES ASSUME IInv PROVE SlotsDense
    OBVIOUS
  <2>1. scopes \in Seq(Scope) /\ fns \in Seq(FnInfo)
        /\ Shape(scopes, fns) /\ SlotsOf(scopes, fns, slot)
    BY DEF IInv, TypeOK
  <2>2. CASE scopes # <<>>
    BY <2>1, <2>2, DenseIn DEF SlotsDense
  <2>3. CASE scopes = <<>>
    <3>1. fns = <<>> /\ Len(fns) = 0 /\ Len(scopes) = 0
      BY <2>1, <2>3 DEF Shape
    <3>2. slot = 0
      BY <2>1, <3>1 DEF SlotsOf, Ends
    <3>3. \A q : Own(q) = {}
      BY <3>1 DEF Own
    <3>4. InFrame(0) = 0 /\ 0 .. Len(fns) = {0}
      BY <3>1, <3>2 DEF InFrame
    <3>5. Cardinality({}) = 0
      BY FS_EmptySet
    <3>6. 0 .. 0 - 1 = {}
      OBVIOUS
    <3> QED
      BY <3>3, <3>4, <3>5, <3>6 DEF SlotsDense
  <2> QED
    BY <2>2, <2>3
<1> QED
  BY <1>1, Invariance, PTL
=============================================================================
