------------------------------ MODULE Resolver -------------------------------
(***************************************************************************)
(* The scope resolver of resolve_scope.c: which slot, global or upvalue an *)
(* identifier becomes, and which variables each function captures.         *)
(*                                                                         *)
(* The resolver walks a syntax tree.  The tree is not a value here: it is  *)
(* chosen while it is walked, one action per scope, declaration or use of  *)
(* a name, so that all programs within the bounds are walked.  resolve()   *)
(* declares all names of a block before it walks the statements, hence an  *)
(* action that opens a scope chooses its declarations; todo holds those    *)
(* whose statement is still to come.  After an error the resolver stops.   *)
(*                                                                         *)
(* Indexes of scopes, functions and upvalues count from 1, slots from 0.   *)
(***************************************************************************)
EXTENDS Integers, Sequences, FiniteSets, FiniteSetsExt, SequencesExt

CONSTANTS Names,       \* identifiers
          Natives,     \* names defineNativeFunctions declares
          MaxScopes,   \* bound: scopes open at a time
          MaxDecls,    \* bound: declarations of a block, parameters
          MaxSymbols   \* bound: symbols in all open scopes

ASSUME NamesAssumption ==
  /\ Natives \subseteq Names /\ IsFiniteSet(Natives)
  /\ MaxScopes \in Nat \ {0} /\ {MaxDecls, MaxSymbols} \subseteq Nat

VARIABLES scopes,   \* resolver->current and its parents, innermost last
          fns,      \* resolver->current_fn and its parents, innermost last
          slot,     \* resolver->slot
          use,      \* the last name resolved in the current scope
          status    \* "start", "running" or the error

vars == <<scopes, fns, slot, use, status>>

Declaration == [kind : {"var", "fn"}, name : Names]
Symbol == [name : Names, slot : Int, captured : BOOLEAN]
Scope == [type : {"SCRIPT_TYPE", "BLOCK_TYPE", "FUNCTION_TYPE"},
          locals : Seq(Symbol), todo : Seq(Declaration)]
UpValue == [type : {"UVAL_LOC", "UVAL_UVAL"}, index : Nat]

(* An open function: the scope of its parameters, its upvalues and the     *)
(* slot to go on with when it ends.                                        *)
FnInfo == [scope : Nat, upvalues : Seq(UpValue), saved : Nat]

(* The symbol a name got and where its declaration is: <<scope, place>>.   *)
Use == [type : {"SYM_GLOB", "SYM_LOC", "SYM_UVAL"}, slot : Int, found : Nat \X Nat]
NoUse == [type |-> "SYM_GLOB", slot |-> -1, found |-> <<0, 0>>]

(* The lists of declarations or parameters the bounds leave room for.      *)
Room == MaxSymbols - MapThenSumSet(LAMBDA s : Len(scopes[s].locals), DOMAIN scopes)
Lists(S, room) == UNION {[1 .. n -> S] : n \in {m \in 0 .. MaxDecls : m <= room}}

Init == /\ scopes = <<>> /\ fns = <<>> /\ slot = 0
        /\ use = NoUse /\ status = "start"

Current == scopes[Len(scopes)]
Running == status = "running"
Reject(reason) == /\ status' = reason
                  /\ UNCHANGED <<scopes, fns, slot, use>>
-----------------------------------------------------------------------------
(* The first loop of resolve(): symbols for the declarations of a block.   *)
Repeats(decls, taken) ==
  \/ \E i \in DOMAIN decls : decls[i].name \in taken
  \/ \E i, j \in DOMAIN decls : i # j /\ decls[i].name = decls[j].name

NamesOf(decls) == [i \in DOMAIN decls |-> decls[i].name]
Symbols(names, first) ==
  [i \in DOMAIN names |-> [name |-> names[i], slot |-> first + i - 1, captured |-> FALSE]]

NewScope(type, locals, todo) == [type |-> type, locals |-> locals, todo |-> todo]

(* initResolver and the declarations of the script: globals have no slot.  *)
Script(decls) ==
  /\ status = "start"
  /\ LET names == SetToSeq(Natives) \o NamesOf(decls) IN
     IF Repeats(decls, Natives)
     THEN Reject("redeclared")
     ELSE /\ scopes' = <<NewScope("SCRIPT_TYPE",
                [i \in DOMAIN names |-> [name |-> names[i], slot |-> -1, captured |-> FALSE]],
                decls)>>
          /\ status' = "running"
          /\ UNCHANGED <<fns, slot, use>>

(* BLOCK_STMT.                                                             *)
Block(decls) ==
  /\ Running /\ Len(scopes) < MaxScopes
  /\ IF Repeats(decls, {})
     THEN Reject("redeclared")
     ELSE /\ scopes' = Append(scopes, NewScope("BLOCK_TYPE", Symbols(NamesOf(decls), slot), decls))
          /\ slot' = slot + Len(decls)
          /\ use' = NoUse
          /\ UNCHANGED <<fns, status>>

Walked(n) == [scopes EXCEPT ![n].todo = Tail(@)]

(* VAR_DECL, after its initial value.                                      *)
VarDecl ==
  /\ Running /\ Current.todo # <<>> /\ Head(Current.todo).kind = "var"
  /\ scopes' = Walked(Len(scopes))
  /\ UNCHANGED <<fns, slot, use, status>>

(* FN_DECL: a scope for the parameters, whose names may repeat, and in it  *)
(* the block of the body.                                                  *)
FnDecl(params, decls) ==
  /\ Running /\ Len(scopes) + 2 <= MaxScopes
  /\ Current.todo # <<>> /\ Head(Current.todo).kind = "fn"
  /\ IF Repeats(decls, {})
     THEN Reject("redeclared")
     ELSE /\ scopes' = Walked(Len(scopes)) \o
               << NewScope("FUNCTION_TYPE", Symbols(params, 0), <<>>),
                  NewScope("BLOCK_TYPE", Symbols(NamesOf(decls), Len(params)), decls) >>
          /\ fns' = Append(fns, [scope |-> Len(scopes) + 1, upvalues |-> <<>>, saved |-> slot])
          /\ slot' = Len(params) + Len(decls)
          /\ use' = NoUse
          /\ UNCHANGED status

(* endScope: the slots of the block are free again.                        *)
SlotAfterTwice == slot - 2 * Len(Current.locals)   \* mutant: freed twice
SlotAfterKept == slot   \* mutant: slots are not given back
SlotAfter == slot - Len(Current.locals)

IsBody == fns # <<>> /\ fns[Len(fns)].scope = Len(scopes) - 1

EndBlock ==
  /\ Running /\ Len(scopes) > 1 /\ Current.todo = <<>> /\ ~IsBody
  /\ scopes' = SubSeq(scopes, 1, Len(scopes) - 1)
  /\ slot' = SlotAfter
  /\ use' = NoUse
  /\ UNCHANGED <<fns, status>>

(* The end of the body ends the function too.                              *)
EndFunction ==
  /\ Running /\ Len(scopes) > 1 /\ Current.todo = <<>> /\ IsBody
  /\ scopes' = SubSeq(scopes, 1, Len(scopes) - 2)
  /\ slot' = fns[Len(fns)].saved
  /\ fns' = SubSeq(fns, 1, Len(fns) - 1)
  /\ use' = NoUse
  /\ UNCHANGED status
-----------------------------------------------------------------------------
(* scopeLookUpSymbol: the places of a name in a scope; the last counts.    *)
Places(s, name) == {i \in DOMAIN scopes[s].locals : scopes[s].locals[i].name = name}
Place(s, name) == Max(Places(s, name))

(* The function a scope is in, 0 for the script.                           *)
Level(s) == Cardinality({q \in DOMAIN fns : fns[q].scope <= s})

(* functionLookUpSymbol as resolveUpValue calls it, with the scope of the  *)
(* parameters: the functions around the current one that declare the name. *)
Owners(name) == {q \in 1 .. Len(fns) - 1 : Places(fns[q].scope, name) # {}}

NearestOutermost(S) == Min(S)   \* mutant: the search starts at the outside
Nearest(S) == Max(S)

(* fnInfoAddUpVal.                                                         *)
SameNever(ups, uv) == {}   \* mutant: no search for an existing upvalue
Same(ups, uv) == {i \in DOMAIN ups : ups[i] = uv}
IndexOf(ups, uv) == IF Same(ups, uv) = {} THEN Len(ups) + 1 ELSE Min(Same(ups, uv))
AddUpVal(ups, uv) == IF Same(ups, uv) = {} THEN Append(ups, uv) ELSE ups

(* VAR_EXPR, found in a scope s of the running function or of the script.  *)
UseNear(name, s) ==
  /\ s = 1 \/ Level(s) = Len(fns)
  /\ use' = [type |-> IF s = 1 THEN "SYM_GLOB" ELSE "SYM_LOC",
             slot |-> scopes[s].locals[Place(s, name)].slot,
             found |-> <<s, Place(s, name)>>]
  /\ UNCHANGED <<scopes, fns, slot, status>>

(* The index by which each function takes over the upvalue of its parent.  *)
PassedOnLast(ups, uv) == Len(ups)   \* mutant: the number before it is added
PassedOn(ups, uv) == IndexOf(ups, uv)

(* What resolveUpValue finds for each function inside the owner of the     *)
(* parameter in a slot: the parameter itself, then its parent's upvalue.   *)
Captures(owner, param) ==
  LET uv[q \in owner + 1 .. Len(fns)] ==
        IF q = owner + 1
        THEN [type |-> "UVAL_LOC", index |-> param]
        ELSE [type |-> "UVAL_UVAL", index |-> PassedOn(fns[q - 1].upvalues, uv[q - 1])]
  IN  uv

(* VAR_EXPR, found across a function: resolveUpValue.  From the nearest    *)
(* function with such a parameter each function passes it on to the next.  *)
UseFar(name, s) ==
  /\ s # 1 /\ Level(s) # Len(fns)
  /\ IF Owners(name) = {}
     THEN Reject("upvalue")
     ELSE LET owner == Nearest(Owners(name))
              place == Place(fns[owner].scope, name)
              uv == Captures(owner, scopes[fns[owner].scope].locals[place].slot)
          IN  /\ fns' = [q \in DOMAIN fns |->
                           IF q <= owner THEN fns[q]
                           ELSE [fns[q] EXCEPT !.upvalues = AddUpVal(@, uv[q])]]
              /\ scopes' = [scopes EXCEPT ![fns[owner].scope].locals[place].captured = TRUE]
              /\ use' = [type |-> "SYM_UVAL",
                         slot |-> IndexOf(fns[Len(fns)].upvalues, uv[Len(fns)]),
                         found |-> <<s, Place(s, name)>>]
              /\ UNCHANGED <<slot, status>>

(* lookUpSymbol: the innermost scope with the name.                        *)
Resolve(name) ==
  /\ Running
  /\ LET with == {s \in DOMAIN scopes : Places(s, name) # {}}
     IN  IF with = {} THEN Reject("unknown")
         ELSE UseNear(name, Max(with)) \/ UseFar(name, Max(with))

Next == \/ \E decls \in Lists(Declaration, Room) : Script(decls) \/ Block(decls)
        \/ \E params \in Lists(Names, Room) :
             \E decls \in Lists(Declaration, Room - Len(params)) : FnDecl(params, decls)
        \/ VarDecl \/ EndBlock \/ EndFunction
        \/ \E name \in Names : Resolve(name)

Spec == Init /\ [][Next]_vars
-----------------------------------------------------------------------------
(* Properties.                                                             *)

(* The variables have their types.                                         *)
TypeOK ==
  /\ scopes \in Seq(Scope) /\ fns \in Seq(FnInfo)
  /\ slot \in Nat
  /\ use \in Use
  /\ status \in {"start", "running", "redeclared", "unknown", "upvalue"}
  /\ status = "running" => scopes # <<>>

(* The symbols of function q (0: the blocks of the script), and the number *)
(* of slots it has in use.                                                 *)
Own(q) == UNION {{<<s, i>> : i \in DOMAIN scopes[s].locals} :
                  s \in {t \in 2 .. Len(scopes) : Level(t) = q}}
InFrame(q) == IF q = Len(fns) THEN slot ELSE fns[q + 1].saved
SlotOf(p) == scopes[p[1]].locals[p[2]].slot

(* The visible locals of a function have the slots 0, 1, 2, ..., each its  *)
(* own, whatever blocks and functions were opened and ended before: two    *)
(* locals never share a cell of the frame.                                 *)
SlotsDense ==
  \A q \in 0 .. Len(fns) :
    /\ Cardinality(Own(q)) = InFrame(q)
    /\ {SlotOf(p) : p \in Own(q)} = 0 .. InFrame(q) - 1

(* What OP_CLOSURE and OP_LOAD_UVAL use without a check of their own: an   *)
(* upvalue is a parameter of the parent, marked as captured, or one of the *)
(* parent's upvalues; a function of the script has none.                   *)
ChainsGrounded ==
  \A q \in DOMAIN fns : \A i \in DOMAIN fns[q].upvalues :
    LET uv == fns[q].upvalues[i] IN
    /\ q > 1
    /\ uv.type = "UVAL_LOC" =>
         \E p \in DOMAIN scopes[fns[q - 1].scope].locals :
           LET param == scopes[fns[q - 1].scope].locals[p]
           IN  param.slot = uv.index /\ param.captured
    /\ uv.type = "UVAL_UVAL" => uv.index \in DOMAIN fns[q - 1].upvalues

(* Variable[q][i]: the declaration upvalue i of function q stands for.     *)
Variable[q \in DOMAIN fns] ==
  [i \in DOMAIN fns[q].upvalues |->
     LET uv == fns[q].upvalues[i]
     IN  IF uv.type = "UVAL_LOC" THEN <<fns[q - 1].scope, uv.index + 1>>
         ELSE Variable[q - 1][uv.index]]

(* A function has one upvalue for a variable, however often it uses it     *)
(* itself or hands it on to functions inside it.                           *)
OneUpvaluePerVariable ==
  \A q \in DOMAIN fns : \A i, j \in DOMAIN fns[q].upvalues :
    Variable[q][i] = Variable[q][j] => i = j

(* A parameter of an enclosing function that lexical scoping finds is the  *)
(* one captured, through any number of functions in between, also when     *)
(* other functions have parameters of the same name.                       *)
ParametersCaptured ==
  (use.type = "SYM_UVAL" /\ scopes[use.found[1]].type = "FUNCTION_TYPE") =>
    Variable[Len(fns)][use.slot] = use.found

(* The comments in resolveUpValue, "parent owns the local variable" and    *)
(* "parent doesnt own the local variable", of a local that lookUpSymbol    *)
(* found: the same for every local of an enclosing function.               *)
LocalsCaptured ==
  use.type = "SYM_UVAL" => Variable[Len(fns)][use.slot] = use.found
=============================================================================
