-------------------------------- MODULE MCVM ---------------------------------
(***************************************************************************)
(* VM with nested functions: f(x) of the script; in f the functions g,     *)
(* over a local of f and then x, which lies below it, and k, over x alone; *)
(* in k the function h, over the same x handed on through k.  Functions    *)
(* serve as the values that are not numbers.  The global x is undefined at *)
(* first and y holds a native, as after initVM.                            *)
(***************************************************************************)
EXTENDS VM, TLC

CONSTANTS f, g, h, k, p, x, y

MCArity == [q \in Fns \cup Natives |-> IF q \in {f, p} THEN 1 ELSE 0]
MCParent == [q \in Fns |-> CASE q = f -> Script [] q \in {g, k} -> f [] q = h -> k]
MCCaptures ==
  [q \in Fns |->
     CASE q = f -> <<>>
       [] q = g -> <<[type |-> "UVAL_LOC", index |-> 1], [type |-> "UVAL_LOC", index |-> 0]>>
       [] q = k -> <<[type |-> "UVAL_LOC", index |-> 0]>>
       [] q = h -> <<[type |-> "UVAL_UVAL", index |-> 1]>>]
MCBuiltin == [v \in Globals |-> IF v = y THEN p ELSE NULL]

(* Bound: nested functions and deep stacks while the globals are as initVM *)
(* left them and no native is on the stack; two frames, three cells and    *)
(* closures of k otherwise.                                                *)
Escaping == globals # Builtin \/ \E i \in DOMAIN stack : stack[i] \in Natives
Instance == Escaping => /\ Len(frames) <= 2 /\ Len(stack) <= 3
                        /\ \A c \in Closures : closure[c] # NULL => closure[c].prototype = k

(* op says what the last step did; no step and no invariant reads it.       *)
View == <<stack, frames, globals, closure, upvalue, open, building, status>>

Symmetry == Permutations(Closures) \cup Permutations(UpValues)
=============================================================================
