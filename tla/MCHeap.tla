------------------------------- MODULE MCHeap --------------------------------
(***************************************************************************)
(* Heap for TLC: every string and function is a constant of the script.    *)
(***************************************************************************)
EXTENDS Heap

CONSTANT Fresh   \* addresses not used by the compiler

MCConstants == [c \in Functions \cup {Script} |-> IF c = Script THEN Strings \cup Functions ELSE Strings]
MCSize == [k \in Kinds |-> IF k = "array" THEN 2 ELSE 1]
MCFreshElements == {{o} : o \in Fresh}
=============================================================================
