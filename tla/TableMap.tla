------------------------------ MODULE TableMap ------------------------------
(***************************************************************************)
(* What a hash table of table.c promises its callers: a finite map from    *)
(* interned string objects to values.  The callers (globals in vm.c, the   *)
(* string pool in obj.c, the collector in gc.c) see nothing but the map    *)
(* and the result of each call, so that is the whole state.                *)
(*                                                                         *)
(* A string object is a Key.  Several objects may hold the same bytes      *)
(* (obj.c creates them, see Table), hence Text and Hash are functions of   *)
(* the object and lookup by bytes may choose among the objects that agree. *)
(***************************************************************************)
EXTENDS Naturals

CONSTANTS Keys,      \* string objects
          Values,    \* Lox values a table can hold
          Texts,     \* byte strings
          Absent,    \* not a value: the key is not in the map
          NoKey,     \* not a key: NULL
          Text,      \* Text[k]: the bytes of string object k
          Hash,      \* Hash[k]: the hash field of string object k
          TextHash   \* TextHash[t]: hashString of the bytes t

VARIABLES map,       \* map[k]: the value of k, or Absent
          ret        \* the last call that returned, with its result

vars == <<map, ret>>

(* What a call returned: its name, its argument and its result.            *)
Return(op, arg, result) == ret' = [op |-> op, arg |-> arg, result |-> result]

Present(k) == map[k] # Absent

(* The objects a lookup by bytes may answer with.                          *)
Matching(t) == {k \in Keys : Present(k) /\ Text[k] = t /\ Hash[k] = TextHash[t]}

Init == /\ map = [k \in Keys |-> Absent]
        /\ ret = [op |-> "init", arg |-> NoKey, result |-> FALSE]

Set(k, v) == /\ Return("set", k, ~Present(k))
             /\ map' = [map EXCEPT ![k] = v]

Get(k) == /\ Return("get", k, map[k])
          /\ UNCHANGED map

Delete(k) == /\ Return("delete", k, Present(k))
             /\ map' = [map EXCEPT ![k] = Absent]

FindString(t) == /\ \/ \E k \in Matching(t) : Return("find", t, k)
                    \/ Matching(t) = {} /\ Return("find", t, NoKey)
                 /\ UNCHANGED map

Next == \/ \E k \in Keys, v \in Values : Set(k, v)
        \/ \E k \in Keys : Get(k) \/ Delete(k)
        \/ \E t \in Texts : FindString(t)

Spec == Init /\ [][Next]_vars
=============================================================================
