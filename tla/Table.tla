------------------------------- MODULE Table --------------------------------
(***************************************************************************)
(* The open-addressing hash table of table.c, used for the globals of the  *)
(* VM and for the pool of strings.                                         *)
(*                                                                         *)
(* A bucket whose key is NULL is either empty (value NIL) or a tombstone   *)
(* (value true) left by tableDelete.  Every search walks the buckets from  *)
(* the key's home until it meets the key or an empty bucket: nothing else  *)
(* ends the loop, so the table is correct only while an empty bucket is    *)
(* left and every key can be reached from its home over non-empty buckets. *)
(*                                                                         *)
(* A search is one expression here (the bucket the loop stops at).  The    *)
(* rehash of adjustCapacity is a loop of its own steps, Move, so that what *)
(* holds half way is stated too; no other call runs in between, since      *)
(* table.c calls nobody.                                                   *)
(***************************************************************************)
EXTENDS Integers, FiniteSets

CONSTANTS Keys, Values, Texts, Absent, NoKey, Text, Hash, TextHash,
          Nil,           \* VALUE_NIL
          True,          \* VALUE_BOOL(true), the value of a tombstone
          MinCapacity,   \* the first capacity, 8 in memory.c
          MaxCapacity    \* bound: tables larger than this are not explored

ASSUME KeysAssumption ==
  /\ NoKey \notin Keys
  /\ Absent \notin Values
  /\ Nil \in Values /\ True \in Values /\ Nil # True
  /\ Text \in [Keys -> Texts]
  /\ Hash \in [Keys -> Nat]
  /\ TextHash \in [Texts -> Nat]

ASSUME CapacityAssumption ==
  /\ MinCapacity \in Nat /\ MinCapacity >= 2
  /\ MaxCapacity \in Nat

VARIABLES entries,    \* table->entries, a function on 0 .. capacity-1
          capacity,   \* table->capacity
          count,      \* table->count
          fresh,      \* the entries adjustCapacity is filling
          cursor,     \* its loop variable i
          pending,    \* the key and value of the tableSet in progress
          pc,         \* "idle", or where that tableSet is
          ret         \* the last call that returned, with its result

vars == <<entries, capacity, count, fresh, cursor, pending, pc, ret>>

Entry == [key : Keys \cup {NoKey}, value : Values]
EmptyEntry == [key |-> NoKey, value |-> Nil]
TombstoneAsEmpty == EmptyEntry   \* mutant: a deleted bucket is an empty one
Tombstone == [key |-> NoKey, value |-> True]
Buckets(c) == [0 .. c - 1 -> Entry]
EmptyFromOne(c) == [i \in 1 .. c |-> EmptyEntry]   \* mutant: indexed from 1
EmptyBuckets(c) == [i \in 0 .. c - 1 |-> EmptyEntry]
NoBuckets == EmptyBuckets(0)
NoPending == [key |-> NoKey, value |-> Nil]

-----------------------------------------------------------------------------
(* growCapacity of memory.c.                                               *)
GrowCapacity(c) == IF c < MinCapacity THEN MinCapacity ELSE 2 * c

(* Mutant: the table grows only when it is full.                           *)
OverloadedWhenFull == count >= capacity

(* TABLE_MAX_LOAD is 0.8: would one more entry exceed it?                  *)
Overloaded == 5 * (count + 1) > 4 * capacity

IsEmpty(e) == e.key = NoKey /\ e.value = Nil

(* The bucket d steps after the home bucket of hash h.                     *)
Home(h, c) == h % c
Probe(h, c, d) == IF Home(h, c) + d < c THEN Home(h, c) + d
                                        ELSE Home(h, c) + d - c

(* Mutant: a tombstone ends the search of findEntry.                       *)
StopsAtTombstone(b, c, k) ==
  {d \in 0 .. c - 1 : b[Probe(Hash[k], c, d)].key \in {k, NoKey}}

(* The number of steps after which the loop of findEntry stops for k.      *)
Stops(b, c, k) == {d \in 0 .. c - 1 : \/ b[Probe(Hash[k], c, d)].key = k
                                      \/ IsEmpty(b[Probe(Hash[k], c, d)])}
Least(S) == CHOOSE d \in S : \A e \in S : d <= e

(* The tombstones passed in the first n steps.                             *)
Passed(b, c, k, n) == {d \in 0 .. n - 1 : b[Probe(Hash[k], c, d)].key = NoKey}

(* findEntry: the bucket of k or, when k is absent, the first bucket on    *)
(* its path that can hold it.                                              *)
FindEntry(b, c, k) ==
  LET stop == Least(Stops(b, c, k))
      tombs == Passed(b, c, k, stop)
  IN  Probe(Hash[k], c,
            IF b[Probe(Hash[k], c, stop)].key = k \/ tombs = {}
            THEN stop ELSE Least(tombs))

(* Mutant: a tombstone ends the search of tableFindString.                 *)
StringStopsAtTombstone(t) ==
  {d \in 0 .. capacity - 1 :
     LET e == entries[Probe(TextHash[t], capacity, d)] IN
     \/ e.key = NoKey
     \/ Text[e.key] = t /\ Hash[e.key] = TextHash[t]}

(* The steps at which the loop of tableFindString stops for the bytes t.   *)
StringStops(t) ==
  {d \in 0 .. capacity - 1 :
     LET e == entries[Probe(TextHash[t], capacity, d)] IN
     \/ IsEmpty(e)
     \/ e.key # NoKey /\ Text[e.key] = t /\ Hash[e.key] = TextHash[t]}
-----------------------------------------------------------------------------
Return(op, arg, result) == ret' = [op |-> op, arg |-> arg, result |-> result]

Init == /\ entries = NoBuckets /\ capacity = 0 /\ count = 0
        /\ fresh = NoBuckets /\ cursor = 0
        /\ pending = NoPending /\ pc = "idle"
        /\ ret = [op |-> "init", arg |-> NoKey, result |-> FALSE]

(* tableSet up to the load test; adjustCapacity allocates empty buckets    *)
(* and resets the count when the test says so.                             *)
SetBegin(k, v) ==
  /\ pc = "idle"
  /\ pending' = [key |-> k, value |-> v]
  /\ \/ /\ Overloaded
        /\ GrowCapacity(capacity) <= MaxCapacity
        /\ fresh' = EmptyBuckets(GrowCapacity(capacity))
        /\ cursor' = 0 /\ count' = 0
        /\ pc' = "rehash"
     \/ /\ ~Overloaded
        /\ pc' = "store"
        /\ UNCHANGED <<fresh, cursor, count>>
  /\ UNCHANGED <<entries, capacity, ret>>

(* Mutant: each entry goes to its home bucket, whoever is there.           *)
DestinationHome(k) == Home(Hash[k], GrowCapacity(capacity))
Destination(k) == FindEntry(fresh, GrowCapacity(capacity), k)

(* Mutant: the `continue` of the loop does not advance i.                  *)
AdvanceUnlessSkipped == IF entries[cursor].key = NoKey THEN cursor ELSE cursor + 1
Advance == cursor + 1

(* One turn of the loop of adjustCapacity.                                 *)
Move ==
  /\ pc = "rehash" /\ cursor < capacity
  /\ LET e == entries[cursor] IN
     \/ /\ e.key # NoKey
        /\ fresh' = [fresh EXCEPT ![Destination(e.key)] = e]
        /\ count' = count + 1
     \/ /\ e.key = NoKey
        /\ UNCHANGED <<fresh, count>>
  /\ cursor' = Advance
  /\ UNCHANGED <<entries, capacity, pending, pc, ret>>

(* The end of adjustCapacity: the new buckets replace the old ones.        *)
Swap ==
  /\ pc = "rehash" /\ cursor = capacity
  /\ entries' = fresh
  /\ capacity' = GrowCapacity(capacity)
  /\ fresh' = NoBuckets /\ cursor' = 0
  /\ pc' = "store"
  /\ UNCHANGED <<count, pending, ret>>

(* Does storing in this bucket use a bucket more?  Mutant: each new key    *)
(* does, also in a reused tombstone.                                       *)
UsesOneMoreWhenNew(e) == e.key = NoKey
UsesOneMore(e) == IsEmpty(e)

(* The rest of tableSet: a reused tombstone is already counted.            *)
Store ==
  /\ pc = "store"
  /\ LET i == FindEntry(entries, capacity, pending.key)
         isNewKey == entries[i].key = NoKey
     IN  /\ entries' = [entries EXCEPT ![i] = pending]
         /\ count' = IF UsesOneMore(entries[i]) THEN count + 1 ELSE count
         /\ Return("set", pending.key, isNewKey)
  /\ pending' = NoPending /\ pc' = "idle"
  /\ UNCHANGED <<capacity, fresh, cursor>>

Lookup(k) == entries[FindEntry(entries, capacity, k)]

(* tableGet.                                                               *)
Get(k) ==
  /\ pc = "idle"
  /\ Return("get", k, IF count = 0 \/ Lookup(k).key = NoKey
                      THEN Absent ELSE Lookup(k).value)
  /\ UNCHANGED <<entries, capacity, count, fresh, cursor, pending, pc>>

(* tableDelete: the bucket becomes a tombstone and stays counted.          *)
Delete(k) ==
  /\ pc = "idle"
  /\ LET found == count # 0 /\ Lookup(k).key # NoKey
     IN  /\ entries' = IF found
                       THEN [entries EXCEPT ![FindEntry(entries, capacity, k)] = Tombstone]
                       ELSE entries
         /\ Return("delete", k, found)
  /\ UNCHANGED <<capacity, count, fresh, cursor, pending, pc>>

(* tableFindString.                                                        *)
FindString(t) ==
  /\ pc = "idle"
  /\ Return("find", t,
            IF count = 0 \/ capacity = 0 THEN NoKey
            ELSE entries[Probe(TextHash[t], capacity, Least(StringStops(t)))].key)
  /\ UNCHANGED <<entries, capacity, count, fresh, cursor, pending, pc>>

SetStep == Move \/ Swap \/ Store

Next == \/ \E k \in Keys, v \in Values : SetBegin(k, v)
        \/ SetStep
        \/ \E k \in Keys : Get(k) \/ Delete(k)
        \/ \E t \in Texts : FindString(t)

Spec == Init /\ [][Next]_vars

(* A tableSet runs to its end: nothing suspends the thread.                *)
FairSpec == Spec /\ WF_vars(SetStep)
-----------------------------------------------------------------------------
(* Properties.                                                             *)

Filled(b, c) == {i \in 0 .. c - 1 : ~IsEmpty(b[i])}
Live(b, c) == {i \in 0 .. c - 1 : b[i].key # NoKey}

(* The variables have their types; fresh has the capacity table.c grows to *)
(* while it is filled and does not exist otherwise.                        *)
TypeOK ==
  /\ capacity \in Nat /\ (capacity = 0 \/ capacity >= MinCapacity)
  /\ entries \in Buckets(capacity)
  /\ count \in Nat
  /\ pc \in {"idle", "rehash", "store"}
  /\ pending \in Entry
  /\ (pc = "idle") <=> (pending.key = NoKey)
  /\ cursor \in 0 .. capacity
  /\ IF pc = "rehash" THEN fresh \in Buckets(GrowCapacity(capacity))
                      ELSE fresh = NoBuckets /\ cursor = 0

(* table->count is the number of buckets in use, tombstones included: the  *)
(* load test of tableSet is about these, and a count that drifts from them *)
(* lets the table fill up.                                                 *)
CountExact ==
  count = IF pc = "rehash"
          THEN Cardinality(Filled(fresh, GrowCapacity(capacity)))
          ELSE Cardinality(Filled(entries, capacity))

HasEmpty(b, c) == \E i \in 0 .. c - 1 : IsEmpty(b[i])

(* The loops of findEntry and tableFindString have no other way out: the   *)
(* array they search always has an empty bucket, also while adjustCapacity *)
(* fills the new one.                                                      *)
EmptyBucketLeft ==
  /\ capacity > 0 => HasEmpty(entries, capacity)
  /\ pc = "rehash" => HasEmpty(fresh, GrowCapacity(capacity))
  /\ pc = "store" => capacity > 0

(* No key has two buckets in an array.                                     *)
Unique(b, c) == \A i, j \in Live(b, c) : b[i].key = b[j].key => i = j

(* tableSet and the rehash never give a key a second bucket, although a    *)
(* key may have been deleted and re-inserted in front of its old place.    *)
OneBucketPerKey ==
  Unique(entries, capacity) /\ (pc = "rehash" => Unique(fresh, GrowCapacity(capacity)))

(* Bucket i is at a distance from the home of its key that a search gets   *)
(* to: every bucket before it is in use.                                   *)
ReachableAt(b, c, i) ==
  \E d \in 0 .. c - 1 :
     /\ Probe(Hash[b[i].key], c, d) = i
     /\ \A e \in 0 .. d - 1 : ~IsEmpty(b[Probe(Hash[b[i].key], c, e)])

Reachable(b, c) == \A i \in Live(b, c) : ReachableAt(b, c, i)

(* Every key in the table is found from its hash whatever was inserted and *)
(* deleted before: a tombstone keeps the paths that run over it.           *)
KeysReachable ==
  Reachable(entries, capacity) /\ (pc = "rehash" => Reachable(fresh, GrowCapacity(capacity)))

Pairs(b, S) == {b[i] : i \in S}

(* Half way through adjustCapacity the new array holds exactly the pairs   *)
(* of the buckets already visited: none lost, none overwritten.            *)
RehashKeepsPairs ==
  pc = "rehash" =>
    Pairs(fresh, Live(fresh, GrowCapacity(capacity)))
      = Pairs(entries, Live(entries, capacity) \cap (0 .. cursor - 1))

(* Each tableSet returns, the rehash included.                             *)
SetReturns == (pc # "idle") ~> (pc = "idle")

(* The map the table stands for.                                           *)
AbsMap == [k \in Keys |->
             IF \E i \in 0 .. capacity - 1 : entries[i].key = k
             THEN entries[CHOOSE i \in 0 .. capacity - 1 : entries[i].key = k].value
             ELSE Absent]

Map == INSTANCE TableMap WITH map <- AbsMap

(* The table answers every call as the map does: a rehash changes nothing  *)
(* a caller can see, and a tableSet takes effect when it stores.           *)
ImplementsMap == Map!Spec
=============================================================================
