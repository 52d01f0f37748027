---------------------------- MODULE Table_proofs -----------------------------
(***************************************************************************)
(* Proofs about Table, for all keys, hashes and capacities.                *)
(*                                                                         *)
(* No table.c loop that searches has a way out but the key or an empty     *)
(* bucket, so the invariant is about three things at once: the number of   *)
(* buckets in use stays below the capacity (so there is an empty one), a   *)
(* key is never further from its home than the first empty bucket (so the  *)
(* search meets it), and therefore no key is stored twice.  Each needs the *)
(* others, which is why they are proved together, as Inv.                  *)
(***************************************************************************)
EXTENDS Table, FiniteSetTheorems, WellFoundedInduction, TLAPS

-----------------------------------------------------------------------------
(* Searching an array of buckets.                                          *)

(* A non-empty set of naturals has a least element, and Least is it.       *)
LEMMA LeastOf ==
  ASSUME NEW S, S \subseteq Nat, S # {}
  PROVE  Least(S) \in S /\ \A e \in S : Least(S) <= e
<1>1. \E d \in S : \A e \in S : ~ (<<e, d>> \in OpToRel(<, Nat))
  BY WFMin, NatLessThanWellFounded, Zenon
<1>2. \E d \in S : \A e \in S : d <= e
  <2>1. PICK d \in S : \A e \in S : ~ (<<e, d>> \in OpToRel(<, Nat))
    BY <1>1
  <2>2. ASSUME NEW e \in S, e < d
        PROVE  <<e, d>> \in OpToRel(<, Nat)
    <3>1. e \in Nat /\ d \in Nat
      OBVIOUS
    <3>2. <<e, d>> \in Nat \X Nat /\ <<e, d>>[1] = e /\ <<e, d>>[2] = d
      BY <3>1
    <3> QED
      BY <2>2, <3>2, Zenon DEF OpToRel
  <2>3. \A e \in S : ~ (e < d)
    BY <2>1, <2>2, Zenon
  <2>4. \A e \in S : d <= e
    BY <2>3
  <2> QED
    BY <2>4
<1> QED
  BY <1>2 DEF Least

(* The probes of one hash stay in the array and meet each bucket.          *)
LEMMA HomeInRange ==
  ASSUME NEW h \in Nat, NEW c \in Nat \ {0}
  PROVE  Home(h, c) \in 0 .. c - 1
BY DEF Home

LEMMA ProbeInRange ==
  ASSUME NEW h \in Nat, NEW c \in Nat \ {0}, NEW d \in 0 .. c - 1
  PROVE  Probe(h, c, d) \in 0 .. c - 1
BY HomeInRange DEF Probe

LEMMA ProbeMeetsAll ==
  ASSUME NEW h \in Nat, NEW c \in Nat \ {0}, NEW i \in 0 .. c - 1
  PROVE  \E d \in 0 .. c - 1 : Probe(h, c, d) = i
<1> DEFINE d == IF i >= Home(h, c) THEN i - Home(h, c) ELSE i - Home(h, c) + c
<1>1. d \in 0 .. c - 1
  BY HomeInRange
<1>2. Probe(h, c, d) = i
  BY HomeInRange DEF Probe
<1> QED
  BY <1>1, <1>2

(* Bucket i is met by a search for k, all buckets before it being in use.  *)
PathTo(b, c, k, i) ==
  \E d \in 0 .. c - 1 :
     /\ Probe(Hash[k], c, d) = i
     /\ \A e \in 0 .. d - 1 : ~IsEmpty(b[Probe(Hash[k], c, e)])

(* findEntry ends when there is an empty bucket, at a bucket of k or of    *)
(* nobody, on the path of k; and it finds k if the table has it.           *)
LEMMA FindEntryFinds ==
  ASSUME NEW c \in Nat \ {0}, NEW b \in Buckets(c), NEW k \in Keys, HasEmpty(b, c)
  PROVE  /\ FindEntry(b, c, k) \in 0 .. c - 1
         /\ PathTo(b, c, k, FindEntry(b, c, k))
         /\ b[FindEntry(b, c, k)].key \in {k, NoKey}
         /\ Reachable(b, c) /\ b[FindEntry(b, c, k)].key # k
              => \A j \in 0 .. c - 1 : b[j].key # k
<1> DEFINE P(d) == Probe(Hash[k], c, d)
           stop == Least(Stops(b, c, k))
           tombs == Passed(b, c, k, stop)
           goal == IF b[P(stop)].key = k \/ tombs = {} THEN stop ELSE Least(tombs)
<1>0. Hash[k] \in Nat
  BY KeysAssumption
<1>1. \A d \in 0 .. c - 1 : P(d) \in 0 .. c - 1
  BY <1>0, ProbeInRange
<1>2. Stops(b, c, k) # {}
  <2>1. PICK i \in 0 .. c - 1 : IsEmpty(b[i])
    BY DEF HasEmpty
  <2>2. PICK d \in 0 .. c - 1 : P(d) = i
    BY <1>0, ProbeMeetsAll
  <2> QED
    BY <2>1, <2>2 DEF Stops
<1>3. Stops(b, c, k) \subseteq Nat
  BY DEF Stops
<1>4. stop \in Stops(b, c, k) /\ \A e \in Stops(b, c, k) : stop <= e
  BY <1>2, <1>3, LeastOf
<1>5. /\ stop \in 0 .. c - 1
      /\ b[P(stop)].key = k \/ IsEmpty(b[P(stop)])
  BY <1>4 DEF Stops
<1>6. \A e \in 0 .. stop - 1 : b[P(e)].key # k /\ ~IsEmpty(b[P(e)])
  BY <1>4, <1>5 DEF Stops
<1>7. tombs # {} => Least(tombs) \in tombs
  <2>1. tombs \subseteq Nat
    BY <1>5 DEF Passed
  <2> QED
    BY <2>1, LeastOf
<1>8. goal \in 0 .. stop /\ b[P(goal)].key \in {k, NoKey}
  <2>1. CASE b[P(stop)].key = k \/ tombs = {}
    BY <2>1, <1>5 DEF IsEmpty
  <2>2. CASE ~(b[P(stop)].key = k \/ tombs = {})
    <3>1. Least(tombs) \in tombs
      BY <2>2, <1>7
    <3> QED
      BY <2>2, <3>1, <1>5 DEF Passed
  <2> QED
    BY <2>1, <2>2
<1>9. goal \in 0 .. c - 1 /\ FindEntry(b, c, k) = P(goal)
  BY <1>5, <1>8 DEF FindEntry
<1>10. PathTo(b, c, k, P(goal))
  BY <1>5, <1>6, <1>8, <1>9 DEF PathTo
<1>11. ASSUME Reachable(b, c), NEW j \in 0 .. c - 1, b[j].key = k
       PROVE  b[P(goal)].key = k
  <2>1. k # NoKey
    BY KeysAssumption
  <2>2. PICK d \in 0 .. c - 1 : P(d) = j /\ \A e \in 0 .. d - 1 : ~IsEmpty(b[P(e)])
    BY <1>11, <2>1 DEF Reachable, ReachableAt, Live
  <2>3. stop <= d
    BY <1>4, <1>11, <2>2 DEF Stops
  <2>4. b[P(stop)].key = k
    BY <1>5, <1>11, <2>2, <2>3
  <2> QED
    BY <2>4
<1> QED
  BY <1>1, <1>8, <1>9, <1>10, <1>11
-----------------------------------------------------------------------------
(* Counting buckets.                                                       *)

LEMMA FilledFinite ==
  ASSUME NEW c \in Nat, NEW b
  PROVE  /\ IsFiniteSet(Filled(b, c)) /\ Cardinality(Filled(b, c)) \in 0 .. c
         /\ Cardinality(Filled(b, c)) < c => HasEmpty(b, c)
<1>1. IsFiniteSet(0 .. c - 1) /\ Cardinality(0 .. c - 1) = c
  BY FS_Interval
<1>2. Filled(b, c) \subseteq 0 .. c - 1
  BY DEF Filled
<1>3. /\ IsFiniteSet(Filled(b, c)) /\ Cardinality(Filled(b, c)) <= c
      /\ Cardinality(Filled(b, c)) = c => Filled(b, c) = 0 .. c - 1
  BY <1>1, <1>2, FS_Subset
<1>4. Cardinality(Filled(b, c)) \in Nat
  BY <1>3, FS_CardinalityType
<1>5. ~HasEmpty(b, c) => Filled(b, c) = 0 .. c - 1
  BY DEF HasEmpty, Filled
<1> QED
  BY <1>1, <1>3, <1>4, <1>5

(* New arrays are empty.                                                   *)
LEMMA EmptyArray ==
  ASSUME NEW c \in Nat
  PROVE  /\ EmptyBuckets(c) \in Buckets(c)
         /\ Filled(EmptyBuckets(c), c) = {} /\ Cardinality(Filled(EmptyBuckets(c), c)) = 0
         /\ Live(EmptyBuckets(c), c) = {}
         /\ Unique(EmptyBuckets(c), c) /\ Reachable(EmptyBuckets(c), c)
         /\ c > 0 => HasEmpty(EmptyBuckets(c), c)
<1>1. EmptyBuckets(c) \in Buckets(c)
  BY KeysAssumption DEF EmptyBuckets, Buckets, Entry, EmptyEntry
<1>2. Filled(EmptyBuckets(c), c) = {} /\ Live(EmptyBuckets(c), c) = {}
  BY DEF EmptyBuckets, Filled, Live, EmptyEntry, IsEmpty
<1>3. Unique(EmptyBuckets(c), c) /\ Reachable(EmptyBuckets(c), c)
  BY <1>2 DEF Unique, Reachable
<1>4. c > 0 => HasEmpty(EmptyBuckets(c), c)
  <2>1. c > 0 => 0 \in 0 .. c - 1 /\ IsEmpty(EmptyBuckets(c)[0])
    BY DEF EmptyBuckets, EmptyEntry, IsEmpty
  <2> QED
    BY <2>1 DEF HasEmpty
<1> QED
  BY <1>1, <1>2, <1>3, <1>4, FS_EmptySet

(* An entry put where findEntry says keeps the array searchable, and uses  *)
(* a bucket more exactly when that one was empty.                          *)
LEMMA PutEntry ==
  ASSUME NEW c \in Nat \ {0}, NEW b \in Buckets(c), HasEmpty(b, c),
         Unique(b, c), Reachable(b, c),
         NEW e \in Entry, e.key \in Keys,
         NEW b2, b2 = [b EXCEPT ![FindEntry(b, c, e.key)] = e]
  PROVE  /\ b2 \in Buckets(c)
         /\ Unique(b2, c) /\ Reachable(b2, c)
         /\ Cardinality(Filled(b2, c)) =
              IF IsEmpty(b[FindEntry(b, c, e.key)])
              THEN Cardinality(Filled(b, c)) + 1 ELSE Cardinality(Filled(b, c))
         /\ Live(b2, c) = Live(b, c) \cup {FindEntry(b, c, e.key)}
<1> DEFINE i == FindEntry(b, c, e.key)
<1> HIDE DEF i
<1>1. /\ i \in 0 .. c - 1 /\ PathTo(b, c, e.key, i) /\ b[i].key \in {e.key, NoKey}
      /\ b[i].key # e.key => \A j \in 0 .. c - 1 : b[j].key # e.key
  BY FindEntryFinds DEF i
<1>2. e.key # NoKey /\ ~IsEmpty(e)
  BY KeysAssumption DEF IsEmpty
<1>3. /\ b2 \in Buckets(c)
      /\ b2[i] = e /\ \A j \in (0 .. c - 1) \ {i} : b2[j] = b[j]
  BY <1>1 DEF Buckets, i
<1>4. \A j \in 0 .. c - 1 : IsEmpty(b2[j]) => IsEmpty(b[j])
  BY <1>2, <1>3
<1>5. Unique(b2, c)
  <2> SUFFICES ASSUME NEW j \in Live(b2, c), NEW m \in Live(b2, c), b2[j].key = b2[m].key
               PROVE  j = m
    BY DEF Unique
  <2>0. j \in 0 .. c - 1 /\ m \in 0 .. c - 1
    BY DEF Live
  <2>1. CASE j # i /\ m # i
    BY <2>0, <2>1, <1>3 DEF Unique, Live
  <2>2. CASE j = i /\ m # i
    <3>1. b[m].key = e.key /\ b[i].key = e.key
      BY <2>0, <2>2, <1>1, <1>3
    <3> QED
      BY <2>0, <2>2, <3>1, <1>1, <1>2 DEF Unique, Live
  <2>3. CASE j # i /\ m = i
    <3>1. b[j].key = e.key /\ b[i].key = e.key
      BY <2>0, <2>3, <1>1, <1>3
    <3> QED
      BY <2>0, <2>3, <3>1, <1>1, <1>2 DEF Unique, Live
  <2> QED
    BY <2>1, <2>2, <2>3
<1>6. Reachable(b2, c)
  <2> SUFFICES ASSUME NEW j \in Live(b2, c)
               PROVE  ReachableAt(b2, c, j)
    BY DEF Reachable
  <2>0. j \in 0 .. c - 1 /\ b2[j].key # NoKey
    BY DEF Live
  <2>1. PathTo(b, c, b2[j].key, j)
    <3>1. CASE j = i
      BY <3>1, <1>1, <1>3
    <3>2. CASE j # i
      BY <2>0, <3>2, <1>3 DEF Live, Reachable, ReachableAt, PathTo
    <3> QED
      BY <3>1, <3>2
  <2> DEFINE h == Hash[b2[j].key]
  <2>2. PICK d \in 0 .. c - 1 : /\ Probe(h, c, d) = j
                                /\ \A f \in 0 .. d - 1 : ~IsEmpty(b[Probe(h, c, f)])
    BY <2>1 DEF PathTo
  <2>3. h \in Nat
    BY <2>0, <1>3, KeysAssumption DEF Buckets, Entry
  <2>4. ASSUME NEW f \in 0 .. d - 1
        PROVE  ~IsEmpty(b2[Probe(h, c, f)])
    <3> HIDE DEF h
    <3>1. Probe(h, c, f) \in 0 .. c - 1
      BY <2>3, ProbeInRange
    <3> QED
      BY <3>1, <2>2, <1>4
  <2> QED
    BY <2>2, <2>4 DEF ReachableAt
<1>7. Filled(b2, c) = Filled(b, c) \cup {i} /\ Live(b2, c) = Live(b, c) \cup {i}
  BY <1>1, <1>2, <1>3 DEF Filled, Live
<1>8. i \in Filled(b, c) <=> ~IsEmpty(b[i])
  BY <1>1 DEF Filled
<1>9. Cardinality(Filled(b2, c)) =
        IF IsEmpty(b[i]) THEN Cardinality(Filled(b, c)) + 1 ELSE Cardinality(Filled(b, c))
  BY <1>7, <1>8, FilledFinite, FS_AddElement
<1> QED
  BY <1>3, <1>5, <1>6, <1>7, <1>9 DEF i

(* A tombstone keeps the bucket in use, and every path that runs over it.  *)
LEMMA PutTombstone ==
  ASSUME NEW c \in Nat \ {0}, NEW b \in Buckets(c), Unique(b, c), Reachable(b, c),
         NEW i \in Live(b, c),
         NEW b2, b2 = [b EXCEPT ![i] = Tombstone]
  PROVE  /\ b2 \in Buckets(c) /\ Unique(b2, c) /\ Reachable(b2, c)
         /\ Filled(b2, c) = Filled(b, c)
<1>1. i \in 0 .. c - 1 /\ ~IsEmpty(b[i])
  BY DEF Live, IsEmpty
<1>2. Tombstone \in Entry /\ ~IsEmpty(Tombstone) /\ Tombstone.key = NoKey
  BY KeysAssumption DEF Tombstone, Entry, IsEmpty
<1>3. /\ b2 \in Buckets(c)
      /\ b2[i] = Tombstone /\ \A j \in (0 .. c - 1) \ {i} : b2[j] = b[j]
  BY <1>1, <1>2 DEF Buckets
<1>4. \A j \in 0 .. c - 1 : IsEmpty(b2[j]) <=> IsEmpty(b[j])
  BY <1>1, <1>2, <1>3
<1>5. Live(b2, c) = Live(b, c) \ {i} /\ \A j \in Live(b2, c) : b2[j] = b[j]
  BY <1>2, <1>3 DEF Live
<1>6. Reachable(b2, c)
  <2> SUFFICES ASSUME NEW j \in Live(b2, c)
               PROVE  ReachableAt(b2, c, j)
    BY DEF Reachable
  <2>1. PICK d \in 0 .. c - 1 : /\ Probe(Hash[b[j].key], c, d) = j
                                /\ \A f \in 0 .. d - 1 : ~IsEmpty(b[Probe(Hash[b[j].key], c, f)])
    BY <1>5 DEF Reachable, ReachableAt
  <2>2. Hash[b[j].key] \in Nat
    BY <1>5, KeysAssumption DEF Buckets, Entry, Live
  <2>3. \A f \in 0 .. d - 1 : ~IsEmpty(b2[Probe(Hash[b[j].key], c, f)])
    BY <2>1, <2>2, <1>4, ProbeInRange
  <2> QED
    BY <2>1, <2>3, <1>5 DEF ReachableAt
<1> QED
  BY <1>3, <1>4, <1>5, <1>6 DEF Unique, Filled
-----------------------------------------------------------------------------
(* The invariant.                                                          *)

(* The load: there is room for what tableSet and adjustCapacity will still *)
(* put (the old array stays as it was while count counts the new one), and *)
(* the new array of adjustCapacity has no tombstones.                      *)
Room ==
  /\ pc = "idle" => 5 * count <= 4 * capacity
  /\ pc = "store" => 5 * (count + 1) <= 4 * capacity
  /\ pc = "rehash" =>
       /\ count <= cursor
       /\ 5 * Cardinality(Filled(entries, capacity)) <= 4 * capacity
       /\ \A i \in 0 .. GrowCapacity(capacity) - 1 :
             fresh[i].key = NoKey => IsEmpty(fresh[i])

Inv == TypeOK /\ CountExact /\ OneBucketPerKey /\ KeysReachable /\ RehashKeepsPairs /\ Room

(* The new capacity leaves room for the old entries and one more.          *)
LEMMA Growth ==
  ASSUME TypeOK
  PROVE  /\ GrowCapacity(capacity) \in Nat
         /\ GrowCapacity(capacity) >= MinCapacity
         /\ GrowCapacity(capacity) > capacity /\ GrowCapacity(capacity) > 0
         /\ 5 * (capacity + 1) <= 4 * GrowCapacity(capacity)
BY CapacityAssumption DEF TypeOK, GrowCapacity

LEMMA InvHasEmpty ==
  ASSUME Inv
  PROVE  EmptyBucketLeft
<1>1. capacity \in Nat /\ count \in Nat /\ cursor \in 0 .. capacity
  BY DEF Inv, TypeOK
<1>2. /\ GrowCapacity(capacity) \in Nat
      /\ GrowCapacity(capacity) > capacity
  BY Growth DEF Inv
<1>3. 5 * Cardinality(Filled(entries, capacity)) <= 4 * capacity
  BY <1>1 DEF Inv, TypeOK, CountExact, Room
<1>4. capacity > 0 => HasEmpty(entries, capacity)
  BY <1>1, <1>3, FilledFinite
<1>5. pc = "rehash" => HasEmpty(fresh, GrowCapacity(capacity))
  BY <1>1, <1>2, FilledFinite DEF Inv, CountExact, Room
<1>6. pc = "store" => capacity > 0
  BY <1>1 DEF Inv, Room
<1> QED
  BY <1>4, <1>5, <1>6 DEF EmptyBucketLeft

LEMMA InitInv == Init => Inv
<1> SUFFICES ASSUME Init
             PROVE  Inv
  OBVIOUS
<1>1. entries = EmptyBuckets(0) /\ capacity = 0 /\ count = 0 /\ pc = "idle"
  BY DEF Init, NoBuckets
<1>2. TypeOK
  BY <1>1, EmptyArray, KeysAssumption DEF Init, TypeOK, NoPending, Entry
<1>3. CountExact /\ OneBucketPerKey /\ KeysReachable /\ RehashKeepsPairs /\ Room
  BY <1>1, EmptyArray DEF CountExact, OneBucketPerKey, KeysReachable, RehashKeepsPairs, Room
<1> QED
  BY <1>2, <1>3 DEF Inv

LEMMA SetBeginInv ==
  ASSUME Inv, NEW k \in Keys, NEW v \in Values, SetBegin(k, v)
  PROVE  Inv'
<1>1. /\ TypeOK /\ CountExact /\ OneBucketPerKey /\ KeysReachable /\ Room
      /\ pc = "idle" /\ capacity \in Nat /\ count \in Nat
  BY DEF Inv, SetBegin, TypeOK
<1>2. /\ pending' \in Entry /\ pending'.key # NoKey
      /\ entries' = entries /\ capacity' = capacity
  BY KeysAssumption DEF SetBegin, Entry
<1>3. CASE Overloaded
  <2> DEFINE G == GrowCapacity(capacity)
  <2>1. /\ fresh' = EmptyBuckets(G) /\ cursor' = 0 /\ count' = 0 /\ pc' = "rehash"
        /\ G \in Nat /\ GrowCapacity(capacity)' = G
    BY <1>1, <1>2, <1>3, Growth DEF SetBegin, GrowCapacity
  <2> HIDE DEF G
  <2>2. TypeOK'
    BY <1>1, <1>2, <2>1, EmptyArray DEF TypeOK
  <2>3. CountExact'
    BY <2>1, EmptyArray DEF CountExact
  <2>4. OneBucketPerKey' /\ KeysReachable'
    BY <1>1, <1>2, <2>1, EmptyArray DEF OneBucketPerKey, KeysReachable
  <2>5. RehashKeepsPairs'
    <3>1. Live(EmptyBuckets(G), G) = {} /\ Live(entries', capacity') \cap (0 .. 0 - 1) = {}
      BY <2>1, EmptyArray
    <3>2. Pairs(EmptyBuckets(G), {}) = Pairs(entries', {})
      BY DEF Pairs
    <3> QED
      BY <2>1, <3>1, <3>2 DEF RehashKeepsPairs
  <2>6. Room'
    <3>1. 5 * Cardinality(Filled(entries, capacity)) <= 4 * capacity
      BY <1>1 DEF CountExact, Room
    <3>2. \A i \in 0 .. G - 1 : IsEmpty(fresh'[i])
      BY <2>1 DEF EmptyBuckets, EmptyEntry, IsEmpty
    <3> QED
      BY <1>2, <2>1, <3>1, <3>2 DEF Room
  <2> QED
    BY <2>2, <2>3, <2>4, <2>5, <2>6 DEF Inv
<1>4. CASE ~Overloaded
  <2>1. pc' = "store" /\ fresh' = fresh /\ cursor' = cursor /\ count' = count
    BY <1>4 DEF SetBegin
  <2>2. TypeOK'
    BY <1>1, <1>2, <2>1 DEF TypeOK
  <2>3. CountExact' /\ OneBucketPerKey' /\ KeysReachable' /\ RehashKeepsPairs'
    BY <1>1, <1>2, <2>1 DEF CountExact, OneBucketPerKey, KeysReachable, RehashKeepsPairs
  <2>4. Room'
    BY <1>1, <1>2, <1>4, <2>1 DEF Room, Overloaded
  <2> QED
    BY <2>2, <2>3, <2>4 DEF Inv
<1> QED
  BY <1>3, <1>4

LEMMA MoveInv ==
  ASSUME Inv, Move
  PROVE  Inv'
<1> DEFINE G == GrowCapacity(capacity)
           e == entries[cursor]
<1>1. /\ TypeOK /\ CountExact /\ OneBucketPerKey /\ KeysReachable /\ RehashKeepsPairs /\ Room
      /\ pc = "rehash" /\ capacity \in Nat /\ count \in Nat
      /\ cursor \in 0 .. capacity - 1
      /\ entries \in Buckets(capacity) /\ fresh \in Buckets(G)
  BY DEF Inv, Move, TypeOK
<1>2. /\ entries' = entries /\ capacity' = capacity /\ pending' = pending /\ pc' = "rehash"
      /\ cursor' = cursor + 1 /\ GrowCapacity(capacity)' = G
  BY <1>1 DEF Move, Advance, GrowCapacity
<1>3. G \in Nat \ {0} /\ G > capacity
  BY <1>1, Growth
<1>4. e \in Entry
  BY <1>1 DEF Buckets
<1>5. CASE e.key = NoKey
  <2>1. fresh' = fresh /\ count' = count
    BY <1>5 DEF Move
  <2>2. Live(entries, capacity) \cap (0 .. cursor + 1 - 1) = Live(entries, capacity) \cap (0 .. cursor - 1)
    BY <1>1, <1>5 DEF Live
  <2>3. TypeOK'
    BY <1>1, <1>2, <2>1 DEF TypeOK
  <2>4. CountExact' /\ OneBucketPerKey' /\ KeysReachable'
    BY <1>1, <1>2, <2>1 DEF CountExact, OneBucketPerKey, KeysReachable
  <2>5. RehashKeepsPairs'
    BY <1>1, <1>2, <2>1, <2>2 DEF RehashKeepsPairs
  <2>6. Room'
    BY <1>1, <1>2, <2>1 DEF Room
  <2> QED
    BY <2>3, <2>4, <2>5, <2>6 DEF Inv
<1>6. CASE e.key # NoKey
  <2> DEFINE i == FindEntry(fresh, G, e.key)
  <2>1. e.key \in Keys
    BY <1>4, <1>6 DEF Entry
  <2>2. fresh' = [fresh EXCEPT ![i] = e] /\ count' = count + 1
    BY <1>6 DEF Move, Destination
  <2>3. HasEmpty(fresh, G) /\ Unique(fresh, G) /\ Reachable(fresh, G)
    BY <1>1, InvHasEmpty DEF EmptyBucketLeft, OneBucketPerKey, KeysReachable
  <2>4. /\ i \in 0 .. G - 1
        /\ fresh[i].key \in {e.key, NoKey}
    BY <1>1, <1>3, <2>1, <2>3, FindEntryFinds
  <2> HIDE DEF G, e
  <2>5. \A j \in Live(fresh, G) : fresh[j].key # e.key
    <3> SUFFICES ASSUME NEW j \in Live(fresh, G), fresh[j].key = e.key
                 PROVE  FALSE
      OBVIOUS
    <3>1. fresh[j] \in Pairs(entries, Live(entries, capacity) \cap (0 .. cursor - 1))
      BY <1>1 DEF RehashKeepsPairs, Pairs, G
    <3>2. PICK m \in Live(entries, capacity) \cap (0 .. cursor - 1) : entries[m] = fresh[j]
      BY <3>1 DEF Pairs
    <3>3. cursor \in Live(entries, capacity)
      BY <1>1, <1>6 DEF Live, e
    <3>4. m = cursor
      BY <1>1, <3>2, <3>3 DEF OneBucketPerKey, Unique, e
    <3> QED
      BY <1>1, <3>4
  <2>6. fresh[i].key = NoKey /\ IsEmpty(fresh[i])
    <3>1. fresh[i].key = NoKey
      BY <2>4, <2>5, <1>6 DEF Live
    <3> QED
      BY <1>1, <2>4, <3>1 DEF Room, G
  <2>7. /\ fresh' \in Buckets(G) /\ Unique(fresh', G) /\ Reachable(fresh', G)
        /\ Cardinality(Filled(fresh', G)) = Cardinality(Filled(fresh, G)) + 1
        /\ Live(fresh', G) = Live(fresh, G) \cup {i}
    BY <1>1, <1>3, <1>4, <2>1, <2>2, <2>3, <2>6, PutEntry
  <2> HIDE DEF i
  <2>8. fresh'[i] = e /\ \A j \in (0 .. G - 1) \ {i} : fresh'[j] = fresh[j]
    BY <1>1, <2>2, <2>4 DEF Buckets, G
  <2>9. TypeOK'
    BY <1>1, <1>2, <2>2, <2>7 DEF TypeOK, G
  <2>10. CountExact' /\ OneBucketPerKey' /\ KeysReachable'
    BY <1>1, <1>2, <2>2, <2>7 DEF CountExact, OneBucketPerKey, KeysReachable, G
  <2>11. RehashKeepsPairs'
    <3>1. Pairs(fresh', Live(fresh', G)) = Pairs(fresh, Live(fresh, G)) \cup {e}
      <4>1. i \notin Live(fresh, G)
        BY <2>6 DEF Live
      <4>2. \A j \in Live(fresh, G) : fresh'[j] = fresh[j]
        BY <2>8, <4>1 DEF Live
      <4> QED
        BY <2>7, <2>8, <4>2 DEF Pairs
    <3>2. Live(entries, capacity) \cap (0 .. cursor + 1 - 1)
            = (Live(entries, capacity) \cap (0 .. cursor - 1)) \cup {cursor}
      BY <1>1, <1>6 DEF Live, e
    <3>3. Pairs(entries, Live(entries, capacity) \cap (0 .. cursor + 1 - 1))
            = Pairs(entries, Live(entries, capacity) \cap (0 .. cursor - 1)) \cup {e}
      BY <3>2 DEF Pairs, e
    <3>4. Pairs(fresh, Live(fresh, G))
            = Pairs(entries, Live(entries, capacity) \cap (0 .. cursor - 1))
      BY <1>1 DEF RehashKeepsPairs, G
    <3>5. Pairs(fresh', Live(fresh', G))
            = Pairs(entries, Live(entries, capacity) \cap (0 .. cursor + 1 - 1))
      BY <3>1, <3>3, <3>4
    <3> QED
      BY <1>1, <1>2, <3>5 DEF RehashKeepsPairs, G
  <2>12. Room'
    <3>1. \A j \in 0 .. G - 1 : fresh'[j].key = NoKey => IsEmpty(fresh'[j])
      BY <1>1, <1>6, <2>8 DEF Room, G
    <3> QED
      BY <1>1, <1>2, <2>2, <3>1 DEF Room, G
  <2> QED
    BY <2>9, <2>10, <2>11, <2>12 DEF Inv
<1> QED
  BY <1>5, <1>6

LEMMA SwapInv ==
  ASSUME Inv, Swap
  PROVE  Inv'
<1> DEFINE G == GrowCapacity(capacity)
<1>1. /\ TypeOK /\ CountExact /\ OneBucketPerKey /\ KeysReachable /\ Room
      /\ pc = "rehash" /\ capacity \in Nat /\ count \in Nat /\ cursor = capacity
      /\ fresh \in Buckets(G)
  BY DEF Inv, Swap, TypeOK
<1>2. /\ entries' = fresh /\ capacity' = G /\ fresh' = NoBuckets /\ cursor' = 0
      /\ pc' = "store" /\ count' = count /\ pending' = pending
  BY DEF Swap
<1>3. /\ G \in Nat /\ G >= MinCapacity /\ 5 * (capacity + 1) <= 4 * G
  BY <1>1, Growth
<1>4. TypeOK'
  BY <1>1, <1>2, <1>3 DEF TypeOK
<1>5. CountExact' /\ OneBucketPerKey' /\ KeysReachable' /\ RehashKeepsPairs'
  BY <1>1, <1>2 DEF CountExact, OneBucketPerKey, KeysReachable, RehashKeepsPairs
<1>6. Room'
  BY <1>1, <1>2, <1>3 DEF Room
<1> QED
  BY <1>4, <1>5, <1>6 DEF Inv

LEMMA StoreInv ==
  ASSUME Inv, Store
  PROVE  Inv'
<1> DEFINE i == FindEntry(entries, capacity, pending.key)
<1>1. /\ TypeOK /\ CountExact /\ OneBucketPerKey /\ KeysReachable /\ Room
      /\ pc = "store" /\ capacity \in Nat \ {0} /\ count \in Nat
      /\ entries \in Buckets(capacity)
      /\ pending \in Entry /\ pending.key \in Keys
  BY InvHasEmpty DEF Inv, Store, TypeOK, Entry, EmptyBucketLeft
<1>2. /\ entries' = [entries EXCEPT ![i] = pending]
      /\ count' = IF IsEmpty(entries[i]) THEN count + 1 ELSE count
      /\ pending' = NoPending /\ pc' = "idle"
      /\ capacity' = capacity /\ fresh' = fresh /\ cursor' = cursor
  BY DEF Store, UsesOneMore
<1>3. HasEmpty(entries, capacity) /\ Unique(entries, capacity) /\ Reachable(entries, capacity)
  BY <1>1, InvHasEmpty DEF EmptyBucketLeft, OneBucketPerKey, KeysReachable
<1>4. /\ entries' \in Buckets(capacity)
      /\ Unique(entries', capacity) /\ Reachable(entries', capacity)
      /\ Cardinality(Filled(entries', capacity)) =
           IF IsEmpty(entries[i]) THEN Cardinality(Filled(entries, capacity)) + 1
                                  ELSE Cardinality(Filled(entries, capacity))
  BY <1>1, <1>2, <1>3, PutEntry
<1> HIDE DEF i
<1>5. TypeOK'
  BY <1>1, <1>2, <1>4, KeysAssumption DEF TypeOK, NoPending, Entry
<1>6. CountExact'
  BY <1>1, <1>2, <1>4 DEF CountExact
<1>7. OneBucketPerKey' /\ KeysReachable' /\ RehashKeepsPairs'
  BY <1>2, <1>4 DEF OneBucketPerKey, KeysReachable, RehashKeepsPairs
<1>8. Room'
  BY <1>1, <1>2 DEF Room
<1> QED
  BY <1>5, <1>6, <1>7, <1>8 DEF Inv

LEMMA DeleteInv ==
  ASSUME Inv, NEW k \in Keys, Delete(k)
  PROVE  Inv'
<1> DEFINE i == FindEntry(entries, capacity, k)
<1>1. /\ TypeOK /\ CountExact /\ OneBucketPerKey /\ KeysReachable /\ RehashKeepsPairs /\ Room
      /\ pc = "idle" /\ capacity \in Nat /\ count \in Nat
      /\ entries \in Buckets(capacity)
  BY DEF Inv, Delete, TypeOK
<1>2. /\ pc' = pc /\ capacity' = capacity /\ count' = count /\ fresh' = fresh
      /\ cursor' = cursor /\ pending' = pending
      /\ \/ entries' = entries
         \/ count # 0 /\ entries[i].key # NoKey /\ entries' = [entries EXCEPT ![i] = Tombstone]
  BY DEF Delete, Lookup
<1>3. CASE entries' = entries
  BY <1>1, <1>2, <1>3
     DEF Inv, TypeOK, CountExact, OneBucketPerKey, KeysReachable, RehashKeepsPairs, Room
<1>4. CASE count # 0 /\ entries[i].key # NoKey /\ entries' = [entries EXCEPT ![i] = Tombstone]
  <2>1. capacity \in Nat \ {0} /\ HasEmpty(entries, capacity)
    BY <1>1, <1>4, InvHasEmpty DEF Room, EmptyBucketLeft
  <2>2. i \in Live(entries, capacity)
    BY <1>1, <1>4, <2>1, FindEntryFinds DEF Live
  <2> HIDE DEF i
  <2>3. /\ entries' \in Buckets(capacity)
        /\ Unique(entries', capacity) /\ Reachable(entries', capacity)
        /\ Filled(entries', capacity) = Filled(entries, capacity)
    BY <1>1, <1>4, <2>1, <2>2, PutTombstone DEF OneBucketPerKey, KeysReachable
  <2>4. TypeOK'
    BY <1>1, <1>2, <2>3 DEF TypeOK
  <2>5. CountExact' /\ OneBucketPerKey' /\ KeysReachable' /\ RehashKeepsPairs'
    BY <1>1, <1>2, <2>3 DEF CountExact, OneBucketPerKey, KeysReachable, RehashKeepsPairs
  <2>6. Room'
    BY <1>1, <1>2 DEF Room
  <2> QED
    BY <2>4, <2>5, <2>6 DEF Inv
<1> QED
  BY <1>2, <1>3, <1>4

LEMMA UnchangedInv ==
  ASSUME Inv, UNCHANGED <<entries, capacity, count, fresh, cursor, pending, pc>>
  PROVE  Inv'
<1>1. /\ entries' = entries /\ capacity' = capacity /\ count' = count /\ fresh' = fresh
      /\ cursor' = cursor /\ pending' = pending /\ pc' = pc
      /\ GrowCapacity(capacity') = GrowCapacity(capacity)
  BY DEF GrowCapacity
<1>2. TypeOK'
  BY <1>1 DEF Inv, TypeOK
<1>3. CountExact' /\ OneBucketPerKey' /\ KeysReachable'
  BY <1>1 DEF Inv, CountExact, OneBucketPerKey, KeysReachable
<1>4. RehashKeepsPairs'
  BY <1>1 DEF Inv, RehashKeepsPairs
<1>5. Room'
  BY <1>1 DEF Inv, Room
<1> QED
  BY <1>2, <1>3, <1>4, <1>5 DEF Inv
-----------------------------------------------------------------------------
(* Every call of table.c, the rehash included, keeps the invariant.        *)
THEOREM Invariance == Spec => []Inv
<1>1. Inv /\ [Next]_vars => Inv'
  <2> SUFFICES ASSUME Inv, [Next]_vars
               PROVE  Inv'
    OBVIOUS
  <2>1. ASSUME NEW k \in Keys, NEW v \in Values, SetBegin(k, v)
        PROVE  Inv'
    BY <2>1, SetBeginInv
  <2>2. CASE Move
    BY <2>2, MoveInv
  <2>3. CASE Swap
    BY <2>3, SwapInv
  <2>4. CASE Store
    BY <2>4, StoreInv
  <2>5. ASSUME NEW k \in Keys, Get(k)
        PROVE  Inv'
    BY <2>5, UnchangedInv DEF Get
  <2>6. ASSUME NEW k \in Keys, Delete(k)
        PROVE  Inv'
    BY <2>6, DeleteInv
  <2>7. ASSUME NEW t \in Texts, FindString(t)
        PROVE  Inv'
    BY <2>7, UnchangedInv DEF FindString
  <2>8. CASE UNCHANGED vars
    BY <2>8, UnchangedInv DEF vars
  <2> QED
    BY <2>1, <2>2, <2>3, <2>4, <2>5, <2>6, <2>7, <2>8 DEF Next, SetStep
<1> QED
  BY <1>1, InitInv, PTL DEF Spec

(* The variables have their types.                                         *)
THEOREM TypeCorrect == Spec => []TypeOK
BY Invariance, PTL DEF Inv

(* count is the number of buckets in use, whatever the order of calls.     *)
THEOREM CountIsExact == Spec => []CountExact
BY Invariance, PTL DEF Inv

(* The searches of findEntry and tableFindString always have an end.       *)
THEOREM SearchesEnd == Spec => []EmptyBucketLeft
BY Invariance, InvHasEmpty, PTL

(* A key in the table lies where the search from its hash gets to, however *)
(* often tableDelete and adjustCapacity changed the path.                  *)
THEOREM KeysFound == Spec => []KeysReachable
BY Invariance, PTL DEF Inv

(* tableSet and adjustCapacity never give a key a second bucket.           *)
THEOREM UniqueBuckets == Spec => []OneBucketPerKey
BY Invariance, PTL DEF Inv

(* adjustCapacity moves every pair and invents none.                       *)
THEOREM RehashExact == Spec => []RehashKeepsPairs
BY Invariance, PTL DEF Inv

-----------------------------------------------------------------------------
(***************************************************************************)
(* Table implements TableMap, for all keys, hashes and capacities.         *)
(*                                                                         *)
(* The map is read off the array of buckets: the value of a key is that of *)
(* its bucket.  The invariant of Table_proofs makes this a function of the *)
(* pairs in the array alone (a key has one bucket) and makes what findEntry*)
(* and tableFindString stop at the answer the map gives (a key is on the   *)
(* path from its hash, before the first empty bucket).                     *)
(***************************************************************************)

(* The value an array of buckets has for a key.                            *)
ValueIn(b, c, k) ==
  IF \E i \in 0 .. c - 1 : b[i].key = k
  THEN b[CHOOSE i \in 0 .. c - 1 : b[i].key = k].value
  ELSE Absent

LEMMA MapIs ==
  /\ AbsMap = [k \in Keys |-> ValueIn(entries, capacity, k)]
  /\ \A k \in Keys : AbsMap[k] = ValueIn(entries, capacity, k)
BY DEF AbsMap, ValueIn

LEMMA ValueAt ==
  ASSUME NEW c \in Nat, NEW b \in Buckets(c), Unique(b, c), NEW i \in Live(b, c)
  PROVE  ValueIn(b, c, b[i].key) = b[i].value
<1> DEFINE k == b[i].key
           j == CHOOSE j \in 0 .. c - 1 : b[j].key = k
<1>1. i \in 0 .. c - 1 /\ k # NoKey
  BY DEF Live
<1>2. j \in 0 .. c - 1 /\ b[j].key = k
  BY <1>1
<1>3. j = i
  BY <1>1, <1>2 DEF Unique, Live
<1> QED
  BY <1>1, <1>3 DEF ValueIn

LEMMA ValueNowhere ==
  ASSUME NEW c, NEW b, NEW k, \A i \in 0 .. c - 1 : b[i].key # k
  PROVE  ValueIn(b, c, k) = Absent
BY DEF ValueIn

(* Only the pairs in an array count, not where they lie.                   *)
LEMMA SamePairs ==
  ASSUME NEW c \in Nat, NEW b \in Buckets(c), Unique(b, c),
         NEW d \in Nat, NEW f \in Buckets(d), Unique(f, d),
         Pairs(b, Live(b, c)) = Pairs(f, Live(f, d)),
         NEW k \in Keys
  PROVE  ValueIn(b, c, k) = ValueIn(f, d, k)
<1>0. k # NoKey
  BY KeysAssumption
<1>1. CASE \E i \in 0 .. c - 1 : b[i].key = k
  <2>1. PICK i \in 0 .. c - 1 : b[i].key = k
    BY <1>1
  <2>2. i \in Live(b, c)
    BY <1>0, <2>1 DEF Live
  <2>3. PICK j \in Live(f, d) : f[j] = b[i]
    BY <2>2 DEF Pairs
  <2> QED
    BY <2>1, <2>2, <2>3, ValueAt
<1>2. CASE \A i \in 0 .. c - 1 : b[i].key # k
  <2>1. ASSUME NEW j \in 0 .. d - 1, f[j].key = k
        PROVE  FALSE
    <3>1. j \in Live(f, d)
      BY <1>0, <2>1 DEF Live
    <3>2. PICK i \in Live(b, c) : b[i] = f[j]
      BY <3>1 DEF Pairs
    <3> QED
      BY <1>2, <2>1, <3>2 DEF Live
  <2> QED
    BY <1>2, <2>1, ValueNowhere
<1> QED
  BY <1>1, <1>2

(* One bucket is written: the keys that neither were nor are in it keep    *)
(* their values.                                                           *)
LEMMA OthersKeep ==
  ASSUME NEW c \in Nat \ {0}, NEW b \in Buckets(c), Unique(b, c),
         NEW i \in 0 .. c - 1, NEW e \in Entry,
         NEW b2 \in Buckets(c), Unique(b2, c), b2 = [b EXCEPT ![i] = e],
         NEW k \in Keys, b[i].key # k, e.key # k
  PROVE  ValueIn(b2, c, k) = ValueIn(b, c, k)
<1>0. k # NoKey
  BY KeysAssumption
<1>1. b2[i] = e /\ \A j \in (0 .. c - 1) \ {i} : b2[j] = b[j]
  BY DEF Buckets
<1>2. CASE \E j \in 0 .. c - 1 : b[j].key = k
  <2>1. PICK j \in 0 .. c - 1 : b[j].key = k
    BY <1>2
  <2>2. j \in Live(b, c) /\ j \in Live(b2, c) /\ b2[j] = b[j]
    BY <1>0, <1>1, <2>1 DEF Live
  <2>3. ValueIn(b, c, b[j].key) = b[j].value /\ ValueIn(b2, c, b2[j].key) = b2[j].value
    BY <2>2, ValueAt
  <2> QED
    BY <2>1, <2>2, <2>3
<1>3. CASE \A j \in 0 .. c - 1 : b[j].key # k
  <2>1. \A j \in 0 .. c - 1 : b2[j].key # k
    BY <1>1, <1>3
  <2>2. ValueIn(b, c, k) = Absent /\ ValueIn(b2, c, k) = Absent
    BY ONLY <1>3, <2>1, ValueNowhere
  <2> QED
    BY <2>2
<1> QED
  BY <1>2, <1>3
-----------------------------------------------------------------------------
(* What the searches of the table answer.                                  *)

(* tableGet and tableDelete skip the search of a table that counts no      *)
(* bucket: there is no key in it.                                          *)
LEMMA NothingCounted ==
  ASSUME Inv, pc # "rehash", count = 0 \/ capacity = 0, NEW k \in Keys
  PROVE  AbsMap[k] = Absent
<1>1. capacity \in Nat /\ k # NoKey
  BY KeysAssumption DEF Inv, TypeOK
<1>2. Cardinality(Filled(entries, capacity)) = count
  BY DEF Inv, CountExact
<1>3. IsFiniteSet(Filled(entries, capacity))
  BY <1>1, FilledFinite
<1>4. Filled(entries, capacity) = {}
  <2>1. CASE count = 0
    BY <1>2, <1>3, <2>1, FS_EmptySet
  <2>2. CASE capacity = 0
    BY <2>2 DEF Filled
  <2> QED
    BY <2>1, <2>2
<1>5. \A i \in 0 .. capacity - 1 : entries[i].key # k
  BY <1>1, <1>4 DEF Filled, IsEmpty
<1> QED
  BY <1>5, ValueNowhere, MapIs

(* Otherwise findEntry ends at the key's bucket if there is one.           *)
LEMMA Searched ==
  ASSUME Inv, pc # "rehash", capacity # 0, NEW k \in Keys
  PROVE  /\ FindEntry(entries, capacity, k) \in 0 .. capacity - 1
         /\ Lookup(k).key \in {k, NoKey} /\ Lookup(k).value \in Values
         /\ AbsMap[k] = IF Lookup(k).key = NoKey THEN Absent ELSE Lookup(k).value
<1> DEFINE i == FindEntry(entries, capacity, k)
<1>1. /\ capacity \in Nat \ {0} /\ entries \in Buckets(capacity) /\ k # NoKey
      /\ Unique(entries, capacity) /\ Reachable(entries, capacity)
  BY KeysAssumption DEF Inv, TypeOK, OneBucketPerKey, KeysReachable
<1>2. HasEmpty(entries, capacity)
  BY <1>1, InvHasEmpty DEF EmptyBucketLeft
<1>3. /\ i \in 0 .. capacity - 1 /\ entries[i].key \in {k, NoKey}
      /\ entries[i].key # k => \A j \in 0 .. capacity - 1 : entries[j].key # k
  BY <1>1, <1>2, FindEntryFinds
<1> HIDE DEF i
<1>4. entries[i].value \in Values
  BY <1>1, <1>3 DEF Buckets, Entry
<1>5. entries[i].key = k => ValueIn(entries, capacity, k) = entries[i].value
  BY <1>1, <1>3, ValueAt DEF Live
<1>6. entries[i].key # k => ValueIn(entries, capacity, k) = Absent
  BY <1>3, ValueNowhere
<1> QED
  BY <1>1, <1>3, <1>4, <1>5, <1>6, MapIs DEF Lookup, i

LEMMA Answers ==
  ASSUME Inv, pc = "idle", NEW k \in Keys
  PROVE  /\ AbsMap[k] = IF count = 0 \/ Lookup(k).key = NoKey
                        THEN Absent ELSE Lookup(k).value
         /\ Map!Present(k) <=> count # 0 /\ Lookup(k).key # NoKey
<1>1. CASE count = 0
  BY <1>1, NothingCounted DEF Map!Present
<1>2. CASE count # 0
  <2>1. capacity # 0
    BY <1>2 DEF Inv, Room, TypeOK
  <2> QED
    BY <1>2, <2>1, Searched, KeysAssumption DEF Map!Present
<1> QED
  BY <1>1, <1>2
-----------------------------------------------------------------------------
(* The steps.                                                              *)

(* A call that leaves the array alone leaves the map alone.                *)
LEMMA SameMap ==
  ASSUME UNCHANGED <<entries, capacity>>
  PROVE  AbsMap' = AbsMap
BY DEF AbsMap

LEMMA SwapStutters ==
  ASSUME Inv, Swap
  PROVE  UNCHANGED Map!vars
<1> DEFINE d == GrowCapacity(capacity)
<1>1. /\ capacity \in Nat /\ entries \in Buckets(capacity) /\ cursor = capacity
      /\ pc = "rehash" /\ fresh \in Buckets(d) /\ d \in Nat
      /\ Unique(entries, capacity) /\ Unique(fresh, d)
  BY Growth DEF Inv, Swap, TypeOK, OneBucketPerKey
<1>2. Pairs(fresh, Live(fresh, d)) = Pairs(entries, Live(entries, capacity))
  <2>1. Live(entries, capacity) \cap (0 .. cursor - 1) = Live(entries, capacity)
    BY <1>1 DEF Live
  <2> QED
    BY <1>1, <2>1 DEF Inv, RehashKeepsPairs
<1>3. \A k \in Keys : ValueIn(fresh, d, k) = ValueIn(entries, capacity, k)
  BY <1>1, <1>2, SamePairs
<1>4. entries' = fresh /\ capacity' = d /\ ret' = ret
  BY DEF Swap
<1>5. AbsMap' = [k \in Keys |-> ValueIn(fresh, d, k)]
  BY <1>4 DEF AbsMap, ValueIn
<1> QED
  BY <1>3, <1>4, <1>5, MapIs DEF Map!vars

LEMMA StoreSets ==
  ASSUME Inv, Store
  PROVE  Map!Set(pending.key, pending.value) /\ pending.key \in Keys /\ pending.value \in Values
<1> DEFINE k == pending.key
           i == FindEntry(entries, capacity, k)
<1>1. /\ pc = "store" /\ pending \in Entry /\ k \in Keys /\ pending.value \in Values
      /\ capacity \in Nat \ {0} /\ entries \in Buckets(capacity)
      /\ Unique(entries, capacity) /\ Reachable(entries, capacity)
  BY InvHasEmpty DEF Inv, Store, TypeOK, Entry, OneBucketPerKey, KeysReachable, EmptyBucketLeft
<1>2. HasEmpty(entries, capacity)
  BY <1>1, InvHasEmpty DEF EmptyBucketLeft
<1>3. /\ i \in 0 .. capacity - 1 /\ entries[i].key \in {k, NoKey}
      /\ AbsMap[k] = IF entries[i].key = NoKey THEN Absent ELSE entries[i].value
      /\ entries[i].value \in Values
  BY <1>1, Searched DEF Lookup
<1>4. entries' = [entries EXCEPT ![i] = pending] /\ capacity' = capacity
  BY DEF Store
<1>5. Return("set", k, entries[i].key = NoKey)
  BY DEF Store
<1>6. Map!Return("set", k, ~Map!Present(k))
  <2>1. (entries[i].key = NoKey) = ~Map!Present(k)
    BY <1>1, <1>3, KeysAssumption DEF Map!Present
  <2> QED
    BY <1>5, <2>1 DEF Return, Map!Return
<1> DEFINE b == [entries EXCEPT ![i] = pending]
<1>7. b \in Buckets(capacity) /\ Unique(b, capacity) /\ Live(b, capacity) = Live(entries, capacity) \cup {i}
  BY <1>1, <1>2, PutEntry
<1>8. b[i] = pending
  BY <1>1, <1>3 DEF Buckets
<1>9. ValueIn(b, capacity, k) = pending.value
  <2> HIDE DEF b, i
  <2>1. i \in Live(b, capacity)
    BY <1>7
  <2> QED
    BY <1>1, <1>7, <1>8, <2>1, ValueAt
<1>10. ASSUME NEW m \in Keys, m # k
       PROVE  ValueIn(b, capacity, m) = ValueIn(entries, capacity, m)
  <2>1. entries[i].key # m
    BY <1>3, <1>10, KeysAssumption
  <2> HIDE DEF i
  <2> QED
    BY <1>1, <1>3, <1>7, <1>10, <2>1, OthersKeep, ZenonT(60)
<1>11. AbsMap' = [m \in Keys |-> ValueIn(b, capacity, m)]
  BY <1>4 DEF AbsMap, ValueIn
<1> HIDE DEF b, i
<1>12. AbsMap' = [AbsMap EXCEPT ![k] = pending.value]
  BY <1>1, <1>9, <1>10, <1>11, MapIs
<1> QED
  BY <1>1, <1>6, <1>12 DEF Map!Set

LEMMA DeleteDeletes ==
  ASSUME Inv, NEW k \in Keys, Delete(k)
  PROVE  Map!Delete(k)
<1> DEFINE i == FindEntry(entries, capacity, k)
           found == count # 0 /\ Lookup(k).key # NoKey
<1>1. /\ pc = "idle" /\ capacity \in Nat /\ count \in Nat /\ entries \in Buckets(capacity)
      /\ Unique(entries, capacity) /\ Reachable(entries, capacity)
  BY DEF Inv, Delete, TypeOK, OneBucketPerKey, KeysReachable
<1>2. capacity' = capacity /\ Return("delete", k, found)
  BY DEF Delete
<1>3. Map!Present(k) <=> found
  BY <1>1, Answers
<1>4. Map!Return("delete", k, Map!Present(k))
  <2>1. found = Map!Present(k)
    BY <1>3 DEF Map!Present
  <2> QED
    BY <1>2, <2>1 DEF Return, Map!Return
<1>5. CASE ~found
  <2>1. entries' = entries
    BY <1>5 DEF Delete
  <2>2. AbsMap' = AbsMap
    BY <1>2, <2>1, SameMap
  <2>3. AbsMap[k] = Absent
    BY <1>3, <1>5 DEF Map!Present
  <2> QED
    BY <1>4, <2>2, <2>3, MapIs DEF Map!Delete
<1>6. CASE found
  <2>1. capacity # 0 /\ entries' = [entries EXCEPT ![i] = Tombstone]
    BY <1>1, <1>6 DEF Delete, Inv, Room
  <2>2. i \in 0 .. capacity - 1 /\ entries[i].key = k
    BY <1>1, <1>6, <2>1, Searched DEF Lookup
  <2> HIDE DEF i
  <2>3. i \in Live(entries, capacity) /\ k # NoKey
    BY <2>2, KeysAssumption DEF Live
  <2> DEFINE b == [entries EXCEPT ![i] = Tombstone]
  <2>4. b \in Buckets(capacity) /\ Unique(b, capacity)
    BY <1>1, <2>1, <2>3, PutTombstone
  <2>5. b[i] = Tombstone /\ \A j \in (0 .. capacity - 1) \ {i} : b[j] = entries[j]
    BY <1>1, <2>2 DEF Buckets
  <2>6. Tombstone \in Entry /\ Tombstone.key = NoKey
    BY KeysAssumption DEF Tombstone, Entry
  <2>7. AbsMap' = [m \in Keys |-> ValueIn(b, capacity, m)]
    BY <1>2, <2>1 DEF AbsMap, ValueIn
  <2>8. ASSUME NEW m \in Keys, m # k
        PROVE  ValueIn(b, capacity, m) = ValueIn(entries, capacity, m)
    <3>1. entries[i].key # m /\ Tombstone.key # m
      BY <2>2, <2>6, <2>8, KeysAssumption
    <3> QED
      BY <1>1, <2>1, <2>2, <2>4, <2>6, <3>1, OthersKeep, ZenonT(60)
  <2>9. ValueIn(b, capacity, k) = Absent
    <3>1. ASSUME NEW j \in 0 .. capacity - 1
          PROVE  b[j].key # k
      BY <1>1, <2>2, <2>3, <2>5, <2>6 DEF Unique, Live
    <3> QED
      BY <3>1, ValueNowhere
  <2> HIDE DEF b
  <2>10. AbsMap' = [AbsMap EXCEPT ![k] = Absent]
    BY <2>7, <2>8, <2>9, MapIs
  <2> QED
    BY <1>4, <2>10 DEF Map!Delete
<1> QED
  BY <1>5, <1>6

LEMMA FindStringFinds ==
  ASSUME Inv, NEW t \in Texts, FindString(t)
  PROVE  Map!FindString(t)
<1> DEFINE P(d) == Probe(TextHash[t], capacity, d)
           stop == Least(StringStops(t))
<1>1. /\ pc = "idle" /\ capacity \in Nat /\ count \in Nat /\ entries \in Buckets(capacity)
      /\ Unique(entries, capacity) /\ Reachable(entries, capacity)
      /\ TextHash[t] \in Nat
  BY KeysAssumption
     DEF Inv, FindString, TypeOK, OneBucketPerKey, KeysReachable
<1>2. AbsMap' = AbsMap
  BY SameMap DEF FindString
<1>3. CASE count = 0 \/ capacity = 0
  <2>1. Map!Matching(t) = {}
    BY <1>1, <1>3, NothingCounted DEF Map!Matching, Map!Present
  <2>2. Return("find", t, NoKey)
    BY <1>3 DEF FindString
  <2> QED
    BY <1>2, <2>1, <2>2 DEF Map!FindString, Map!Return, Return
<1>4. CASE ~(count = 0 \/ capacity = 0)
  <2>1. HasEmpty(entries, capacity) /\ capacity \in Nat \ {0}
    BY <1>1, <1>4, InvHasEmpty DEF EmptyBucketLeft
  <2>2. \A d \in 0 .. capacity - 1 : P(d) \in 0 .. capacity - 1
    BY <1>1, <2>1, ProbeInRange
  <2>3. StringStops(t) # {}
    <3>1. PICK i \in 0 .. capacity - 1 : IsEmpty(entries[i])
      BY <2>1 DEF HasEmpty
    <3>2. PICK d \in 0 .. capacity - 1 : P(d) = i
      BY <1>1, <2>1, ProbeMeetsAll
    <3> QED
      BY <3>1, <3>2 DEF StringStops
  <2>4. StringStops(t) \subseteq Nat
    BY DEF StringStops
  <2>5. stop \in StringStops(t) /\ \A d \in StringStops(t) : stop <= d
    BY <2>3, <2>4, LeastOf
  <2> DEFINE e == entries[P(stop)]
  <2>6. Return("find", t, e.key)
    BY <1>4 DEF FindString
  <2> HIDE DEF stop
  <2>7. stop \in 0 .. capacity - 1 /\ P(stop) \in 0 .. capacity - 1
    BY <2>2, <2>5 DEF StringStops
  <2>8. \/ IsEmpty(e)
        \/ e.key # NoKey /\ Text[e.key] = t /\ Hash[e.key] = TextHash[t]
    BY <2>5 DEF StringStops
  <2>9. CASE IsEmpty(e)
    <3>1. ASSUME NEW k \in Map!Matching(t)
          PROVE  FALSE
      <4>1. k \in Keys /\ AbsMap[k] # Absent /\ Text[k] = t /\ Hash[k] = TextHash[t]
        BY DEF Map!Matching, Map!Present
      <4>2. PICK i \in 0 .. capacity - 1 : entries[i].key = k
        BY <4>1, ValueNowhere, MapIs
      <4>3. i \in Live(entries, capacity)
        BY <4>1, <4>2, KeysAssumption DEF Live
      <4>4. PICK d \in 0 .. capacity - 1 :
               P(d) = i /\ \A f \in 0 .. d - 1 : ~IsEmpty(entries[P(f)])
        BY <1>1, <4>1, <4>2, <4>3 DEF Reachable, ReachableAt
      <4>5. d \in StringStops(t)
        BY <4>1, <4>2, <4>3, <4>4 DEF StringStops, Live
      <4>6. stop = d
        BY <2>5, <2>7, <2>9, <4>4, <4>5
      <4> QED
        BY <2>9, <4>1, <4>2, <4>4, <4>6, KeysAssumption DEF IsEmpty
    <3>2. e.key = NoKey /\ Map!Matching(t) = {}
      BY <2>9, <3>1 DEF IsEmpty
    <3> QED
      BY <1>2, <2>6, <3>2 DEF Map!FindString, Map!Return, Return
  <2>10. CASE e.key # NoKey /\ Text[e.key] = t /\ Hash[e.key] = TextHash[t]
    <3>1. P(stop) \in Live(entries, capacity) /\ e.key \in Keys /\ e.value \in Values
      BY <1>1, <2>7, <2>10 DEF Live, Buckets, Entry
    <3>2. AbsMap[e.key] # Absent
      BY <1>1, <3>1, ValueAt, MapIs, KeysAssumption
    <3>3. e.key \in Map!Matching(t)
      BY <2>10, <3>1, <3>2 DEF Map!Matching, Map!Present
    <3> QED
      BY <1>2, <2>6, <3>3 DEF Map!FindString, Map!Return, Return
  <2> QED
    BY <2>8, <2>9, <2>10
<1> QED
  BY <1>3, <1>4

(* tableSet, tableGet, tableDelete, tableFindString and adjustCapacity     *)
(* answer as a finite map does, and a rehash cannot be seen.               *)
THEOREM TableIsAMap == Spec => ImplementsMap
<1>1. Init => Map!Init
  BY DEF Init, Map!Init, AbsMap, NoBuckets, EmptyBuckets
<1>2. Inv /\ [Next]_vars => [Map!Next]_(Map!vars)
  <2> SUFFICES ASSUME Inv, [Next]_vars
               PROVE  Map!Next \/ UNCHANGED Map!vars
    OBVIOUS
  <2>1. ASSUME NEW k \in Keys, NEW v \in Values, SetBegin(k, v)
        PROVE  UNCHANGED Map!vars
    BY <2>1, SameMap DEF SetBegin, Map!vars
  <2>2. CASE Move
    BY <2>2, SameMap DEF Move, Map!vars
  <2>3. CASE Swap
    BY <2>3, SwapStutters
  <2>4. CASE Store
    BY <2>4, StoreSets DEF Map!Next
  <2>5. ASSUME NEW k \in Keys, Get(k)
        PROVE  Map!Get(k)
    BY <2>5, SameMap, Answers DEF Get, Return, Map!Get, Map!Return
  <2>6. ASSUME NEW k \in Keys, Delete(k)
        PROVE  Map!Delete(k)
    BY <2>6, DeleteDeletes
  <2>7. ASSUME NEW t \in Texts, FindString(t)
        PROVE  Map!FindString(t)
    BY <2>7, FindStringFinds
  <2>8. CASE UNCHANGED vars
    BY <2>8, SameMap DEF vars, Map!vars
  <2> QED
    BY <2>1, <2>2, <2>3, <2>4, <2>5, <2>6, <2>7, <2>8 DEF Next, SetStep, Map!Next
<1> QED
  BY <1>1, <1>2, Invariance, PTL DEF Spec, ImplementsMap, Map!Spec
=============================================================================
